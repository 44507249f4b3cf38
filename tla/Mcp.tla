--------------------------------- MODULE Mcp ---------------------------------
(***************************************************************************)
(* McpServerManager: the stdio MCP servers of one claw process.  A server  *)
(* is started when something is asked of it, answers initialize, and is    *)
(* asked one request at a time.  What goes wrong (a dead process, a late   *)
(* answer, an answer to something else) resets the server: its process is  *)
(* killed and the next request starts another.  Discovery and resources    *)
(* are retried once, and so is initialize inside each try; a tool call is  *)
(* not.  The manager is used by one caller at a time (a mutex in claw).    *)
(***************************************************************************)
EXTENDS Integers, FiniteSets, Sequences

CONSTANTS Servers,        \* numbers, in the order of their names
          Pids,           \* numbers of processes, used again when free
          MaxRequests,    \* bound: request ids
          MaxStrays,      \* bound: messages no request asked for
          MaxDeaths       \* bound: processes that end by themselves
ASSUME McpAssumption ==
  /\ Servers \subseteq Nat /\ Servers # {} /\ Pids \subseteq Nat \ {0} /\ MaxRequests \in Nat
  /\ MaxStrays \in Nat /\ MaxDeaths \in Nat

VARIABLES
  servers,   \* ManagedMcpServer: the process and whether it is initialized
  alive,     \* processes that run
  inbox,     \* per process: the request it has not answered, 0 when none
  outbox,    \* per process: what it wrote that was not read
  ids,       \* next_request_id - 1
  routes,    \* servers whose tools are in tool_index
  operation,        \* the operation of the manager
  greeted,   \* processes that answered initialize
  sent,      \* processes that were sent anything else
  strays, deaths
mcpVars == <<servers, alive, inbox, outbox, ids, routes, operation, greeted, sent, strays,
             deaths>>
Bodies == {"result", "more", "error", "invalid"}

Gone == [pid |-> 0, initialized |-> FALSE]
\* Faulty variant: a process is taken to be ready when it is started.
SpawnedReady(pid) == [pid |-> pid, initialized |-> TRUE]
Spawned(pid) == [pid |-> pid, initialized |-> FALSE]
\* pc: "enter" and "ready" are ensure_server_ready, "wait" a request is out.
\* tries counts those of the operation on a server, inits those of initialize;
\* runs and said record what the properties speak of.
NoOperation == [kind |-> "idle", todo |-> {}, pc |-> "idle", tries |-> 0, inits |-> 0,
                req |-> 0, runs |-> 0, said |-> "none"]
Lowest(todo) == CHOOSE s \in todo : \A t \in todo : s <= t
Begun(kind, todo) == [NoOperation EXCEPT !.kind = kind, !.todo = todo, !.pc = "enter"]
server == Lowest(operation.todo)
process == servers[server].pid

\* RuntimeMcpState::new begins with discover_tools_best_effort.
McpInit ==
  /\ servers = [s \in Servers |-> Gone] /\ alive = {} /\ ids = 0
  /\ inbox = [p \in Pids |-> 0] /\ outbox = [p \in Pids |-> <<>>]
  /\ routes = {} /\ operation = Begun("discover", Servers) /\ greeted = {} /\ sent = {}
  /\ strays = 0 /\ deaths = 0

Record == <<strays, deaths>>
Heard == <<greeted, sent>>
Wire == <<inbox, outbox>>

\* call_tool, for a tool that has a route; list_resources, of every server;
\* read_resource.
Begin(kind, todo) ==
  /\ operation.pc = "idle"
  /\ kind = "call" => todo \subseteq routes
  /\ operation' = Begun(kind, todo)
  /\ UNCHANGED <<servers, alive, Wire, ids, routes, Heard, Record>>

\* Faulty variant: the process is let go of, not killed.
Forgotten(s) ==
  /\ servers' = [servers EXCEPT ![s] = Gone]
  /\ UNCHANGED <<alive, Wire, Heard>>
\* reset_server: the process is killed, and what it had written is lost.
Reset(s) ==
  /\ servers' = [servers EXCEPT ![s] = Gone]
  /\ alive' = alive \ {servers[s].pid}
  /\ inbox' = [p \in Pids |-> IF p = servers[s].pid THEN 0 ELSE inbox[p]]
  /\ outbox' = [p \in Pids |-> IF p = servers[s].pid THEN <<>> ELSE outbox[p]]
  /\ greeted' = greeted \ {servers[s].pid} /\ sent' = sent \ {servers[s].pid}
Kept == UNCHANGED <<servers, alive, Wire, Heard>>

(***************************************************************************)
(* How an operation on a server ends.                                      *)
(***************************************************************************)
Onward(o) ==
  LET rest == o.todo \ {server}
  IN IF rest = {} THEN [o EXCEPT !.todo = {}, !.pc = "idle", !.req = 0]
     ELSE [Begun(o.kind, rest) EXCEPT !.said = o.said]
Succeeds(said) ==
  /\ operation' = Onward([operation EXCEPT !.said = said])
  /\ routes' = IF operation.kind = "discover" THEN routes \cup {server} ELSE routes
OperationFails ==
  /\ operation' = Onward([operation EXCEPT !.said = "error"])
  /\ routes' = IF operation.kind = "discover" THEN routes \ {server} ELSE routes

\* McpServerManagerError: "lost" stands for Transport and Timeout, "invalid" for
\* InvalidResponse, "rpc" for JsonRpc and "io" for Io.
Retryable(error) == error = "lost"
ShouldReset(error) == error \in {"lost", "invalid"}
Initializing == ~servers[server].initialized
RetriesInitialize(error) == Initializing /\ Retryable(error) /\ operation.inits = 0
\* Faulty variant: tool calls are retried too.
RetriesAny(error) == Retryable(error) /\ operation.tries = 0
RetriesOperation(error) ==
  operation.kind # "call" /\ Retryable(error) /\ operation.tries = 0
Meets(error) ==
  /\ IF ShouldReset(error) THEN Reset(server) ELSE Kept
  /\ CASE RetriesInitialize(error) ->
            operation' = [operation EXCEPT !.inits = 1, !.pc = "ready"] /\ UNCHANGED routes
       [] ~RetriesInitialize(error) /\ RetriesOperation(error) ->
            /\ operation' = [operation EXCEPT !.tries = 1, !.inits = 0, !.pc = "enter"]
            /\ UNCHANGED routes
       [] OTHER -> OperationFails

(***************************************************************************)
(* ensure_server_ready                                                     *)
(***************************************************************************)
\* A process that ended since is reset, once, on the way in.
Enter ==
  /\ operation.pc = "enter"
  /\ IF process # 0 /\ process \notin alive THEN Reset(server) ELSE Kept
  /\ operation' = [operation EXCEPT !.pc = "ready", !.inits = 0]
  /\ UNCHANGED <<ids, routes, Record>>

Free == Pids \ (alive \cup {servers[s].pid : s \in Servers})
Spawn ==
  /\ operation.pc = "ready" /\ process = 0 /\ Free # {}
  /\ servers' = [servers EXCEPT ![server] = Spawned(Lowest(Free))]
  /\ alive' = alive \cup {Lowest(Free)}
  /\ UNCHANGED <<Wire, ids, routes, operation, Heard, Record>>
SpawnFails ==
  /\ operation.pc = "ready" /\ process = 0
  /\ Meets("io")
  /\ UNCHANGED <<ids, Record>>

\* McpStdioProcess::request: initialize, or what the operation asks.  A pipe
\* nobody reads takes the request; the answer is what is missed then.
Ask ==
  /\ operation.pc = "ready" /\ process # 0 /\ ids < MaxRequests
  /\ ids' = ids + 1
  /\ operation' = [operation EXCEPT !.pc = "wait", !.req = ids']
  /\ inbox' = [inbox EXCEPT ![process] = IF process \in alive THEN ids' ELSE 0]
  /\ sent' = IF Initializing THEN sent ELSE sent \cup {process}
  /\ UNCHANGED <<servers, alive, outbox, routes, greeted, Record>>

\* The answer is read.  Only a response with the id of the request will do.
\* The next page is asked for without looking at the process again.
Listing == operation.kind \in {"discover", "resources"} /\ ~Initializing
IsAnswer(m) == m.id = operation.req /\ m.body # "invalid"
Read ==
  /\ operation.pc = "wait" /\ outbox[process] # <<>>
  /\ LET m == Head(outbox[process])
         took == outbox' = [outbox EXCEPT ![process] = Tail(@)]
     IN \/ /\ ~IsAnswer(m)
           /\ Meets("invalid")
        \/ /\ IsAnswer(m) /\ m.body = "error" /\ (Initializing \/ operation.kind # "call")
           /\ OperationFails /\ took /\ UNCHANGED <<servers, alive, inbox, Heard>>
        \/ /\ IsAnswer(m) /\ m.body = "result" /\ Initializing
           /\ servers' = [servers EXCEPT ![server].initialized = TRUE]
           /\ greeted' = greeted \cup {process}
           /\ operation' = [operation EXCEPT !.pc = "ready"]
           /\ took /\ UNCHANGED <<alive, inbox, routes, sent>>
        \/ /\ IsAnswer(m) /\ m.body = "more" /\ Listing
           /\ operation' = [operation EXCEPT !.pc = "ready"]
           /\ took /\ UNCHANGED <<servers, alive, inbox, routes, Heard>>
        \/ /\ IsAnswer(m) /\ ~Initializing
           /\ m.body = "result" \/ (m.body = "error" /\ operation.kind = "call")
           /\ Succeeds(IF m.body = "error" THEN "error" ELSE "ok")
           /\ took /\ UNCHANGED <<servers, alive, inbox, Heard>>
  /\ UNCHANGED <<ids, Record>>

\* The pipe ends, or the time is over.
Lost ==
  /\ operation.pc = "wait"
  /\ Meets("lost")
  /\ UNCHANGED <<ids, Record>>

\* RuntimeMcpState::shutdown, when the runtime is dropped; nothing follows.
Shutdown ==
  /\ operation.pc = "idle"
  /\ servers' = [s \in Servers |-> Gone]
  /\ alive' = alive \ {servers[s].pid : s \in Servers}
  /\ inbox' = [p \in Pids |-> 0] /\ outbox' = [p \in Pids |-> <<>>]
  /\ greeted' = {} /\ sent' = {}
  /\ operation' = [operation EXCEPT !.pc = "over"]
  /\ UNCHANGED <<ids, routes, Record>>

(***************************************************************************)
(* The servers (programs of the user's configuration): one takes a request *)
(* and answers, dies, or writes what nobody asked for, a notification or   *)
(* an answer it gave before.                                               *)
(***************************************************************************)
Runs(p) == operation.kind = "call" /\ p \in greeted
Answer(p, body) ==
  /\ p \in alive /\ inbox[p] # 0
  /\ body = "more" => Listing
  /\ outbox' = [outbox EXCEPT ![p] = Append(@, [id |-> inbox[p], body |-> body])]
  /\ inbox' = [inbox EXCEPT ![p] = 0]
  /\ operation' = IF Runs(p) THEN [operation EXCEPT !.runs = @ + 1] ELSE operation
  /\ UNCHANGED <<servers, alive, ids, routes, Heard, Record>>
Stray(p, id) ==
  /\ p \in alive /\ strays < MaxStrays
  /\ id = 0 \/ id < inbox[p] \/ inbox[p] = 0
  /\ strays' = strays + 1
  /\ outbox' = [outbox EXCEPT ![p] = Append(@, [id |-> id, body |-> "result"])]
  /\ UNCHANGED <<servers, alive, inbox, ids, routes, operation, Heard, deaths>>
Dies(p) ==
  /\ p \in alive /\ deaths < MaxDeaths
  /\ deaths' = deaths + 1
  /\ alive' = alive \ {p} /\ inbox' = [inbox EXCEPT ![p] = 0]
  /\ UNCHANGED <<servers, outbox, ids, routes, operation, Heard, strays>>

McpNext ==
  \/ Enter \/ Spawn \/ SpawnFails \/ Ask \/ Read \/ Lost \/ Shutdown
  \/ \E s \in Servers, kind \in {"call", "read"} : Begin(kind, {s})
  \/ Begin("resources", Servers)
  \/ \E p \in Pids :
       \/ \E body \in Bodies : Answer(p, body)
       \/ \E id \in {0} \cup 1..ids : Stray(p, id)
       \/ Dies(p)
McpSpec == McpInit /\ [][McpNext]_mcpVars

(***************************************************************************)
(* Properties                                                              *)
(***************************************************************************)
\* Every variable stays in its type.
McpTypeOK ==
  /\ alive \subseteq Pids /\ greeted \subseteq Pids /\ ids \in 0..MaxRequests
  /\ \A s \in Servers : servers[s].pid \in {0} \cup Pids /\ servers[s].initialized \in BOOLEAN
  /\ operation.pc \in {"idle", "enter", "ready", "wait", "over"}
  /\ operation.todo \subseteq Servers
  /\ (operation.todo = {}) <=> (operation.pc \in {"idle", "over"})
  /\ routes \subseteq Servers

\* No process is forgotten: one that runs is the process the manager holds for
\* a server, through every retry and reset, so that none is left behind when
\* the manager shuts down.
NoOrphanServer == alive \subseteq {servers[s].pid : s \in Servers}

\* A process is asked for something only after it answered initialize, also
\* the process that took the place of another in the middle of an operation.
AskedAfterInitialize == sent \subseteq greeted

\* A tool runs at most once for a call, whatever was retried on the way to it,
\* and a call that is said to have succeeded did run: an answer left from an
\* earlier request, or a message nobody asked for, is not taken for its result.
CallRunsOnce ==
  /\ operation.runs <= 1
  /\ operation.kind = "call" /\ operation.pc = "idle" /\ operation.said = "ok"
       => operation.runs = 1
=============================================================================
