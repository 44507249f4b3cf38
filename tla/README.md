# A TLA+ model of amis-ai

amis-ai turns a description of a page into an amis JSON document.  A browser
frontend (React) talks to a Python agent (FastAPI), which calls a language
model, and to a Rust backend (axum, sea-orm, PostgreSQL), which keeps users,
LLM providers and model configurations, the history of generations and the
library of templates.  The agent gets its LLM configuration from the backend
and shares the database with it for the vector index of the templates.

This directory holds TLA+ modules that model the parts of this system whose
correctness depends on the order of things, the TLC configurations that check
them on small instances, and TLAPS proofs for every size of instance.

## Inventory

| component | state | operations | hard because |
|---|---|---|---|
| LLM administration (`backend/src/handlers/llm_admin.rs`) | tables `llm_providers`, `model_configs` | create / update / delete of either; activation deactivates the others of the type; `resolve_llm_config` | several SQL statements per request, no transaction; requests interleave; a request is dropped when its client leaves; statement errors ignored |
| LLM configuration cache (`agent/src/services/llm_client.py`) | `_config_cache`, one entry per task type | `get_llm_config`, `clear_config_cache` | state read before an `await` is used after it; clears are sent once and may be lost; expiry |
| History and adoption (`backend/src/handlers/history.rs`, `agent/src/services/rag.py`) | tables `generation_history`, `amis_templates` and its `embedding` column | create, adopt, delete; spawned index request | two statements and a spawned task; panics, crashes and lost requests in between; delete races adopt |
| Generation (`agent/src/routers/generate.py`, `frontend/src/views/Chat/index.tsx`) | the content accumulated so far; what the browser has parsed | streaming of chunks, extraction of the JSON, parsing of the event stream | errors in mid-stream, chunk boundaries, events out of step with the state they update |
| Chat page (`frontend/src/views/Chat/index.tsx`) | `currentJson`, `pendingResultRef`, `lastPromptRef`, `extraDataRef` | ask, end of a chat, save, adopt | callbacks share mutable refs across awaits |
| Startup (`backend/src/main.rs`, `agent/src/knowledge/loader.py`) | tables, seed rows, official templates | create tables, seed users, seed configurations, initialise the knowledge base | count-then-insert without a transaction; crash in the middle; two processes start in any order |
| Accounts (`backend/src/handlers/auth.rs`, `frontend/src/stores`, `frontend/src/services/api.ts`) | table `users`; the token in `localStorage` and in the store | register, login, logout, 401 handling | check-then-insert; a late 401 of an earlier session |
| Listing pages (`frontend/src/views/History`, `Templates`, `Settings`) | page, filters, items | fetch on change | answers applied out of order |
| Agent database pool (`agent/src/services/db.py`) | `_pool` | `get_pool`, `close_pool` | check, `await`, assign |

`claw-code/` is a separate program, a coding agent for the command line ten
times the size of the rest, checked out beside amis-ai; nothing in amis-ai
builds, imports or runs it.  Its parts (paths below `claw-code/rust/crates`):

| component | state | operations | hard because |
|---|---|---|---|
| Worker registry (`runtime/src/worker_boot.rs`) | `workers`; one `worker-state.json` per directory | create, observe a screen, resolve trust, send a prompt, restart, terminate, observe a completion | screens seen late or in any order take a worker from any state to another; some changes are not written to the file |
| Sessions (`runtime/src/session.rs`, `session_control.rs`, `compact.rs`, `conversation.rs`, `rusty-claude-cli/src/main.rs`) | the conversation in memory, its file, rotated logs | turn, save, compact, clear, fork, resume, switch, delete | a message is appended as it comes and the file rewritten afterwards; kills between rename, write and clean-up; two processes, no lock |
| Tool calls (`conversation.rs`, `hooks.rs`, `permissions.rs`) | the answers of the hooks so far, the policy | pre hooks, decision, prompt, run, post hooks | later hooks override parts of what earlier ones said; Ctrl-C at any moment |
| MCP servers (`runtime/src/mcp_stdio.rs`) | one process per server, whether it is initialised, routes of tools, request numbers | discover, call, list and read resources, shut down | late and stray answers, processes that die, retries inside retries |
| API clients (`api/src/providers`, readers in `main.rs` and `tools/src/lib.rs`) | attempts, `StreamState`, pending tool calls | send with retries, fallbacks, stream, ask again as one answer | pieces of several calls in any order, streams that break or end early |
| Plan mode (`tools/src/lib.rs`) | `.claw/settings.local.json`, `plan-mode.json` | enter, exit, Config | two files, no lock, written in place |
| Runtimes and plugins (`main.rs`, `plugins/src/lib.rs`) | the current runtime and the next, plugins started, servers | build, turn, replace, drop | the new runtime starts what the old one then stops |
| Plugin store (`plugins/src/lib.rs`) | a directory for each plugin, `installed.json`, what each claw has read of it | synchronise the bundled, discover, install, update, uninstall | every claw does it, without a lock and in place: kills and errors between files, stale registries written back |
| Sub-agents and registries, policies, configuration, terminal | | | not modelled, see below |

How they interact: the frontend calls the backend under `/api` and the agent
under `/agent`; the agent calls `GET /api/internal/llm/resolve/:task_type`; the
backend calls `POST /internal/cache/clear` after a change of configuration and
`POST /internal/index` after an adoption, both once and without looking at the
result; both processes write `amis_templates`.

What makes each part correct is stated as the properties below; PROJECT.json
lists, line by line, the hazards they are aimed at.

## Modules

Each component has a module of its own, an `MC` module that instantiates it for
TLC, and, where something is proved, a `...Proofs` module that extends it.

### LlmConfigCache

`config_cache` is `_config_cache`: a set of entries (task type, configuration,
stamp).  A configuration is not a record of URLs and keys but the pair of row
versions it was made from: `log[r]` is the sequence of times at which row `r`
was committed again, so that version `v` of `r` stopped being current at
`log[r][v + 1]`.  This is all that staleness needs.  A caller goes through
`GetHit`, or `GetMiss` (which takes `now` before the request is sent),
`ResolveConfigRow` and `ResolveProviderRow` (the two reads of the backend) and
`FetchDone` (store with the early stamp, return) or `FetchFail`.  `Commit` is
any handler of the backend that writes a row and then notifies; what a row's
new contents are does not matter.  No active row and a provider that is
switched off are contents of a row like others, and the backend answers them
with the configuration of its environment.  It does the same, with the same
status, when the statement that reads the provider fails, and the agent caches
that answer too: what was read of the provider is a version of its row or a
failure (`Reads`), and a failure carries its time.  `CommitSilently` is a committed change nobody is told of; `LoseClear` loses a notification;
`AgentRestart` empties the agent.  A request may call `get_llm_config` several
times (`GetsPerTask`): `stream_generate` does so twice.

* `BoundedStaleness` (proved): whatever is lost or in flight, what comes from
  the cache was current, row by row, less than `CACHE_TTL` before it was served,
  and where the environment stands in for a provider that could not be read, the
  read failed within the same time: one failed statement is served for
  `CACHE_TTL` at most, however soon the database recovers.
  This depends on the stamp being taken before the request is sent; a stamp
  taken when the answer arrives breaks it.  The configuration and the provider
  row are each fresh, but need not have been current together: the two reads are
  separate statements.

The two calls of one request may return different configurations, so the model
a generation reports is not always the one it used; no property is stated of it.

That a clear is effective, in other words that the cache holds nothing older
than the last clear, is not true and not stated: a fill in flight during the
clear stores the old configuration after it.  The bound of `CACHE_TTL` is what
remains of that promise.

### LlmConfigAdmin

The two tables as sets of rows with `id`, `task_type`, `provider_id` and
`is_active`; names, URLs, keys and sampling parameters decide nothing and are
left out.  One action per SQL statement of a handler, since no transaction
spans them; `pc` and `req` are the handler's position and locals, `todo` the
rows that `deactivate_configs_for_task` has selected and not yet visited.
UPDATE writes only the columns that were sent (sea-orm writes the columns that
are `Set`), fails when the row is gone, and the foreign key of `model_configs`
refuses a configuration without a provider and the deletion of a provider that
is referred to.  `Disconnect` drops a handler between two statements, which is
what axum does when the client goes away; a statement already sent is completed
by the database, which is the statement's action followed by `Disconnect`.

A failed count of `delete_provider` counts as none, a failed select or update of
the deactivation is ignored (`Faults`).  `disturbed` is a history variable:
whether another handler has written to `model_configs` since this one began, or
a statement of its own deactivation failed.

* `ReferentialIntegrity`, `DeletedStaysDeleted`, `ActivatedOnlyOnRequest` (all
  proved): hold for concurrent administrators and failing statements.
* `AtMostOneActive` (violated): what the form promises.  Two requests that
  activate at once both select before either writes.  A request that gives an
  active configuration another task type deactivates nothing, which breaks it with
  one administrator too (TLC shows this in `LlmConfigAdmin_race.cfg` with `Admins`
  of one member and `TaskTypes` of two).
* `ActivationIsExclusive` (proved): what is left of the promise, with any number of
  administrators, retyping, faults and disconnections, and however many
  configurations are active before.  A request that activates a configuration
  and was not disturbed ends with that configuration the only active one of its
  (new) type: the deactivation reaches every row in question before the write.

### AdoptionPipeline

The tables `generation_history` and `amis_templates`, the handlers of
`history.rs`, the index request that `adopt_history` spawns (`posts`), and the
agent's `index_template` (`indexing`, `embedded`).  `adopt_history` is
`AdoptFind`, `AdoptUpdate`, then `AdoptPanic` or `AdoptInsert`; either statement
may fail, for its own reasons or because the record is gone (`AdoptUpdateFails`,
`AdoptInsertFails`).  Of a prompt only what `&prompt[..50]` does with it is kept.

* `TemplateHasAdoptedSource` (proved): with deletions, disconnects, losses and
  restarts anywhere, every template comes from an existing, adopted record.
* `AdoptedIsInLibrary` (proved): what is adopted is in the library, or its
  handler is about to put it there.  Excepted are prompts that make the title
  panic, and the pairs of record and page in `lost`, a history variable: an
  adoption of that page ended between its two statements, by a failed INSERT, a
  disconnection or a restart, and the page was not inserted since.  Nothing in the
  code repairs such a record; adopting the page again does.  The property says
  that nothing else does this to a record, two adoptions at once, of one page or
  of two, and deletions included.
* `AdoptingAddsToLibrary` (violated): the same without the exception for
  prompts.
* `EveryTemplateIndexed` (liveness): every template gets its embedding or has
  lost its one index request (`unindexed`, a history variable).

### GenerationStream and Reply

`stream_generate` and `transformSSEStream` with the bytes between them.  The
agent moves from `config` to `stream` to one of its ends: `done`, `error` (an
error event was sent), `cut` (done, but the connection broke before all was
sent on) and `dead`.  An event is a frame of up to six symbols (lines, newlines,
and two halves of the data line); a symbol is the event and its place in the
frame.  `wire` is what was sent and not yet read, and `Read` takes any number of
symbols from it, so that a piece may end inside a line.  The browser's loop goes
through the piece symbol by symbol: a newline ends the line (`Process`),
anything else makes it longer, and the last, unfinished line stays in `sseBuffer`
until the stream ends.  Of the content only its number in the sequence is kept,
of `full_content` its length in pieces.

* `ShownIsPrefix` (proved): however the bytes are cut and wherever the stream breaks, the
  reply is a prefix of what the model said.  (That a document is offered only
  when it is made of all of it is what the refinement adds.)
* `ImplementsReply` (proved): the stream refines `Reply`, which has no bytes, buffers or
  processes: the user sees more and more, and is offered a document only whole.
  The mapping gives `said` the length of `full_content`, `over` the agent's state
  and `offered` the stored result.
* `DoneGivesResult` (liveness): unless the connection breaks, a finished
  generation is shown and offered.

The end of the module says why: `StreamInv` (see Proofs).

### ChatPage

The callbacks of the chat page up to and after each `await`, the refs they
share, and what the history API does for them.  The `i`-th message has prompt,
id and document `i`, so that mixing two up is visible.  A call is a record in
`saving` or `adopting` that the backend handles (`SaveStored`, `AdoptStored`)
before it is answered, and that may be lost before or after.  ProChat is a
library: it is taken to run one generation at a time, to stop reading a stream
that the user stopped, and not to wait for `onChatEnd`.

* `RowIsOneGeneration`, `ExtraIsOwnRow` (proved, as is `AdoptedIsRecorded`): records,
  messages and refs are never mixed up, although later generations overwrite
  the refs while calls are under way.
* `AdoptsItsOwnResult` (violated): `handleAdopt` sends the document in the
  preview, which is that of the latest generation.

### Startup, AgentPool, Accounts, ListPage

`Startup`: every statement of `main` that writes, one action each, for backends
that are started and stopped at any point, and the agent's lifespan with the
knowledge base.  A table that is missing makes the statement that needs it
panic; the port, which only one backend gets, is taken last, as in the code.

* `SeedsAreBounded` (proved): however often backends are started and stopped,
  there are no more seeded providers than backends that can run at once.
* `IncompleteIsCutShort` (proved): a provider that lacks configurations is being
  seeded, or a stop cut its seeding short.
* `KnowledgeBaseIsLoaded` (violated): the loader's INSERT leaves out a column
  the backend's table requires.

`AgentPool`: `get_pool` and `close_pool` of `db.py` under callers that overlap.
`WarmAgentHasOnePool` (proved): an agent whose start found the database has one
pool, whoever calls, and closes it; two pools need a start that got none.

`Accounts`: `register` and `login` as concurrent handlers, and the tabs of a
browser, each with its own copy of a token that is stored once for all.
`DuplicatesAreConcurrent` (proved): a name has no more rows than requests that
can run at once.  `SignedOutByAnother` (proved): where a tab shows the
application while no token is stored, another tab shows the login page.

`ListPage`: the fetches, answers and refreshes of a listing page, and deletions
whose answer comes, or does not: the page then says that the deletion failed and
fetches nothing, whether or not the row is deleted, before or later
(`DeleteFails`, `DeleteLate`; `givenUp` holds these rows).
`QuietListIsTrue` (proved): when nothing is under way and the list shown came in
order, it is what the database holds, of the page shown, or of the page on which
the button of the last deletion was pressed, together with rows in `givenUp`: a
row that is gone is shown for no other reason.

### WorkerBoot

`WorkerRegistry` of claw-code.  Every operation holds one mutex and is one
action, except `observe`, whose three ways to return are three.  A screen is four booleans,
one for each detector of the code, in any combination.  `Push` is `push_event`:
it stores the worker and rewrites its directory's state file.  `ObserveProgress` follows
the code in writing the file with the worker as it was at the last event, which
need not be the worker it leaves.  `delivery` and `approved` are history
variables: what the registry was told of the last prompt (taken, astray, or that
the supervisor ended the work), and which workers somebody approved since they
were last started.

* `PromptIsSettled` (proved): a worker takes another prompt only after the registry
  was told something of the last one, and `prompt_in_flight` says exactly whether
  it was, although trust prompts take a worker at work back to earlier states.  It
  is not so that the fate of the last prompt is always known: `terminate`, and a
  completion that is reported before the prompt was seen to be taken, clear the
  flag, and a later screen makes the worker ready.
* `ReplayIsOfLostPrompt` (proved): a prompt that was taken is never armed for replay.
* `TrustIsGranted` (proved): a restart forgets earlier trust.  (That a blocked
  worker carries its reason, `BlockedIsExplained`, is a part of the proved
  `WorkerInv`.)
* `ReadyFileIsTrue` (proved): a poller that reads `is_ready` is right.  This
  needs `InFlightIsExclusive`, a part of `WorkerInv`: the one change that writes no file, the running
  cue, needs a prompt under way, and such a worker is not ready.  The file's
  `status` is not always current: a worker whose trust prompt appears after a
  prompt was sent, and which then shows that it works, is `running` while the
  file says `trust_required`.

### ClawSession

A process (`cli[p]`) holds a session: its messages, identifier and file.  A
message is a role, the turns it stands for (a summary stands for many) and the
tool uses in it.  A file is its path, the identifier it names and its messages;
a path is a pair of a name and a rotation number, so that rotated logs are files
like any other, as `list_sessions` and `resolve_reference` treat them.
`Turn` pushes the prompt; `AsksForTools`, `ToolResult` and `Answers` are the
iterations of `run_turn`, and each appends to the file.  `Answers` compacts when
`maybe_auto_compact` would.  What follows a turn, and every command that changes
the session, is `Rotate`, `WriteSnapshot` and `CleanUp`, with a kill possible
between any two.  `Kill` stands for a kill and for a failed write, whose error
ends the program; `AppendTorn` leaves the file with a line that no one can read,
which `Loaded` refuses.  History variables say in which session a turn ran
(`ranIn`), which turns ended (`done`), what forks inherited (`inherits`), which
sessions two processes had open (`shared`) and what the user deleted (`gone`).

* `RequestIsPaired`: what is sent to the provider has every tool result behind
  its call and every call of a turn that ended before its results, whatever was
  compacted, rotated, torn, forked and resumed before.
* `CompletedTurnsSurvive`: a turn that ended is in some file of the directory at
  every point at which the process may be killed.
* `FileIsOwn`: no file holds turns of another session than the one it names and
  the one that was forked from.
* `ActiveIsNotDeleted` (violated): `/session delete` compares the wrong names.

Two processes on one session break all of these, and nothing in the code tries
to prevent it; the properties say so (`shared`).

### ToolCall

One call: `PreHook` (one hook of the loop, with what `parse_hook_output` may make
of its output), `PreDone` (cancelled, failed or denied; else the policy's
decision on the input the hooks left), `Decide` (the user), `Execute`, `PostHook`
and `PostDone`.  The rules of the policy are sets of inputs, any sets.  `CtrlC`
raises the flag that only the hooks look at.

* `NoToolWithoutConsent` (proved): hooks narrow what may run and never widen it.
* `SuccessIsWitnessed` (proved): no tool runs after a pre hook objected (by the way it
  ended, or by its last word on the permission); a result that is not an error has
  a tool that ran well and no hook that objected before or after; and a result
  that is an error has a tool that did not run, failed, or was objected to.

### Mcp

`servers` is the manager's table, `alive`, `greeted` and `sent` are about the
operating system's processes: running, answered `initialize`, were asked for
something else.  An operation goes `enter`, `ready` (what `ensure_server_ready`
and the request's caller do next depends on the process), `wait` and on to the
next server of a discovery.  `Meets` is what happens on an error: reset, retry
inside, retry outside, or fail.  The servers answer when and what they like.

* `NoOrphanServer`, `AskedAfterInitialize` (proved).
* `CallRunsOnce` (proved): a call's tool runs at most once, and a call that is reported
  successful did run.

### ApiStream

A request by the command line or a sub-agent, over either protocol: attempts,
the provider chain, `StreamState` (`CallBlocks`, `CallEvents`, `StopEvents`,
`Finish`), the reader (`Hear`), and the second request that is made when a
stream had nothing in it.  `wire` is what the provider means to say and has said
so far; the input of a call is its pieces.  The last piece of a call may come in
the chunk that carries the finish (`SaysLast`): that call is stopped at once,
before the calls that came earlier and are still open.  `HearAll` is the reader's loop over the
events of a stream, a function on their number.

* `EveryCallIsHeard` (proved): of a stream the provider finished, a sub-agent hears every
  call, once and whole, whatever order their pieces come in; from Anthropic the
  command line does too, and both hear them in order.  A provider of the OpenAI
  kind may have the sub-agent hear them in another order (`SaysLast`).
* `CliHearsEveryCall` (violated): the command line hears every call from any provider.

A stream that ends without an error before its finish is taken for a whole
answer if it had anything in it, by both readers (`cut`); the properties are
about the others.

### PlanMode

The two files (`settings`, `saved`), and for every claw the operation it is in
and what it has read.  A kill leaves the files as they are between the writes, or
cut short (`TearsSettings`, `TearsState`).  `chosen` is a history variable: the
mode the user last chose.

* `PlanModeIsUndone` (proved): that mode is in force, or plan mode is and exiting
  it restores that mode.  Two operations that overlap, and settings cut short,
  break it (`overlapped`, `torn`).

### PluginRuntime

The runtimes of a process: `Build`, the Init commands in the order of the ids,
the turn, the Shutdown commands of the old runtime in reverse, the drop of what
is left at the end.  `up` is what was last started, `serving` the MCP states that
were not shut down.  A build may be refused before it started anything
(`BuildRefused`: the settings, the plugins), or fail after the MCP servers of the
new runtime run and some or all of its plugins are up (`BuildFails`: tools that
clash, an Init command, or, the ordinary case, no credentials for the client): no
runtime exists then that would stop them.  `lost` is a history variable: what was
started by such a build, or was still to be stopped when a command failed in the
last drop.

* `PluginsAreUpInTurn` (proved): because every runtime starts its plugins again,
  and they are stopped only after the turn, by the replaced runtime.  Between the
  replacement and the next turn the plugins of the current runtime are stopped.
* `LeftByFailureOnly` (proved): what still runs when the program has ended is in
  `lost`.  In particular nothing is left by replacements, failed turns, or a
  shutdown that failed once and that the drop tries again.

### PluginStore

The plugins on disk: `copy` (for each plugin whether its directory is there, the
version and which of its files), the `registry` file, which may be empty or
`unreadable`, and for every claw its operation (`manager`) with the registry it
read (`memory`) and the files it has still to remove or copy (`left`).  A
directory is removed and copied file by file, the registry file is emptied and
then written; between any two of these steps another claw may move, and each may
be killed or refused (`Interrupted`, `Refusal`).  What the program ships changes
only while no operation runs.  (Bound: versions rise, and a new one is installed
while no claw is at work on the store.)  A discovery (`Scans`) leaves a `report`: the plugins that
load, and the directories that have a manifest but do not load.  `into_registry`
makes an error of any such directory (`NoRegistry`), so that no runtime is built
and nothing can be enabled; the listing shows the report.  A bundled plugin whose
record was lost is taken for an external one, and hides an external plugin of its
name (`Hidden`).  History variables: `installed`, the external
plugins copied to the end undisturbed, `halved`, the plugins left half removed or
half copied, and `cut`, those of them whose record says otherwise or at which
another claw was at work too.

* `KeptIsShipped` (proved): a bundled plugin that the synchronisation leaves alone is
  complete and of the version shipped, although the code decides from the record
  and the manifest.  The exception is real: a second copy of the same version
  (`plugins update` of a bundled plugin, or two claws that start together) that
  ends early leaves a copy that loads, is recorded, and is never repaired.
* `InstalledIsFound` (proved): no registry written back from an old reading and no
  empty registry file takes a plugin whose files were copied out of the report,
  since the discovery goes by the directories; only a bundled plugin of its name
  that has no record hides it.  And what refuses a runtime its plugins is a
  directory that a claw is at work on, or that a kill or a failure left half done:
  one such directory does refuse them all.  Updating and uninstalling go by the
  record and fail without it.

### MCAmisRest and MCClaw

The parts of one program that share no state are checked in one run.  The
variable `part`, chosen at the start, says which part moves; the others stand
still in one initial state.  The states are the sum of those of the parts, not
their product, and each part is explored as in a run of its own.

### Faulty variants

An operator commented `Faulty variant` is not part of a model.  It is the
operator that follows it with a plausible mistake in it (a dropped check, a
late time stamp, an upsert).  PROJECT.json names, for every property of a
passing run, a variant that makes TLC find the property violated: the property
does say something about the code.


## Runs

Every run finishes within three minutes.  `V` marks a run in which TLC must find
the property violated.

| run | question | bounds, and why they are enough |
|---|---|---|
| `cache_safety` | how old is what `get_llm_config` returns? | 2 callers, 1 task type (entries of different types share nothing but the clear), both rows change once, 4 instants with `CACHE_TTL = 2`: a hit, an expiry and an overtaking fill all fit |
| `admin_concurrent` | what holds for two administrators, failing statements and changed task types? | 2 administrators, 2 task types, 1 provider, 2 configurations: one that is activated or retyped, one to deactivate; more rows are deactivated by the same loop. That an update moves a configuration to a provider that is deleted meanwhile needs a second provider, which makes the run forty times as long; the theorems hold for any number |
| `admin_race` V | at most one active with two administrators? | 2 administrators, 1 task type, 2 configurations |
| `adoption` | sources, library and index of adopted records | 2 handlers, 2 documents, prompts that can and cannot be cut, 2 templates, 1 record: records share nothing but the id counter, and the theorems hold for any number |
| `adoption_panic` V | does adopting add to the library? | 1 record, 1 template |
| `stream` | what does the user see of a stream? | 3 chunks, and reads of at most 6 symbols, which is longer than one event: a read may end in, at the end of, or beyond an event |
| `amis_rest` | the chat page, startup, the pool, accounts, lists | 3 generations: two whose calls overlap and one that overwrites the refs; 2 backends with 2 stops; 2 callers and 3 pools; 2 tabs, 2 requests, 2 names; 2 pages of 1 row, 2 fetches under way |
| `startup_knowledge` V | does the knowledge base get its templates? | 1 backend |
| `chat_adopt` V | which document is adopted? | 2 generations |
| `claw` | the parts of claw-code | workers: 2 in one directory (directories share nothing), 2 prompts, no other bound; sessions: 2 turns, 2 tool uses, 2 commands, 1 fault and rotated logs of which 1 is kept for one process, less of each for two; 2 pre hooks (one to override the other) and 1 post hook, 2 inputs, every mode and rule; 2 servers, 3 processes, 5 requests (two tries with a retried initialize each), one stray message, one death; 2 calls in 2 pieces, 2 providers, 1 retry; 2 claws with 4 operations on plan mode and 1 cut; 2 plugins and 4 runtimes, so that a runtime replaces one that replaced another; 2 claws on a store of one bundled and one external plugin, with 3 operations (one that is overlapped and one that looks at the result), 1 fault and 2 versions |
| `session_delete` V | is the active session safe from `/session delete`? | 1 process, the commands and turns that rotate a file |
| `parallel_calls` V | does the command line hear two interleaved calls? | 2 calls |

Deadlock is not checked where the bounds, or the end of a stream or a program,
stop the model.

What the violated runs show, each with the text it contradicts, is in
PROJECT.json under `findings`.

## Fairness

Safety runs assume none.  `AdoptionPipeline!FairSpec` is weakly fair to each
handler (tokio runs every ready task), to each spawned index request being
received or lost (it has a time limit of 30 s) and to each index call ending
(the embedding request has a time limit).  It is not fair to users, faults or
restarts.  `GenerationStream!FairSpec` is weakly fair to the agent (the model's
stream ends, by its time limit if not otherwise) and to the browser reading
what there is.  Nothing makes the connection break or hold.

## Proofs

TLAPS checks the `...Proofs` modules, for all values of the constants that
satisfy the named assumptions (`CACHE_TTL` positive, the null values distinct
from data, bounds natural numbers); the bounds that keep TLC finite are
arbitrary in them.  Every safety invariant and every action property of the
passing runs is proved.

The functions that walk through a sequence (the browser's loop, the reader's
loop, compaction, the clean-up of rotated logs) are recursive functions on the
numbers.  What they yield is shown with a least counterexample: a number for
which the claim fails and below which it holds, which exists because the order
of the naturals is well founded (`WFMin`, or `HasLeast`, which is made from it).

* `LlmConfigCacheProofs`: `IInv` adds to `BoundedStaleness` that whatever a
  caller holds, or the cache stores, was current no earlier than its stamp, and
  that stamps are not in the future.  Neither `BoundedStaleness` nor the cache's
  part alone is inductive: an old fill carries its stamp from `GetMiss` to
  `FetchDone`.
* `LlmConfigAdminProofs`: `TypeOK` (with the uniqueness of ids), then
  `ReferentialIntegrity` from it, and `AloneInv`, which `ActivationIsExclusive`
  needs: as long as a handler is not disturbed, the row its update found is still
  as it was found, and whatever is active of its type is still in its list.  The action
  properties `DeletedStaysDeleted` and `ActivatedOnlyOnRequest` rest on one
  lemma, `RowsComeFromRows`: every row after a step has the id of a row before
  it, active only if that one was or was about to be activated by a request, or
  an id that was never handed out.
* `AdoptionPipelineProofs`: `SourceInv` adds that a handler past its update has
  a record that is marked or gone; `LibraryInv` adds that a handler between
  update and insert accounts for its record's document.
* `GenerationStreamProofs`: in `StreamInv` the symbols on the wire follow one
  another as they were sent (`InOrder`), and the one that was read last tells what
  the browser has: the line begun, how much is shown, and whether there is a
  result (`HasRead`).  A read is an induction over its symbols.  The refinement
  `ImplementsReply` is proved step by step from it, and `OfferedWhole` is the
  abstract reply's promise, carried over by the refinement.
* `AmisRestProofs`: `PageInv` adds that the refs are those of the latest
  generation and that a call carries what was true when it was made.  `PoolInv`
  adds what is so before and after the lifespan's own call: nobody else calls
  before it, and nobody is creating a pool after it succeeded.
  `SignedOutByAnother` is inductive with the types; so are
  `DuplicatesAreConcurrent`, `SeedsAreBounded` and `IncompleteIsCutShort`, each
  of which counts what may still be inserted together with what was, so that an
  insert moves one from one side to the other (lemmas on cardinalities carry
  this).  `ListInv` says of the fetch that none was sent after, under way
  (`LastIsLatest`) or shown (`ShownIsLatest`), that it is of the page the
  component is on or of a deletion, and true but for rows that nothing was fetched
  for (`Unrefreshed`: their deletion is still to be answered, or was given up);
  an answer that overtakes marks those before it, so that the last one
  is never taken for the latest by mistake.  `AmisTypes` is the type correctness
  of all parts: for the startup it needs that the users who may still be seeded
  are counted with those that were, and that no two backends configure one
  provider (`StartupFits`).
* `WorkerBootProofs`: `WorkerInv` is the conjunction of the type invariant, the
  run's four properties of workers, `InFlightIsExclusive` (a prompt under way keeps
  a worker from the states in which it could take another) and
  `BlockedIsExplained`, and is inductive.
  All but the files' part speaks of one worker (`Fits`), so each action needs
  only that the worker it leaves fits, and two lemmas (`WriteStep`, `QuietStep`)
  carry this to the registry and the files.
* `ClawProofs`: `ToolInv` says what each step of a call may take as decided by
  the steps before it.  `PlanInv` says of each claw between its two writes that
  what it read is what the files still hold, as long as nothing overlapped.
  `McpInv` ties the manager's table to the processes (one process, one server,
  initialised only if it answered).  `CallsInv` adds the messages: who answered
  `initialize` is held as initialised, so a process that is asked for
  something else is never initialised again, a process has at most the request
  that is waited for, no earlier or stray message answers it, and the tool has
  run exactly when that request was taken (`CallRunsOnce` alone does not see
  the second of two requests coming).  `PluginInv` says who still has to stop
  what is up and not lost (`StopsFit`), for each point between a build and the drop
  of the last runtime, and what a starting runtime has started (`StartsFit`).  `ApiInv`
  says that what has been said of each call decides what the reader holds of it:
  from Anthropic the calls before the one under way are complete (`InTurn`), from
  OpenAI each call that is not stopped has the slot of its own, and those that are
  were heard once each (`InSlots`).  The lemmas are about the
  reader's loop: what one event does (`HearAllIs`), that a list of events is
  heard piece by piece (`HearConcat`), and that the stops of the calls that are
  still open are each heard once (`StopsHeard`).
* `ClawDiskProofs`: `StoreInv` says that two claws at work on one directory both
  know it (`SharersKnow`), that what a claw alone has copied stays
  (`CopyGrows`), and that nobody is at work on what counts as installed; the
  lemma `OffTheDirectories` does the steps that touch no directory.  `HalvesFit` says
  that a directory nobody is at work on and that was not left half done is whole or
  absent.  `KeptInv`
  follows every reading of the registry that may still be written back: when the
  registry, or the memory of a claw that may yet write it, records the shipped
  version of a bundled plugin, that version is in its directory
  (`KnownIsShipped`), and whole unless it was cut short or somebody is at it
  (`KnownIsWhole`).
* `ClawDiskProofs`, the sessions: `SessionInv` has three parts, each needed by the
  next.  `SessionFits`: names, numbers and turns were given out before they are
  met, the process whose turn runs knows where it took it, and two processes
  that run are `Apart` unless their session's name is shared.  `PairsFit`: a
  session's file and its process's memory hold the same messages but while it
  saves, the calls that a tool loop waits for are the last ones open, and a turn
  is closed before it is saved.  `TurnsStay`: a turn taken in the session's own
  file is in every file or process whose path that file was rotated from
  (`Below`), so that removing old logs, or a crash in the middle of a rotation,
  leaves it somewhere.  The actions are of ten shapes (`SessionStep`: a message
  is pushed, a process takes a session, changes it and saves, rotates, writes,
  leaves, tears a log, cleans up, forks, deletes); `StepIs` maps every action to its shape, and
  each part of the invariant is proved shape by shape.

* `ClawProofs`, the parts together: it extends the other two modules on
  claw-code, and `ClawTypesHold` is the type correctness of MCClaw's
  specification.  Each part has a lemma of the same form (`SessionTypesHold`,
  `StoreTypesHold`, `ToolTypesHold`, ...): its invariant above, with what the run's
  types ask for beyond it, holds at first and is kept by the part's steps, and a step
  of the composition is one of each part or leaves the part alone (`ClawStepIs`).
  What is asked for beyond: that no path has two files (`OneFileEach`, by what each
  operation on the directory keeps: a rotated log gets a number that no file
  had), that no version is met that was not shipped (`VersionsFit`), and that a
  reader holds calls that are, whatever comes (`HearAllKeepsCalls`).

Only model-checked: the liveness properties (temporal proofs under fairness are
out of the prover's reach).  The type invariants of LlmConfigCache and
AdoptionPipeline are proved and not checked by a run.

## Not modelled

The components with status `not_modelled` in PROJECT.json, each with its
reason: they keep no state that outlives a call, are guarded by one mutex with
operations of one assignment, or only present data.  Of the plugin store: the
flags `enabledPlugins` in the settings file (read and written whole, as PlanMode
models it for another setting), external directories that are only read, and the
clones of git sources that are thrown away.  claw-code is large because of
its reports, its argument parsing, its tests inside the source files and its
pure data types, so that the modelled share of its lines is small although the
parts whose correctness depends on order are here.  Within what is modelled: an
UPDATE or INSERT is atomic (PostgreSQL at its default isolation level, one
statement at a time); the page is not reloaded; deleting a record from the
history page while the chat page shows it is seen in AdoptionPipeline only; the
state file of a worker is written without error by one process; a rename and a
write to a temporary file survive a kill once done (a power failure is not
considered); matching of permission rules, framing of JSON-RPC and of server-sent
events of providers are reduced to their outcomes.

## Plan

In this order, each with its module, run and proof:

1. `LlmConfig`, composing LlmConfigAdmin with LlmConfigCache: from a click of an
   administrator to the model that answers, and an abstract specification of a
   cache with bounded staleness, which LlmConfigCache implements.
2. `ChatPage` composed with `AdoptionPipeline`, for the records both touch.
3. ToolCall composed with ClawSession (the results of a call that a kill cuts
   off) and with Mcp (a tool call through the manager's mutex).
4. WorkerBoot: a clock, for `seconds_since_update`, and two processes on one
   state file.
5. Proofs of the compositions of points 1 to 4.
