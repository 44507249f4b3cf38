--------------------------- MODULE LlmConfigAdmin ---------------------------
(***************************************************************************)
(* Administration of LLM providers and model configurations                *)
(* (backend/src/handlers/llm_admin.rs) over the tables llm_providers and   *)
(* model_configs (backend/src/entity).                                     *)
(*                                                                         *)
(* A handler is a sequence of SQL statements with no transaction around    *)
(* them: each statement is one atomic step here, and other handlers run    *)
(* between two statements of one handler.  The client may disconnect, which*)
(* drops the handler where it stands.  Names, URLs, keys and sampling      *)
(* parameters do not decide anything and are left out; an optional field   *)
(* of a payload that is absent is Keep.  A request refused before it       *)
(* writes anything (404, 400, 409) is no step.                             *)
(***************************************************************************)
EXTENDS Naturals

CONSTANTS
  Admins,       \* handlers that may be under way at the same time
  TaskTypes,    \* VALID_TASK_TYPES
  Keep,         \* an optional payload field that was not sent
  Faults,       \* may a statement fail whose failure the handler ignores?
  MaxProviders, \* bound on the provider ids handed out
  MaxConfigs    \* bound on the configuration ids handed out

ASSUME KeepAssumption == Keep \notin TaskTypes \cup Nat \cup BOOLEAN
ASSUME FaultsAssumption == Faults \in BOOLEAN
ASSUME BoundsAssumption == MaxProviders \in Nat /\ MaxConfigs \in Nat

VARIABLES
  providers,        \* rows of llm_providers
  configs,          \* rows of model_configs
  providersCreated, \* the serial behind llm_providers.id
  configsCreated,   \* the serial behind model_configs.id
  pc,               \* where each handler is
  req,              \* what each handler holds in its locals
  todo,             \* active_configs still to visit in deactivate_configs_for_task
  disturbed         \* for checking: has another handler written to model_configs
                    \* since this one began, or has a statement of its own failed?

vars == <<providers, configs, providersCreated, configsCreated, pc, req, todo, disturbed>>

-----------------------------------------------------------------------------
Ids == Nat \ {0}

ProviderRows == [id : Ids, is_active : BOOLEAN]

ConfigRows == [id : Ids, task_type : TaskTypes, provider_id : Ids, is_active : BOOLEAN]

\* The columns an UpdateModelConfigRequest sets.
Payloads == [task_type : TaskTypes \cup {Keep}, provider_id : Ids \cup {Keep},
             is_active : BOOLEAN \cup {Keep}]

\* The locals: of update_provider and delete_provider, the id and the new
\* is_active; of create_model_config, the row to insert; of
\* update_model_config, the row found and the columns to set.
Requests ==
  [op : {"provider"}, id : Ids, is_active : BOOLEAN \cup {Keep}]
  \cup [op : {"create"}, row : ConfigRows]
  \cup [op : {"update"}, row : ConfigRows, set : Payloads]

NoRequest == [op |-> "provider", id |-> 1, is_active |-> Keep]

ProviderExists(id) == \E p \in providers : p.id = id

Referenced(id) == \E c \in configs : c.provider_id = id

New(old, sent) == IF sent = Keep THEN old ELSE sent

Apply(row, set) ==
  [row EXCEPT !.task_type = New(@, set.task_type),
              !.provider_id = New(@, set.provider_id),
              !.is_active = New(@, set.is_active)]

\* The task type whose other configurations the request deactivates.
TargetOf(r) ==
  IF r.op = "create" THEN r.row.task_type ELSE New(r.row.task_type, r.set.task_type)

\* The active rows of a task type: the select of deactivate_configs_for_task.
ActiveOf(rows, tt) == {c \in rows : c.is_active /\ c.task_type = tt}

\* `if is_active` in create_model_config; `payload.is_active == Some(true) &&
\* !model.is_active` in update_model_config.
Activates(r) ==
  \/ r.op = "create" /\ r.row.is_active
  \/ r.op = "update" /\ r.set.is_active = TRUE /\ ~r.row.is_active

Init ==
  /\ providers = {}
  /\ configs = {}
  /\ providersCreated = 0
  /\ configsCreated = 0
  /\ pc = [a \in Admins |-> "idle"]
  /\ req = [a \in Admins |-> NoRequest]
  /\ todo = [a \in Admins |-> {}]
  /\ disturbed = [a \in Admins |-> FALSE]

\* The handler returns its response.
Finish(a) ==
  /\ pc' = [pc EXCEPT ![a] = "idle"]
  /\ req' = [req EXCEPT ![a] = NoRequest]

\* Handler a writes to model_configs under the eyes of the others.
Disturbs(a) == disturbed' = [b \in Admins |-> b # a \/ disturbed[b]]

-----------------------------------------------------------------------------
(* Providers.                                                              *)

CreateProvider(a, active) ==
  /\ pc[a] = "idle"
  /\ providersCreated < MaxProviders
  /\ providersCreated' = providersCreated + 1
  /\ providers' = providers \cup {[id |-> providersCreated + 1, is_active |-> active]}
  /\ UNCHANGED <<configs, configsCreated, pc, req, todo, disturbed>>

UpdateProviderFind(a, id, active) ==
  /\ pc[a] = "idle"
  /\ ProviderExists(id)
  /\ pc' = [pc EXCEPT ![a] = "update_provider"]
  /\ req' = [req EXCEPT ![a] = [op |-> "provider", id |-> id, is_active |-> active]]
  /\ UNCHANGED <<providers, configs, providersCreated, configsCreated, todo, disturbed>>

\* UPDATE ... WHERE id: sets the columns that were sent; an error when the row
\* is gone.
UpdateProviderRow(a) ==
  /\ pc[a] = "update_provider"
  /\ providers' =
       {IF p.id = req[a].id THEN [p EXCEPT !.is_active = New(@, req[a].is_active)] ELSE p
          : p \in providers}
  /\ Finish(a)
  /\ UNCHANGED <<configs, providersCreated, configsCreated, todo, disturbed>>

\* delete_provider counts the configurations of the provider and goes on if
\* there are none; a failed count counts as none (unwrap_or) ...
DeleteProviderCount(a, id) ==
  /\ pc[a] = "idle"
  /\ ~Referenced(id) \/ Faults
  /\ pc' = [pc EXCEPT ![a] = "delete_provider"]
  /\ req' = [req EXCEPT ![a] = [op |-> "provider", id |-> id, is_active |-> Keep]]
  /\ UNCHANGED <<providers, configs, providersCreated, configsCreated, todo, disturbed>>

\* Faulty variant: the count alone guards the delete.
DeleteProviderRowUnchecked(a) ==
  /\ pc[a] = "delete_provider"
  /\ providers' = {p \in providers : p.id # req[a].id}
  /\ Finish(a)
  /\ UNCHANGED <<configs, providersCreated, configsCreated, todo, disturbed>>

\* ... and then deletes; the foreign key of model_configs refuses the statement
\* when a configuration was added meanwhile.
DeleteProviderRow(a) ==
  /\ pc[a] = "delete_provider"
  /\ providers' = IF Referenced(req[a].id) THEN providers
                  ELSE {p \in providers : p.id # req[a].id}
  /\ Finish(a)
  /\ UNCHANGED <<configs, providersCreated, configsCreated, todo, disturbed>>

-----------------------------------------------------------------------------
(* Model configurations.                                                   *)

\* create_model_config finds the provider, and deactivates first if the new
\* configuration is to be active.
CreateConfigCheck(a, tt, pid, active) ==
  /\ pc[a] = "idle"
  /\ configsCreated < MaxConfigs
  /\ ProviderExists(pid)
  /\ LET r == [op |-> "create",
               row |-> [id |-> configsCreated + 1, task_type |-> tt,
                        provider_id |-> pid, is_active |-> active]]
     IN  /\ req' = [req EXCEPT ![a] = r]
         /\ pc' = [pc EXCEPT ![a] = IF Activates(r) THEN "deactivate" ELSE "write"]
  /\ disturbed' = [disturbed EXCEPT ![a] = FALSE]
  /\ UNCHANGED <<providers, configs, providersCreated, configsCreated, todo>>

\* update_model_config finds the row, and deactivates first only if the row it
\* found is inactive and is_active was sent as true.
UpdateConfigFind(a, row, set) ==
  /\ pc[a] = "idle"
  /\ row \in configs
  /\ LET r == [op |-> "update", row |-> row, set |-> set]
     IN  /\ req' = [req EXCEPT ![a] = r]
         /\ pc' = [pc EXCEPT ![a] = IF Activates(r) THEN "deactivate" ELSE "write"]
  /\ disturbed' = [disturbed EXCEPT ![a] = FALSE]
  /\ UNCHANGED <<providers, configs, providersCreated, configsCreated, todo>>

\* deactivate_configs_for_task selects the active rows of the task type; a
\* failed select counts as none (unwrap_or_default) ...
DeactivateFind(a) ==
  /\ pc[a] = "deactivate"
  /\ \/ /\ todo' = [todo EXCEPT ![a] =
                     {c.id : c \in ActiveOf(configs, TargetOf(req[a]))}]
        /\ UNCHANGED disturbed
     \/ /\ Faults
        /\ disturbed' = [disturbed EXCEPT ![a] = TRUE]
        /\ UNCHANGED todo
  /\ pc' = [pc EXCEPT ![a] = "write"]
  /\ UNCHANGED <<providers, configs, providersCreated, configsCreated, req>>

\* ... and updates them one by one, by id, ignoring errors.
DeactivateOne(a) ==
  /\ pc[a] = "write"
  /\ \E id \in todo[a] :
       /\ todo' = [todo EXCEPT ![a] = @ \ {id}]
       /\ \/ /\ configs' = {IF c.id = id THEN [c EXCEPT !.is_active = FALSE] ELSE c
                              : c \in configs}
             /\ Disturbs(a)
          \/ /\ Faults
             /\ disturbed' = [disturbed EXCEPT ![a] = TRUE]
             /\ UNCHANGED configs
  /\ UNCHANGED <<providers, providersCreated, configsCreated, pc, req>>

\* Faulty variant: the id is the one that was next when the request was checked.
InsertConfigCheckedId(a) ==
  /\ pc[a] = "write" /\ req[a].op = "create" /\ todo[a] = {}
  /\ configsCreated < MaxConfigs
  /\ configsCreated' = configsCreated + 1
  /\ configs' = IF ProviderExists(req[a].row.provider_id)
                THEN configs \cup {req[a].row}
                ELSE configs
  /\ Finish(a)
  /\ Disturbs(a)
  /\ UNCHANGED <<providers, providersCreated, todo>>

\* Faulty variant: the row is inserted while others are still to be deactivated.
InsertConfigAtOnce(a) ==
  /\ pc[a] = "write" /\ req[a].op = "create"
  /\ configsCreated < MaxConfigs
  /\ configsCreated' = configsCreated + 1
  /\ configs' = IF ProviderExists(req[a].row.provider_id)
                THEN configs \cup {[req[a].row EXCEPT !.id = configsCreated + 1]}
                ELSE configs
  /\ Finish(a)
  /\ Disturbs(a)
  /\ todo' = [todo EXCEPT ![a] = {}]
  /\ UNCHANGED <<providers, providersCreated>>

\* INSERT: the id is drawn even when the foreign key refuses the row.
InsertConfig(a) ==
  /\ pc[a] = "write" /\ req[a].op = "create" /\ todo[a] = {}
  /\ configsCreated < MaxConfigs
  /\ configsCreated' = configsCreated + 1
  /\ configs' = IF ProviderExists(req[a].row.provider_id)
                THEN configs \cup {[req[a].row EXCEPT !.id = configsCreated + 1]}
                ELSE configs
  /\ Finish(a)
  /\ Disturbs(a)
  /\ UNCHANGED <<providers, providersCreated, todo>>

\* Faulty variant: UPDATE writes every column of the model, as found and changed.
UpdatedAllColumns(set, row) ==
  IF \A pid \in {set.provider_id} \ {Keep} : ProviderExists(pid)
  THEN {IF c.id = row.id THEN Apply(row, set) ELSE c : c \in configs}
  ELSE configs

\* Faulty variant: the row is put back when it is gone (an upsert).
UpdatedOrInserted(set, row) ==
  IF \A pid \in {set.provider_id} \ {Keep} : ProviderExists(pid)
  THEN {c \in configs : c.id # row.id} \cup {Apply(row, set)}
  ELSE configs

\* What UPDATE makes of the table: an error leaves it as it is, when the row is
\* gone or the foreign key refuses its new provider.
Updated(set, row) ==
  IF \A pid \in {set.provider_id} \ {Keep} : ProviderExists(pid)
  THEN {IF c.id = row.id THEN Apply(c, set) ELSE c : c \in configs}
  ELSE configs

UpdateConfigRow(a) ==
  /\ pc[a] = "write" /\ req[a].op = "update" /\ todo[a] = {}
  /\ configs' = Updated(req[a].set, req[a].row)
  /\ Finish(a)
  /\ Disturbs(a)
  /\ UNCHANGED <<providers, providersCreated, configsCreated, todo>>

DeleteConfig(a, id) ==
  /\ pc[a] = "idle"
  /\ \E c \in configs : c.id = id
  /\ configs' = {c \in configs : c.id # id}
  /\ Disturbs(a)
  /\ UNCHANGED <<providers, providersCreated, configsCreated, pc, req, todo>>

\* The client disconnects: the handler is dropped before its next statement.
Disconnect(a) ==
  /\ pc[a] # "idle"
  /\ Finish(a)
  /\ todo' = [todo EXCEPT ![a] = {}]
  /\ UNCHANGED <<providers, configs, providersCreated, configsCreated, disturbed>>

-----------------------------------------------------------------------------
Next ==
  \E a \in Admins :
    \/ \E active \in BOOLEAN : CreateProvider(a, active)
    \/ \E p \in providers, active \in BOOLEAN \cup {Keep} : UpdateProviderFind(a, p.id, active)
    \/ UpdateProviderRow(a)
    \/ \E p \in providers : DeleteProviderCount(a, p.id)
    \/ DeleteProviderRow(a)
    \/ \E tt \in TaskTypes, p \in providers, active \in BOOLEAN :
         CreateConfigCheck(a, tt, p.id, active)
    \/ \E row \in configs, tt \in TaskTypes \cup {Keep},
          pid \in 1..MaxProviders \cup {Keep}, active \in BOOLEAN \cup {Keep} :
         UpdateConfigFind(a, row, [task_type |-> tt, provider_id |-> pid, is_active |-> active])
    \/ DeactivateFind(a)
    \/ DeactivateOne(a)
    \/ InsertConfig(a)
    \/ UpdateConfigRow(a)
    \/ \E c \in configs : DeleteConfig(a, c.id)
    \/ Disconnect(a)

Spec == Init /\ [][Next]_vars

-----------------------------------------------------------------------------
(* Properties.                                                             *)

ProvidersOK ==
  /\ providersCreated \in Nat
  /\ providers \subseteq ProviderRows
  /\ \A p, q \in providers : p.id = q.id => p = q
  /\ \A p \in providers : p.id <= providersCreated

ConfigsOK ==
  /\ configsCreated \in Nat
  /\ configs \subseteq ConfigRows
  /\ \A c, d \in configs : c.id = d.id => c = d
  /\ \A c \in configs : c.id <= configsCreated

HandlersOK ==
  /\ pc \in [Admins -> {"idle", "update_provider", "delete_provider", "deactivate", "write"}]
  /\ req \in [Admins -> Requests]
  /\ todo \in [Admins -> SUBSET Ids]
  /\ \A a \in Admins : pc[a] \in {"deactivate", "write"} <=> req[a].op # "provider"

\* Types, and what the serial primary keys give: ids are unique and below the
\* serial.
TypeOK == ProvidersOK /\ ConfigsOK /\ HandlersOK

\* However requests interleave, no configuration refers to a provider that is
\* gone (delete_provider checks and deletes in two statements,
\* create_model_config checks and inserts in several).
ReferentialIntegrity == \A c \in configs : ProviderExists(c.provider_id)

\* The form promises that activating a configuration deactivates the others of
\* its type (ModelConfigs.tsx), so that at most one of a task type is active.
\* The code does not keep this: two requests that activate at once both find
\* nothing to deactivate, and an update deactivates nothing when the row it
\* gives another task type is active already (create_model_config,
\* update_model_config).
AtMostOneActive ==
  \A c, d \in configs :
    c.is_active /\ d.is_active /\ c.task_type = d.task_type => c.id = d.id

\* The step in which handler a inserts or updates its row.
Writes(a) == pc[a] = "write" /\ pc'[a] = "idle" /\ configs' # configs

\* What is left of that promise: a request that activates a configuration leaves
\* it the only active one of its task type, however many were active when it
\* began, if no other handler wrote to the table meanwhile and no statement of
\* its own failed (deactivate_configs_for_task reaches every row in question
\* before the write, and the right task type when the request changes it).
ActivationIsExclusive ==
  [][\A a \in Admins :
       Activates(req[a]) /\ ~disturbed[a] /\ Writes(a) =>
         \A c, d \in ActiveOf(configs', TargetOf(req[a])) : c.id = d.id]_vars

\* A deleted configuration does not come back: not through an update that
\* found it before it was deleted, not under an id handed out again.
DeletedStaysDeleted ==
  [][\A d \in configs' : d.id <= configsCreated => \E c \in configs : c.id = d.id]_vars

\* An inactive configuration becomes active only by a request that says so: an
\* update of other fields, begun while it was active, does not undo a
\* deactivation that was committed meanwhile (update_model_config).
ActivatedOnlyOnRequest ==
  [][\A c \in configs, d \in configs' :
       c.id = d.id /\ ~c.is_active /\ d.is_active =>
         \E a \in Admins : /\ pc[a] = "write" /\ req[a].op = "update"
                           /\ req[a].row.id = c.id /\ req[a].set.is_active = TRUE]_vars

-----------------------------------------------------------------------------
(* Why an activation that is not disturbed is exclusive: the row an update  *)
(* found is still as it was found, and once active_configs has been read,  *)
(* whatever is active is in it.                                            *)

FoundIsCurrent(a) ==
  pc[a] \in {"deactivate", "write"} /\ req[a].op = "update" => req[a].row \in configs

ActiveAreListed(a) ==
  pc[a] = "write" /\ Activates(req[a]) =>
    \A c \in ActiveOf(configs, TargetOf(req[a])) : c.id \in todo[a]

Alone(a) ==
  /\ pc[a] = "deactivate" \/ todo[a] # {} => Activates(req[a])
  /\ ~disturbed[a] => FoundIsCurrent(a) /\ ActiveAreListed(a)

AloneInv ==
  /\ TypeOK
  /\ disturbed \in [Admins -> BOOLEAN]
  /\ \A a \in Admins : Alone(a)
=============================================================================
