------------------------ MODULE LlmConfigAdminProofs ------------------------
(***************************************************************************)
(* Theorems about LlmConfigAdmin: types and referential integrity for any  *)
(* number of concurrent handlers, and what an activation achieves that no  *)
(* other handler disturbs.                                                 *)
(***************************************************************************)
EXTENDS LlmConfigAdmin, TLAPS

LEMMA CreateRequest ==
  ASSUME NEW r \in Requests, r.op = "create"
  PROVE  r.row \in ConfigRows
BY DEF Requests

LEMMA UpdateRequest ==
  ASSUME NEW r \in Requests, r.op = "update"
  PROVE  r.row \in ConfigRows /\ r.set \in Payloads
BY DEF Requests

LEMMA NoRequestType == NoRequest \in Requests
BY DEF NoRequest, Requests, Ids

\* Applying a payload keeps a row a row, and its id.
LEMMA ApplyType ==
  ASSUME NEW row \in ConfigRows, NEW set \in Payloads
  PROVE  /\ Apply(row, set) \in ConfigRows
         /\ Apply(row, set).id = row.id
         /\ Apply(row, set).task_type = New(row.task_type, set.task_type)
         /\ Apply(row, set).provider_id = New(row.provider_id, set.provider_id)
         /\ Apply(row, set).is_active = New(row.is_active, set.is_active)
<1>1. /\ New(row.task_type, set.task_type) \in TaskTypes
      /\ New(row.provider_id, set.provider_id) \in Ids
      /\ New(row.is_active, set.is_active) \in BOOLEAN
  BY DEF ConfigRows, Payloads, New
<1>2. QED BY <1>1 DEF Apply, ConfigRows

-----------------------------------------------------------------------------
LEMMA HandlerFinished ==
  ASSUME HandlersOK, NEW a \in Admins, Finish(a),
         \/ UNCHANGED todo
         \/ todo' = [todo EXCEPT ![a] = {}]
  PROVE  HandlersOK'
BY NoRequestType DEF HandlersOK, Finish, NoRequest

LEMMA HandlerStarted ==
  ASSUME HandlersOK, NEW a \in Admins, NEW r \in Requests,
         NEW p \in {"update_provider", "delete_provider", "deactivate", "write"},
         p \in {"deactivate", "write"} <=> r.op # "provider",
         req' = [req EXCEPT ![a] = r], pc' = [pc EXCEPT ![a] = p], UNCHANGED todo
  PROVE  HandlersOK'
BY DEF HandlersOK

LEMMA InitTypeOK == Init => TypeOK
BY NoRequestType DEF Init, NoRequest, TypeOK, ProvidersOK, ConfigsOK, HandlersOK

\* Deactivating the configuration with one id keeps the table a table.
LEMMA DeactivateKeepsTable ==
  ASSUME ConfigsOK, NEW id, UNCHANGED configsCreated,
         configs' = {IF c.id = id THEN [c EXCEPT !.is_active = FALSE] ELSE c : c \in configs}
  PROVE  ConfigsOK'
<1> DEFINE Row(c) == IF c.id = id THEN [c EXCEPT !.is_active = FALSE] ELSE c
<1>1. \A c \in configs : Row(c) \in ConfigRows /\ Row(c).id = c.id
  BY DEF ConfigsOK, ConfigRows
<1>2. configs' = {Row(c) : c \in configs}
  OBVIOUS
<1> HIDE DEF Row
<1>3. QED BY <1>1, <1>2 DEF ConfigsOK

\* So does an update of one row.
LEMMA UpdateKeepsTable ==
  ASSUME ConfigsOK, NEW row \in ConfigRows, NEW set \in Payloads,
         UNCHANGED configsCreated, configs' = Updated(set, row)
  PROVE  ConfigsOK'
<1> DEFINE Row(c) == IF c.id = row.id THEN Apply(c, set) ELSE c
<1>1. \A c \in configs : Row(c) \in ConfigRows /\ Row(c).id = c.id
  BY ApplyType DEF ConfigsOK
<1>2. configs' = {Row(c) : c \in configs} \/ configs' = configs
  BY DEF Updated
<1> HIDE DEF Row
<1>3. QED BY <1>1, <1>2 DEF ConfigsOK

LEMMA NextTypeOK == TypeOK /\ [Next]_vars => TypeOK'
<1> SUFFICES ASSUME TypeOK, [Next]_vars PROVE TypeOK'
  OBVIOUS
<1>0. ProvidersOK /\ ConfigsOK /\ HandlersOK
  BY DEF TypeOK
<1>1. ASSUME NEW a \in Admins, NEW active \in BOOLEAN, CreateProvider(a, active)
      PROVE  TypeOK'
  <2> DEFINE new == [id |-> providersCreated + 1, is_active |-> active]
  <2>1. new \in ProviderRows /\ new.id = providersCreated + 1
    BY <1>0 DEF ProvidersOK, ProviderRows, Ids
  <2>2. providers' = providers \cup {new} /\ providersCreated' = providersCreated + 1
    BY <1>1 DEF CreateProvider
  <2> HIDE DEF new
  <2>3. ProvidersOK'
    <3>1. \A p \in providers : p.id \in Nat /\ p.id <= providersCreated
      BY <1>0 DEF ProvidersOK, ProviderRows, Ids
    <3>2. QED BY <1>0, <2>1, <2>2, <3>1 DEF ProvidersOK
  <2>4. ConfigsOK' /\ HandlersOK'
    BY <1>0, <1>1 DEF CreateProvider, ConfigsOK, HandlersOK
  <2>5. QED BY <2>3, <2>4 DEF TypeOK
<1>2. ASSUME NEW a \in Admins, NEW p \in providers, NEW active \in BOOLEAN \cup {Keep},
             UpdateProviderFind(a, p.id, active)
      PROVE  TypeOK'
  <2>1. [op |-> "provider", id |-> p.id, is_active |-> active] \in Requests
    BY <1>0 DEF ProvidersOK, ProviderRows, Requests
  <2>2. HandlersOK'
    BY <1>0, <1>2, <2>1, HandlerStarted DEF UpdateProviderFind
  <2>3. QED BY <1>0, <1>2, <2>2 DEF UpdateProviderFind, TypeOK, ProvidersOK, ConfigsOK
<1>3. ASSUME NEW a \in Admins, UpdateProviderRow(a)
      PROVE  TypeOK'
  <2> DEFINE Row(p) ==
        IF p.id = req[a].id THEN [p EXCEPT !.is_active = New(@, req[a].is_active)] ELSE p
  <2>1. providers' = {Row(p) : p \in providers}
    BY <1>3 DEF UpdateProviderRow
  <2>2. \A p \in providers : Row(p) \in ProviderRows /\ Row(p).id = p.id
    <3>1. req[a].is_active \in BOOLEAN \cup {Keep}
      BY <1>0, <1>3 DEF UpdateProviderRow, HandlersOK, Requests
    <3>2. QED BY <1>0, <3>1 DEF ProvidersOK, ProviderRows, New
  <2> HIDE DEF Row
  <2>3. ProvidersOK'
    BY <1>0, <1>3, <2>1, <2>2 DEF UpdateProviderRow, ProvidersOK
  <2>4. HandlersOK'
    BY <1>0, <1>3, HandlerFinished DEF UpdateProviderRow
  <2>5. QED BY <1>0, <1>3, <2>3, <2>4 DEF UpdateProviderRow, TypeOK, ConfigsOK
<1>4. ASSUME NEW a \in Admins, NEW p \in providers, DeleteProviderCount(a, p.id)
      PROVE  TypeOK'
  <2>1. [op |-> "provider", id |-> p.id, is_active |-> Keep] \in Requests
    BY <1>0 DEF ProvidersOK, ProviderRows, Requests
  <2>2. HandlersOK'
    BY <1>0, <1>4, <2>1, HandlerStarted DEF DeleteProviderCount
  <2>3. QED BY <1>0, <1>4, <2>2 DEF DeleteProviderCount, TypeOK, ProvidersOK, ConfigsOK
<1>5. ASSUME NEW a \in Admins, DeleteProviderRow(a)
      PROVE  TypeOK'
  <2>1. providers' \subseteq providers
    BY <1>5 DEF DeleteProviderRow
  <2>2. HandlersOK'
    BY <1>0, <1>5, HandlerFinished DEF DeleteProviderRow
  <2>3. QED BY <1>0, <1>5, <2>1, <2>2 DEF DeleteProviderRow, TypeOK, ProvidersOK, ConfigsOK
<1>6. ASSUME NEW a \in Admins, NEW tt \in TaskTypes, NEW p \in providers,
             NEW active \in BOOLEAN, CreateConfigCheck(a, tt, p.id, active)
      PROVE  TypeOK'
  <2> DEFINE r == [op |-> "create",
                   row |-> [id |-> configsCreated + 1, task_type |-> tt,
                            provider_id |-> p.id, is_active |-> active]]
  <2>1. r \in Requests /\ r.op = "create"
    BY <1>0 DEF ProvidersOK, ProviderRows, ConfigsOK, Requests, ConfigRows, Ids
  <2>2. /\ req' = [req EXCEPT ![a] = r]
        /\ pc' = [pc EXCEPT ![a] = IF Activates(r) THEN "deactivate" ELSE "write"]
        /\ UNCHANGED <<providers, configs, providersCreated, configsCreated, todo>>
    BY <1>6 DEF CreateConfigCheck
  <2> HIDE DEF r
  <2>3. HandlersOK'
    BY <1>0, <2>1, <2>2, HandlerStarted
  <2>4. QED BY <1>0, <2>2, <2>3 DEF TypeOK, ProvidersOK, ConfigsOK
<1>7. ASSUME NEW a \in Admins, NEW row \in configs, NEW tt \in TaskTypes \cup {Keep},
             NEW pid \in 1..MaxProviders \cup {Keep}, NEW active \in BOOLEAN \cup {Keep},
             UpdateConfigFind(a, row,
               [task_type |-> tt, provider_id |-> pid, is_active |-> active])
      PROVE  TypeOK'
  <2> DEFINE set == [task_type |-> tt, provider_id |-> pid, is_active |-> active]
             r == [op |-> "update", row |-> row, set |-> set]
  <2>1. set \in Payloads
    BY BoundsAssumption DEF Payloads, Ids
  <2>2. r \in Requests /\ r.op = "update"
    BY <1>0, <2>1 DEF ConfigsOK, Requests
  <2>3. /\ req' = [req EXCEPT ![a] = r]
        /\ pc' = [pc EXCEPT ![a] = IF Activates(r) THEN "deactivate" ELSE "write"]
        /\ UNCHANGED <<providers, configs, providersCreated, configsCreated, todo>>
    BY <1>7 DEF UpdateConfigFind
  <2> HIDE DEF r
  <2>4. HandlersOK'
    BY <1>0, <2>2, <2>3, HandlerStarted
  <2>5. QED BY <1>0, <2>3, <2>4 DEF TypeOK, ProvidersOK, ConfigsOK
<1>8. ASSUME NEW a \in Admins, DeactivateFind(a)
      PROVE  TypeOK'
  <2>1. todo' \in [Admins -> SUBSET Ids]
    BY <1>0, <1>8 DEF DeactivateFind, ActiveOf, HandlersOK, ConfigsOK, ConfigRows
  <2>2. HandlersOK'
    BY <1>0, <1>8, <2>1 DEF DeactivateFind, HandlersOK
  <2>3. QED BY <1>0, <1>8, <2>2 DEF DeactivateFind, TypeOK, ProvidersOK, ConfigsOK
<1>9. ASSUME NEW a \in Admins, DeactivateOne(a)
      PROVE  TypeOK'
  <2>1. ConfigsOK'
    BY <1>0, <1>9, DeactivateKeepsTable DEF DeactivateOne, ConfigsOK
  <2>2. HandlersOK'
    BY <1>0, <1>9 DEF DeactivateOne, HandlersOK
  <2>3. QED BY <1>0, <1>9, <2>1, <2>2 DEF DeactivateOne, TypeOK, ProvidersOK
<1>10. ASSUME NEW a \in Admins, InsertConfig(a)
       PROVE  TypeOK'
  <2> DEFINE new == [req[a].row EXCEPT !.id = configsCreated + 1]
  <2>1. req[a].row \in ConfigRows
    BY <1>0, <1>10, CreateRequest DEF InsertConfig, HandlersOK
  <2>2. new \in ConfigRows /\ new.id = configsCreated + 1
    BY <1>0, <2>1 DEF ConfigsOK, ConfigRows, Ids
  <2>3. /\ configs' = configs \/ configs' = configs \cup {new}
        /\ configsCreated' = configsCreated + 1
    BY <1>10 DEF InsertConfig
  <2> HIDE DEF new
  <2>4. \A c \in configs : c.id \in Nat /\ c.id <= configsCreated
    BY <1>0 DEF ConfigsOK, ConfigRows, Ids
  <2>5. ConfigsOK'
    BY <1>0, <2>2, <2>3, <2>4 DEF ConfigsOK
  <2>6. HandlersOK'
    BY <1>0, <1>10, HandlerFinished DEF InsertConfig
  <2>7. QED BY <1>0, <1>10, <2>5, <2>6 DEF InsertConfig, TypeOK, ProvidersOK
<1>11. ASSUME NEW a \in Admins, UpdateConfigRow(a)
       PROVE  TypeOK'
  <2>1. req[a].row \in ConfigRows /\ req[a].set \in Payloads
    BY <1>0, <1>11, UpdateRequest DEF UpdateConfigRow, HandlersOK
  <2>2. ConfigsOK'
    BY <1>0, <1>11, <2>1, UpdateKeepsTable DEF UpdateConfigRow
  <2>3. HandlersOK'
    BY <1>0, <1>11, HandlerFinished DEF UpdateConfigRow
  <2>4. QED BY <1>0, <1>11, <2>2, <2>3 DEF UpdateConfigRow, TypeOK, ProvidersOK
<1>12. ASSUME NEW a \in Admins, NEW c \in configs, DeleteConfig(a, c.id)
       PROVE  TypeOK'
  BY <1>0, <1>12 DEF DeleteConfig, TypeOK, ProvidersOK, ConfigsOK, HandlersOK
<1>13. ASSUME NEW a \in Admins, Disconnect(a)
       PROVE  TypeOK'
  <2>1. HandlersOK'
    BY <1>0, <1>13, HandlerFinished DEF Disconnect
  <2>2. QED BY <1>0, <1>13, <2>1 DEF Disconnect, TypeOK, ProvidersOK, ConfigsOK
<1>14. CASE UNCHANGED vars
  BY <1>0, <1>14 DEF vars, TypeOK, ProvidersOK, ConfigsOK, HandlersOK
<1>15. QED
  BY <1>1, <1>2, <1>3, <1>4, <1>5, <1>6, <1>7, <1>8, <1>9, <1>10, <1>11, <1>12, <1>13,
     <1>14 DEF Next

\* Types and unique serial ids, for any number of concurrent handlers.
THEOREM TypeCorrect == Spec => []TypeOK
<1>1. QED BY InitTypeOK, NextTypeOK, PTL DEF Spec

-----------------------------------------------------------------------------
\* Rows that keep to providers that exist keep the tables consistent.
LEMMA IntegrityKept ==
  ASSUME ReferentialIntegrity,
         \A p \in providers : \E q \in providers' : q.id = p.id,
         \A d \in configs' : \/ ProviderExists(d.provider_id)
                             \/ \E c \in configs : d.provider_id = c.provider_id
  PROVE  ReferentialIntegrity'
BY DEF ReferentialIntegrity, ProviderExists

LEMMA NextReferentialIntegrity ==
  TypeOK /\ ReferentialIntegrity /\ [Next]_vars => ReferentialIntegrity'
<1> SUFFICES ASSUME TypeOK, ReferentialIntegrity, [Next]_vars
             PROVE  ReferentialIntegrity'
  OBVIOUS
<1>0. ProvidersOK /\ ConfigsOK /\ HandlersOK
  BY DEF TypeOK
<1>1. CASE UNCHANGED <<providers, configs>>
  BY <1>1 DEF ReferentialIntegrity, ProviderExists
<1>2. ASSUME NEW a \in Admins, NEW active \in BOOLEAN, CreateProvider(a, active)
      PROVE  ReferentialIntegrity'
  BY <1>2, IntegrityKept DEF CreateProvider
<1>3. ASSUME NEW a \in Admins, UpdateProviderRow(a)
      PROVE  ReferentialIntegrity'
  <2> DEFINE Row(p) ==
        IF p.id = req[a].id THEN [p EXCEPT !.is_active = New(@, req[a].is_active)] ELSE p
  <2>1. providers' = {Row(p) : p \in providers} /\ configs' = configs
    BY <1>3 DEF UpdateProviderRow
  <2>2. \A p \in providers : Row(p).id = p.id
    BY <1>0 DEF ProvidersOK, ProviderRows
  <2> HIDE DEF Row
  <2>3. QED BY <2>1, <2>2, IntegrityKept
<1>4. ASSUME NEW a \in Admins, DeleteProviderRow(a)
      PROVE  ReferentialIntegrity'
  <2>1. \A c \in configs : c.provider_id = req[a].id => providers' = providers
    BY <1>4 DEF DeleteProviderRow, Referenced
  <2>2. configs' = configs /\ \A p \in providers : p.id # req[a].id => p \in providers'
    BY <1>4 DEF DeleteProviderRow
  <2>3. QED BY <2>1, <2>2 DEF ReferentialIntegrity, ProviderExists
<1>5. ASSUME NEW a \in Admins, DeactivateOne(a)
      PROVE  ReferentialIntegrity'
  <2>1. \A d \in configs' : \E c \in configs : d.provider_id = c.provider_id
    BY <1>0, <1>5 DEF DeactivateOne, ConfigsOK, ConfigRows
  <2>2. QED BY <1>5, <2>1, IntegrityKept DEF DeactivateOne
<1>6. ASSUME NEW a \in Admins, InsertConfig(a)
      PROVE  ReferentialIntegrity'
  <2>1. req[a].row \in ConfigRows
    BY <1>0, <1>6, CreateRequest DEF InsertConfig, HandlersOK
  <2>2. [req[a].row EXCEPT !.id = configsCreated + 1].provider_id = req[a].row.provider_id
    BY <2>1 DEF ConfigRows
  <2>3. QED BY <1>6, <2>2, IntegrityKept DEF InsertConfig
<1>7. ASSUME NEW a \in Admins, UpdateConfigRow(a)
      PROVE  ReferentialIntegrity'
  <2>1. req[a].set \in Payloads
    BY <1>0, <1>7, UpdateRequest DEF UpdateConfigRow, HandlersOK
  <2> DEFINE set == req[a].set
             Row(c) == IF c.id = req[a].row.id THEN Apply(c, set) ELSE c
  <2>2. \/ configs' = configs
        \/ /\ \A pid \in {set.provider_id} \ {Keep} : ProviderExists(pid)
           /\ configs' = {Row(c) : c \in configs}
    BY <1>7 DEF UpdateConfigRow, Updated
  <2>3. \A c \in configs : Row(c).provider_id \in {c.provider_id} \cup ({set.provider_id} \ {Keep})
    BY <1>0, <2>1, ApplyType DEF ConfigsOK, New
  <2> HIDE DEF Row, set
  <2>4. providers' = providers
    BY <1>7 DEF UpdateConfigRow
  <2>5. QED BY <2>2, <2>3, <2>4, IntegrityKept
<1>8. ASSUME NEW a \in Admins, NEW c \in configs, DeleteConfig(a, c.id)
      PROVE  ReferentialIntegrity'
  BY <1>8, IntegrityKept DEF DeleteConfig
<1>9. QED
  BY <1>1, <1>2, <1>3, <1>4, <1>5, <1>6, <1>7, <1>8 DEF Next, vars, UpdateProviderFind,
     DeleteProviderCount, CreateConfigCheck, UpdateConfigFind, DeactivateFind, Disconnect

\* No configuration ever refers to a deleted provider, however the handlers of
\* llm_admin.rs interleave: their checks are only a courtesy, the foreign key of
\* model_configs decides.
THEOREM IntegrityHolds == Spec => []ReferentialIntegrity
<1>1. Init => ReferentialIntegrity
  BY DEF Init, ReferentialIntegrity
<1>2. QED BY <1>1, TypeCorrect, NextReferentialIntegrity, PTL DEF Spec

-----------------------------------------------------------------------------
(* What a statement may do to the rows of model_configs.                   *)

\* Deactivating one row keeps each row's id and activates none.
LEMMA DeactivateOnlyClears ==
  ASSUME ConfigsOK, NEW id,
         configs' = {IF c.id = id THEN [c EXCEPT !.is_active = FALSE] ELSE c : c \in configs}
  PROVE  \A d \in configs' :
           \E c \in configs : c.id = d.id /\ (d.is_active => c.is_active)
<1> DEFINE Row(c) == IF c.id = id THEN [c EXCEPT !.is_active = FALSE] ELSE c
<1>1. \A c \in configs : Row(c).id = c.id /\ (Row(c).is_active => c.is_active)
  BY DEF ConfigsOK, ConfigRows
<1>2. configs' = {Row(c) : c \in configs}
  OBVIOUS
<1> HIDE DEF Row
<1>3. QED BY <1>1, <1>2

\* An update keeps each row's id and activates only the row it names, and that
\* one only when is_active was sent as true.
LEMMA UpdateOnlySets ==
  ASSUME ConfigsOK, NEW row \in ConfigRows, NEW set \in Payloads,
         configs' = Updated(set, row)
  PROVE  \A d \in configs' :
           \E c \in configs :
             /\ c.id = d.id
             /\ d.is_active => c.is_active \/ (c.id = row.id /\ set.is_active = TRUE)
<1> DEFINE Row(c) == IF c.id = row.id THEN Apply(c, set) ELSE c
<1>1. ASSUME NEW c \in configs
      PROVE  /\ Row(c).id = c.id
             /\ Row(c).is_active => c.is_active \/ (c.id = row.id /\ set.is_active = TRUE)
  <2>1. c \in ConfigRows /\ set.is_active \in BOOLEAN \cup {Keep}
    BY DEF ConfigsOK, Payloads
  <2>2. CASE c.id # row.id
    BY <2>2
  <2>3. CASE c.id = row.id
    <3>1. Row(c).id = c.id /\ Row(c).is_active = New(c.is_active, set.is_active)
      BY <2>1, <2>3, ApplyType
    <3>2. New(c.is_active, set.is_active) => c.is_active \/ set.is_active = TRUE
      BY <2>1 DEF New
    <3> HIDE DEF Row
    <3>3. QED BY <2>3, <3>1, <3>2, Zenon
  <2>4. QED BY <2>2, <2>3
<1>2. configs' = {Row(c) : c \in configs} \/ configs' = configs
  BY DEF Updated
<1> HIDE DEF Row
<1>3. CASE configs' = configs
  BY <1>3
<1>4. ASSUME configs' = {Row(c) : c \in configs}, NEW d \in configs'
      PROVE  \E c \in configs :
               /\ c.id = d.id
               /\ d.is_active => c.is_active \/ (c.id = row.id /\ set.is_active = TRUE)
  <2>1. PICK c \in configs : d = Row(c)
    BY <1>4
  <2>2. QED BY <1>1, <2>1, Zenon
<1>5. QED BY <1>2, <1>3, <1>4

\* The handler that is about to set is_active to true in the row with one id.
Activating(id) ==
  \E a \in Admins : /\ pc[a] = "write" /\ req[a].op = "update"
                    /\ req[a].row.id = id /\ req[a].set.is_active = TRUE

\* Each row of the table after a step was there before under its id, active or
\* about to be activated if it is active, or has an id never handed out before.
LEMMA RowsComeFromRows ==
  ASSUME TypeOK, [Next]_vars
  PROVE  \A d \in configs' :
           \/ d.id = configsCreated + 1
           \/ \E c \in configs :
                c.id = d.id /\ (d.is_active => c.is_active \/ Activating(c.id))
<1> DEFINE FromRow(d) == \E c \in configs :
      c.id = d.id /\ (d.is_active => c.is_active \/ Activating(c.id))
<1>0. ConfigsOK /\ HandlersOK
  BY DEF TypeOK
<1>1. CASE configs' \subseteq configs
  BY <1>1
<1>2. ASSUME NEW a \in Admins, DeactivateOne(a), ~(configs' \subseteq configs)
      PROVE  \A d \in configs' : FromRow(d)
  <2>1. PICK id : configs' = {IF c.id = id THEN [c EXCEPT !.is_active = FALSE] ELSE c
                                : c \in configs}
    BY <1>2 DEF DeactivateOne
  <2>2. QED BY <1>0, <2>1, DeactivateOnlyClears
<1>3. ASSUME NEW a \in Admins, InsertConfig(a), NEW d \in configs', d \notin configs
      PROVE  d.id = configsCreated + 1
  <2>1. req[a].row \in ConfigRows
    BY <1>0, <1>3, CreateRequest DEF InsertConfig, HandlersOK
  <2>2. d = [req[a].row EXCEPT !.id = configsCreated + 1]
    BY <1>3 DEF InsertConfig
  <2>3. QED BY <2>1, <2>2 DEF ConfigRows
<1>4. ASSUME NEW a \in Admins, UpdateConfigRow(a)
      PROVE  \A d \in configs' : FromRow(d)
  <2>1. req[a].row \in ConfigRows /\ req[a].set \in Payloads
    BY <1>0, <1>4, UpdateRequest DEF UpdateConfigRow, HandlersOK
  <2>2. \A d \in configs' : \E c \in configs :
          /\ c.id = d.id
          /\ d.is_active => \/ c.is_active
                            \/ c.id = req[a].row.id /\ req[a].set.is_active = TRUE
    BY <1>0, <1>4, <2>1, UpdateOnlySets DEF UpdateConfigRow
  <2>3. \A id : id = req[a].row.id /\ req[a].set.is_active = TRUE => Activating(id)
    BY <1>4 DEF UpdateConfigRow, Activating
  <2>4. QED BY <2>2, <2>3
<1>5. ASSUME NEW a \in Admins, NEW c \in configs, DeleteConfig(a, c.id)
      PROVE  configs' \subseteq configs
  BY <1>5 DEF DeleteConfig
<1>6. \/ configs' \subseteq configs
      \/ \E a \in Admins : \/ DeactivateOne(a) \/ InsertConfig(a) \/ UpdateConfigRow(a)
                           \/ \E c \in configs : DeleteConfig(a, c.id)
  BY DEF Next, vars, CreateProvider, UpdateProviderFind, UpdateProviderRow,
     DeleteProviderCount, DeleteProviderRow, CreateConfigCheck, UpdateConfigFind,
     DeactivateFind, Disconnect
<1>7. QED BY <1>1, <1>2, <1>3, <1>4, <1>5, <1>6

\* A deleted configuration does not come back under its id, neither through an
\* update that found it earlier (update_model_config) nor through the serial.
THEOREM DeletedIsGone == Spec => DeletedStaysDeleted
<1>1. TypeOK /\ [Next]_vars =>
        [\A d \in configs' : d.id <= configsCreated => \E c \in configs : c.id = d.id]_vars
  <2> SUFFICES ASSUME TypeOK, [Next]_vars, NEW d \in configs', d.id <= configsCreated
               PROVE  \E c \in configs : c.id = d.id
    OBVIOUS
  <2>1. d.id # configsCreated + 1
    BY DEF TypeOK, ConfigsOK
  <2>2. QED BY <2>1, RowsComeFromRows
<1>2. QED BY <1>1, TypeCorrect, PTL DEF Spec, DeletedStaysDeleted

\* An inactive configuration becomes active only through an update that was sent
\* is_active = true for it, whatever else was written between the find and the
\* UPDATE of a handler (update_model_config, deactivate_configs_for_task).
THEOREM ActivatedByRequest == Spec => ActivatedOnlyOnRequest
<1>1. TypeOK /\ [Next]_vars =>
        [\A c \in configs, d \in configs' :
           c.id = d.id /\ ~c.is_active /\ d.is_active =>
             \E a \in Admins : /\ pc[a] = "write" /\ req[a].op = "update"
                               /\ req[a].row.id = c.id /\ req[a].set.is_active = TRUE]_vars
  <2> SUFFICES ASSUME TypeOK, [Next]_vars, NEW c \in configs, NEW d \in configs',
                      c.id = d.id, ~c.is_active, d.is_active
               PROVE  Activating(c.id)
    BY DEF Activating
  <2>1. d.id # configsCreated + 1
    BY DEF TypeOK, ConfigsOK, ConfigRows, Ids
  <2>2. PICK e \in configs : e.id = d.id /\ (d.is_active => e.is_active \/ Activating(e.id))
    BY <2>1, RowsComeFromRows
  <2>3. e = c
    BY <2>2 DEF TypeOK, ConfigsOK
  <2>4. QED BY <2>2, <2>3
<1>2. QED BY <1>1, TypeCorrect, PTL DEF Spec, ActivatedOnlyOnRequest

-----------------------------------------------------------------------------
(* An activation nobody disturbs.                                          *)

LEMMA IdleIsAlone ==
  ASSUME NEW a \in Admins, pc'[a] \in {"idle", "update_provider", "delete_provider"},
         todo'[a] = {}
  PROVE  Alone(a)'
BY DEF Alone, FoundIsCurrent, ActiveAreListed

\* A handler that keeps its place, and whose table nobody else wrote to.
LEMMA UntouchedIsAlone ==
  ASSUME NEW a \in Admins, Alone(a), pc'[a] = pc[a], req'[a] = req[a], todo'[a] = todo[a],
         disturbed'[a] \/ (configs' = configs /\ disturbed'[a] = disturbed[a])
  PROVE  Alone(a)'
BY DEF Alone, FoundIsCurrent, ActiveAreListed

\* A step of one handler leaves the others where they are, and disturbs them if
\* it writes to the table.
LEMMA OthersAreDisturbed ==
  ASSUME AloneInv, NEW a \in Admins, NEW b \in Admins, b # a,
         \/ \E active \in BOOLEAN : CreateProvider(a, active)
         \/ \E id : DeleteProviderCount(a, id) \/ DeleteConfig(a, id)
         \/ \E id, active : UpdateProviderFind(a, id, active)
         \/ \E tt, pid, active : CreateConfigCheck(a, tt, pid, active)
         \/ \E row, set : UpdateConfigFind(a, row, set)
         \/ UpdateProviderRow(a) \/ DeleteProviderRow(a) \/ DeactivateFind(a)
         \/ DeactivateOne(a) \/ InsertConfig(a) \/ UpdateConfigRow(a) \/ Disconnect(a)
  PROVE  Alone(b)'
<1>1. Alone(b) /\ HandlersOK /\ disturbed \in [Admins -> BOOLEAN]
  BY DEF AloneInv, TypeOK
<1>2. pc'[b] = pc[b] /\ req'[b] = req[b] /\ todo'[b] = todo[b]
  BY <1>1 DEF HandlersOK, CreateProvider, DeleteProviderCount, DeleteConfig,
     UpdateProviderFind, CreateConfigCheck, UpdateConfigFind, UpdateProviderRow,
     DeleteProviderRow, DeactivateFind, DeactivateOne, InsertConfig, UpdateConfigRow,
     Disconnect, Finish
<1>3. disturbed'[b] \/ (configs' = configs /\ disturbed'[b] = disturbed[b])
  BY <1>1 DEF CreateProvider, DeleteProviderCount, DeleteConfig,
     UpdateProviderFind, CreateConfigCheck, UpdateConfigFind, UpdateProviderRow,
     DeleteProviderRow, DeactivateFind, DeactivateOne, InsertConfig, UpdateConfigRow,
     Disconnect, Disturbs
<1>4. QED BY <1>1, <1>2, <1>3, UntouchedIsAlone

LEMMA DisturbedType ==
  ASSUME AloneInv, [Next]_vars
  PROVE  disturbed' \in [Admins -> BOOLEAN]
BY DEF AloneInv, Next, vars, CreateProvider, DeleteProviderCount, DeleteConfig,
   UpdateProviderFind, CreateConfigCheck, UpdateConfigFind, UpdateProviderRow,
   DeleteProviderRow, DeactivateFind, DeactivateOne, InsertConfig, UpdateConfigRow,
   Disconnect, Disturbs

LEMMA NextAlone ==
  ASSUME AloneInv, NEW a \in Admins,
         \/ \E active \in BOOLEAN : CreateProvider(a, active)
         \/ \E id : DeleteProviderCount(a, id) \/ DeleteConfig(a, id)
         \/ \E id, active : UpdateProviderFind(a, id, active)
         \/ \E tt, pid, active : CreateConfigCheck(a, tt, pid, active)
         \/ \E row \in configs : \E set : UpdateConfigFind(a, row, set)
         \/ UpdateProviderRow(a) \/ DeleteProviderRow(a) \/ DeactivateFind(a)
         \/ DeactivateOne(a) \/ InsertConfig(a) \/ UpdateConfigRow(a) \/ Disconnect(a)
  PROVE  Alone(a)'
<1>0. Alone(a) /\ ConfigsOK /\ HandlersOK /\ disturbed \in [Admins -> BOOLEAN]
  BY DEF AloneInv, TypeOK
<1>1. CASE \/ \E active \in BOOLEAN : CreateProvider(a, active)
           \/ \E id : DeleteProviderCount(a, id) \/ DeleteConfig(a, id)
           \/ \E id, active : UpdateProviderFind(a, id, active)
           \/ UpdateProviderRow(a) \/ DeleteProviderRow(a) \/ Disconnect(a)
           \/ InsertConfig(a) \/ UpdateConfigRow(a)
  <2>1. pc'[a] \in {"idle", "update_provider", "delete_provider"}
    BY <1>0, <1>1 DEF CreateProvider, DeleteProviderCount, DeleteConfig, UpdateProviderFind,
       UpdateProviderRow, DeleteProviderRow, Disconnect, InsertConfig, UpdateConfigRow,
       Finish, HandlersOK
  <2>2. todo'[a] = {}
    BY <1>0, <1>1 DEF CreateProvider, DeleteProviderCount, DeleteConfig, UpdateProviderFind,
       UpdateProviderRow, DeleteProviderRow, Disconnect, InsertConfig, UpdateConfigRow,
       HandlersOK, Alone, Activates
  <2>3. QED BY <2>1, <2>2, IdleIsAlone
<1>2. ASSUME NEW tt, NEW pid, NEW active, CreateConfigCheck(a, tt, pid, active)
      PROVE  Alone(a)'
  <2>1. /\ req'[a].op = "create" /\ todo'[a] = {}
        /\ pc'[a] = IF Activates(req'[a]) THEN "deactivate" ELSE "write"
    BY <1>0, <1>2 DEF CreateConfigCheck, HandlersOK, Alone, Activates
  <2>2. QED BY <2>1 DEF Alone, FoundIsCurrent, ActiveAreListed
<1>3. ASSUME NEW row \in configs, NEW set, UpdateConfigFind(a, row, set)
      PROVE  Alone(a)'
  <2> DEFINE r == [op |-> "update", row |-> row, set |-> set]
  <2>1. /\ req'[a] = r /\ configs' = configs
        /\ pc'[a] = IF Activates(r) THEN "deactivate" ELSE "write"
    BY <1>0, <1>3 DEF UpdateConfigFind, HandlersOK
  <2>2. todo'[a] = {}
    BY <1>0, <1>3 DEF UpdateConfigFind, HandlersOK, Alone, Activates
  <2>3. r.row = row /\ r.row \in configs
    OBVIOUS
  <2> HIDE DEF r
  <2>4. QED BY <2>1, <2>2, <2>3 DEF Alone, FoundIsCurrent, ActiveAreListed
<1>4. CASE DeactivateFind(a)
  <2>1. pc[a] = "deactivate" /\ pc'[a] = "write" /\ UNCHANGED <<configs, req>>
    BY <1>0, <1>4 DEF DeactivateFind, HandlersOK
  <2>2. Activates(req[a]) /\ req'[a] = req[a]
    BY <1>0, <2>1 DEF Alone
  <2>3. CASE disturbed'[a]
    BY <2>1, <2>2, <2>3 DEF Alone
  <2>4. CASE ~disturbed'[a]
    <3>1. /\ todo'[a] = {c.id : c \in ActiveOf(configs, TargetOf(req[a]))}
          /\ ~disturbed[a]
      BY <1>0, <1>4, <2>4 DEF DeactivateFind, HandlersOK
    <3>2. FoundIsCurrent(a)'
      BY <1>0, <2>1, <3>1 DEF Alone, FoundIsCurrent
    <3>3. ActiveAreListed(a)'
      BY <2>1, <3>1 DEF ActiveAreListed
    <3>4. QED BY <2>2, <3>2, <3>3 DEF Alone
  <2>5. QED BY <2>3, <2>4
<1>5. CASE DeactivateOne(a)
  <2>1. PICK id \in todo[a] :
          /\ todo' = [todo EXCEPT ![a] = @ \ {id}]
          /\ \/ /\ configs' = {IF c.id = id THEN [c EXCEPT !.is_active = FALSE] ELSE c : c \in configs}
                /\ Disturbs(a)
             \/ disturbed' = [disturbed EXCEPT ![a] = TRUE]
    BY <1>5 DEF DeactivateOne
  <2>2. pc[a] = "write" /\ UNCHANGED <<pc, req>> /\ todo'[a] = todo[a] \ {id}
    BY <1>0, <1>5, <2>1 DEF DeactivateOne, HandlersOK
  <2>3. Activates(req[a])
    BY <1>0, <2>1 DEF Alone
  <2>4. CASE disturbed'[a]
    BY <2>2, <2>3, <2>4 DEF Alone
  <2>5. CASE ~disturbed'[a]
    <3>1. /\ configs' = {IF c.id = id THEN [c EXCEPT !.is_active = FALSE] ELSE c : c \in configs}
          /\ ~disturbed[a]
      BY <1>0, <2>1, <2>5 DEF Disturbs
    <3>2. \A d \in configs' : d.is_active => d \in configs /\ d.id # id
      BY <1>0, <3>1 DEF ConfigsOK, ConfigRows
    <3>3. FoundIsCurrent(a)'
      <4> SUFFICES ASSUME req[a].op = "update" PROVE req[a].row \in configs'
        BY <2>2 DEF FoundIsCurrent
      <4>1. req[a].row \in configs /\ ~req[a].row.is_active
        BY <1>0, <2>2, <2>3, <3>1 DEF Alone, FoundIsCurrent, Activates
      <4>2. [req[a].row EXCEPT !.is_active = FALSE] = req[a].row
        BY <1>0, <4>1 DEF ConfigsOK, ConfigRows
      <4>3. QED BY <3>1, <4>1, <4>2
    <3>4. ActiveAreListed(a)'
      BY <1>0, <2>2, <3>1, <3>2 DEF Alone, ActiveAreListed, ActiveOf
    <3>5. QED BY <2>2, <2>3, <3>3, <3>4 DEF Alone
  <2>6. QED BY <2>4, <2>5
<1>6. QED BY <1>1, <1>2, <1>3, <1>4, <1>5

LEMMA NextAloneInv == AloneInv /\ [Next]_vars => AloneInv'
<1> SUFFICES ASSUME AloneInv, [Next]_vars PROVE AloneInv'
  OBVIOUS
<1>1. TypeOK' /\ disturbed' \in [Admins -> BOOLEAN]
  BY NextTypeOK, DisturbedType DEF AloneInv
<1>2. ASSUME NEW b \in Admins PROVE Alone(b)'
  <2>1. CASE UNCHANGED vars
    BY <2>1 DEF vars, AloneInv, Alone, FoundIsCurrent, ActiveAreListed
  <2>2. CASE Next
    <3>1. PICK a \in Admins :
            \/ \E active \in BOOLEAN : CreateProvider(a, active)
            \/ \E id : DeleteProviderCount(a, id) \/ DeleteConfig(a, id)
            \/ \E id, active : UpdateProviderFind(a, id, active)
            \/ \E tt, pid, active : CreateConfigCheck(a, tt, pid, active)
            \/ \E row \in configs : \E set : UpdateConfigFind(a, row, set)
            \/ UpdateProviderRow(a) \/ DeleteProviderRow(a) \/ DeactivateFind(a)
            \/ DeactivateOne(a) \/ InsertConfig(a) \/ UpdateConfigRow(a) \/ Disconnect(a)
      BY <2>2 DEF Next
    <3>2. CASE b = a
      BY <3>1, <3>2, NextAlone
    <3>3. CASE b # a
      BY <3>1, <3>3, OthersAreDisturbed
    <3>4. QED BY <3>2, <3>3
  <2>3. QED BY <2>1, <2>2
<1>3. QED BY <1>1, <1>2 DEF AloneInv

\* The write that ends an activation nobody disturbed.
LEMMA WriteIsExclusive ==
  ASSUME AloneInv, [Next]_vars, NEW a \in Admins, Activates(req[a]), ~disturbed[a],
         Writes(a)
  PROVE  \A c, d \in ActiveOf(configs', TargetOf(req[a])) : c.id = d.id
<1>0. Alone(a) /\ ConfigsOK /\ HandlersOK
  BY DEF AloneInv, TypeOK
<1>1. InsertConfig(a) \/ UpdateConfigRow(a)
  <2>1. PICK b \in Admins :
          DeactivateOne(b) \/ InsertConfig(b) \/ UpdateConfigRow(b)
            \/ \E id : DeleteConfig(b, id)
    BY DEF Writes, Next, vars, CreateProvider, UpdateProviderFind, UpdateProviderRow,
       DeleteProviderCount, DeleteProviderRow, CreateConfigCheck, UpdateConfigFind,
       DeactivateFind, Disconnect
  <2>2. b = a /\ ~DeactivateOne(b) /\ ~\E id : DeleteConfig(b, id)
    BY <1>0, <2>1 DEF Writes, DeactivateOne, DeleteConfig, InsertConfig, UpdateConfigRow,
       Finish, HandlersOK
  <2>3. QED BY <2>1, <2>2
<1>2. ActiveOf(configs, TargetOf(req[a])) = {}
  BY <1>0, <1>1 DEF Writes, Alone, ActiveAreListed, InsertConfig, UpdateConfigRow
<1>3. CASE InsertConfig(a)
  <2> DEFINE new == [req[a].row EXCEPT !.id = configsCreated + 1]
  <2>1. configs' = configs \/ configs' = configs \cup {new}
    BY <1>3 DEF InsertConfig
  <2> HIDE DEF new
  <2>2. QED BY <1>2, <2>1 DEF ActiveOf
<1>4. CASE UpdateConfigRow(a)
  <2> DEFINE row == req[a].row
             set == req[a].set
             Row(c) == IF c.id = row.id THEN Apply(c, set) ELSE c
  <2>1. row \in ConfigRows /\ set \in Payloads
    BY <1>0, <1>4, UpdateRequest DEF UpdateConfigRow, HandlersOK
  <2>2. configs' = {Row(c) : c \in configs} \/ configs' = configs
    BY <1>4 DEF UpdateConfigRow, Updated
  <2>3. \A c \in configs : Row(c) = c \/ Row(c).id = row.id
    BY <1>0, <2>1, ApplyType DEF ConfigsOK
  <2> HIDE DEF Row, row, set
  <2>4. \A d \in configs' : d \in configs \/ d.id = row.id
    BY <2>2, <2>3
  <2>5. QED BY <1>2, <2>4 DEF ActiveOf
<1>5. QED BY <1>1, <1>3, <1>4

\* For any number of administrators: a request that activates a configuration,
\* undisturbed by others and by failures of its own, leaves no other active one
\* of that task type, even where earlier races had left several
\* (deactivate_configs_for_task before the write).
THEOREM ActivationExclusive == Spec => ActivationIsExclusive
<1>1. Init => AloneInv
  BY InitTypeOK DEF Init, AloneInv, Alone, FoundIsCurrent, ActiveAreListed
<1>2. AloneInv /\ [Next]_vars =>
        [\A a \in Admins :
           Activates(req[a]) /\ ~disturbed[a] /\ Writes(a) =>
             \A c, d \in ActiveOf(configs', TargetOf(req[a])) : c.id = d.id]_vars
  BY WriteIsExclusive
<1>3. QED BY <1>1, <1>2, NextAloneInv, PTL DEF Spec, ActivationIsExclusive
=============================================================================
