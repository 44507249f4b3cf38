----------------------- MODULE AdoptionPipelineProofs -----------------------
(***************************************************************************)
(* Theorems about AdoptionPipeline, for any number of records, templates   *)
(* and concurrent adoptions.                                               *)
(***************************************************************************)
EXTENDS AdoptionPipeline, TLAPS

LEMMA NoRequestType == NoRequest \in Requests
BY DEF NoRequest, Requests, Ids, PromptKinds

LEMMA FinishedOK ==
  ASSUME HandlersOK, NEW h \in Handlers, Finish(h)
  PROVE  HandlersOK'
BY NoRequestType DEF HandlersOK, Finish

LEMMA InitTypeOK == Init => TypeOK
BY NoRequestType DEF Init, TypeOK, HistoryOK, TemplatesOK, HandlersOK, IndexOK

\* An adoption rewrites one row in place.
LEMMA AdoptKeepsHistory ==
  ASSUME HistoryOK, NEW id, NEW json \in Jsons, UNCHANGED created,
         history' = MarkAdopted(id, json)
  PROVE  HistoryOK'
<1> DEFINE Row(r) == IF r.id = id
                     THEN [r EXCEPT !.status = "adopted", !.final_json = json] ELSE r
<1>1. \A r \in history : Row(r) \in HistoryRows /\ Row(r).id = r.id
  BY DEF HistoryOK, HistoryRows
<1>2. history' = {Row(r) : r \in history}
  BY DEF MarkAdopted
<1> HIDE DEF Row
<1>3. created' = created /\ created \in [history : Nat, templates : Nat]
  BY DEF HistoryOK
<1>4. \A r \in history' : \E q \in history : r = Row(q) /\ r.id = q.id /\ r \in HistoryRows
  BY <1>1, <1>2
<1>5. \A r \in history' : r.id <= created.history
  BY <1>4 DEF HistoryOK
<1>6. ASSUME NEW r \in history', NEW s \in history', r.id = s.id PROVE r = s
  <2>1. PICK p \in history : r = Row(p) /\ r.id = p.id
    BY <1>4
  <2>2. PICK q \in history : s = Row(q) /\ s.id = q.id
    BY <1>4
  <2>3. p = q
    BY <1>6, <2>1, <2>2 DEF HistoryOK
  <2>4. QED BY <2>1, <2>2, <2>3
<1>7. history' \subseteq HistoryRows
  BY <1>4
<1>8. created' \in [history : Nat, templates : Nat] /\ \A r \in history' : r.id <= created'.history
  BY <1>3, <1>5
<1>9. QED BY <1>6, <1>7, <1>8 DEF HistoryOK

LEMMA NextTypeOK == TypeOK /\ [Next]_vars => TypeOK'
<1> SUFFICES ASSUME TypeOK, [Next]_vars PROVE TypeOK'
  OBVIOUS
<1>0. /\ HistoryOK /\ TemplatesOK /\ HandlersOK /\ IndexOK
      /\ lost \subseteq Ids \X Jsons
      /\ \A h \in Handlers : req[h].id \in Ids
      /\ \A h \in Handlers : pc[h] # "idle" => Pair(h) \in Ids \X Jsons
  BY DEF TypeOK, HandlersOK, Requests, Pair
<1>1. ASSUME NEW prompt \in Prompts, CreateHistory(prompt) PROVE TypeOK'
  <2> DEFINE new == [id |-> created.history + 1, prompt |-> prompt,
                     status |-> "generated", final_json |-> NoJson]
  <2>1. new \in HistoryRows /\ new.id = created.history + 1
    BY <1>0, PromptsAssumption DEF HistoryOK, HistoryRows, Ids
  <2>2. history' = history \cup {new} /\ created' = [created EXCEPT !.history = @ + 1]
    BY <1>1 DEF CreateHistory
  <2> HIDE DEF new
  <2>3. \A r \in history : r.id \in Nat /\ r.id <= created.history
    BY <1>0 DEF HistoryOK, HistoryRows, Ids
  <2>4. HistoryOK'
    BY <1>0, <2>1, <2>2, <2>3 DEF HistoryOK
  <2>5. QED BY <1>0, <1>1, <2>2, <2>4 DEF CreateHistory, TypeOK, HistoryOK, TemplatesOK, HandlersOK, IndexOK
<1>2. ASSUME NEW r \in history, DeleteHistory(r.id) PROVE TypeOK'
  BY <1>0, <1>2 DEF DeleteHistory, TypeOK, HistoryOK, TemplatesOK, HandlersOK, IndexOK
<1>3. ASSUME NEW h \in Handlers, NEW r \in history, NEW json \in Jsons,
             NEW titled \in BOOLEAN, AdoptFind(h, r, json, titled)
      PROVE  TypeOK'
  <2> DEFINE new == [id |-> r.id, prompt |-> r.prompt, json |-> json, titled |-> titled]
  <2>1. new \in Requests /\ new.json \in Jsons
    BY <1>0 DEF HistoryOK, HistoryRows, Requests
  <2>2. req' = [req EXCEPT ![h] = new] /\ pc' = [pc EXCEPT ![h] = "update"]
    BY <1>3 DEF AdoptFind
  <2> HIDE DEF new
  <2>3. HandlersOK'
    BY <1>0, <2>1, <2>2 DEF HandlersOK
  <2>4. QED BY <1>0, <1>3, <2>3 DEF AdoptFind, TypeOK, HistoryOK, TemplatesOK, IndexOK
<1>4. ASSUME NEW h \in Handlers, AdoptUpdate(h) PROVE TypeOK'
  <2>1. req[h].json \in Jsons
    BY <1>0, <1>4 DEF AdoptUpdate, HandlersOK
  <2>2. HistoryOK'
    BY <1>0, <1>4, <2>1, AdoptKeepsHistory DEF AdoptUpdate
  <2>3. HandlersOK'
    BY <1>0, <1>4 DEF AdoptUpdate, HandlersOK
  <2>4. QED BY <1>0, <1>4, <2>2, <2>3 DEF AdoptUpdate, TypeOK, TemplatesOK, IndexOK
<1>5. ASSUME NEW h \in Handlers,
             AdoptUpdateFails(h) \/ AdoptPanic(h) \/ AdoptInsertFails(h) \/ Disconnect(h)
      PROVE  TypeOK'
  <2>1. HandlersOK'
    BY <1>0, <1>5, FinishedOK DEF AdoptUpdateFails, AdoptPanic, AdoptInsertFails, Disconnect
  <2>2. lost' \subseteq Ids \X Jsons
    BY <1>0, <1>5 DEF AdoptUpdateFails, AdoptPanic, AdoptInsertFails, Disconnect
  <2>3. QED BY <1>0, <1>5, <2>1, <2>2 DEF AdoptUpdateFails, AdoptPanic, AdoptInsertFails,
           Disconnect, TypeOK, HistoryOK, TemplatesOK, IndexOK
<1>6. ASSUME NEW h \in Handlers, AdoptInsert(h) PROVE TypeOK'
  <2> DEFINE new == [id |-> created.templates + 1, source_history_id |-> req[h].id,
                     amis_json |-> req[h].json]
  <2>1. new \in TemplateRows /\ new.id = created.templates + 1
    BY <1>0, <1>6 DEF AdoptInsert, HandlersOK, HistoryOK, Requests, TemplateRows, Ids
  <2>2. /\ created' = [created EXCEPT !.templates = @ + 1]
        /\ templates' = templates \cup {new} /\ posts' \subseteq posts \cup {new.id}
        /\ unindexed' \subseteq unindexed \cup {new.id}
        /\ lost' \subseteq lost
        /\ UNCHANGED <<history, embedded, indexing>>
    BY <1>6 DEF AdoptInsert, Inserted
  <2> HIDE DEF new
  <2>3. \A t \in templates : t.id \in Nat /\ t.id <= created.templates
    BY <1>0 DEF TemplatesOK, TemplateRows, Ids
  <2>4. TemplatesOK'
    BY <1>0, <2>1, <2>2, <2>3 DEF TemplatesOK, HistoryOK
  <2>5. HandlersOK'
    BY <1>0, <1>6, FinishedOK DEF AdoptInsert
  <2>6. HistoryOK'
    BY <1>0, <2>2 DEF HistoryOK
  <2>7. IndexOK'
    BY <1>0, <2>2 DEF IndexOK
  <2>8. QED BY <1>0, <2>2, <2>4, <2>5, <2>6, <2>7 DEF TypeOK
<1>7. ASSUME NEW t, \/ t \in posts /\ (IndexStart(t) \/ PostLost(t))
                    \/ t \in indexing /\ (IndexDone(t) \/ IndexFails(t))
      PROVE  TypeOK'
  BY <1>0, <1>7 DEF IndexStart, PostLost, IndexDone, IndexFails, TypeOK, HistoryOK,
     TemplatesOK, HandlersOK, IndexOK
<1>8. CASE BackendRestart \/ AgentRestart
  <2>1. HandlersOK'
    BY <1>0, <1>8, NoRequestType DEF BackendRestart, AgentRestart, HandlersOK
  <2>2. lost' \subseteq Ids \X Jsons
    BY <1>0, <1>8 DEF BackendRestart, AgentRestart
  <2>3. QED BY <1>0, <1>8, <2>1, <2>2 DEF BackendRestart, AgentRestart, TypeOK, HistoryOK,
           TemplatesOK, IndexOK
<1>9. CASE UNCHANGED vars
  BY <1>0, <1>9 DEF vars, TypeOK, HistoryOK, TemplatesOK, HandlersOK, IndexOK
<1>10. QED
  BY <1>1, <1>2, <1>3, <1>4, <1>5, <1>6, <1>7, <1>8, <1>9 DEF Next, HandlerStep

\* Types, unique serial ids, and no index work for a template that is not there.
THEOREM TypeCorrect == Spec => []TypeOK
<1>1. QED BY InitTypeOK, NextTypeOK, PTL DEF Spec

-----------------------------------------------------------------------------
\* Marking a record adopted takes no record away and unmarks none.
LEMMA AdoptMarks ==
  ASSUME HistoryOK, NEW id, NEW json, history' = MarkAdopted(id, json)
  PROVE  /\ \A q \in history : \E r \in history' :
              r.id = q.id /\ (q.status = "adopted" => r.status = "adopted")
         /\ \A r \in history' : \/ r \in history /\ r.id # id
                                \/ /\ r.id = id /\ r.status = "adopted"
                                   /\ r.final_json = json
                                   /\ \E q \in history : q.id = id /\ r.prompt = q.prompt
<1> DEFINE Row(r) == IF r.id = id
                     THEN [r EXCEPT !.status = "adopted", !.final_json = json] ELSE r
<1>1. history' = {Row(r) : r \in history}
  BY DEF MarkAdopted
<1>2. \A q \in history :
        /\ Row(q).id = q.id
        /\ q.status = "adopted" => Row(q).status = "adopted"
        /\ \/ Row(q) = q /\ q.id # id
           \/ /\ Row(q).id = id /\ Row(q).status = "adopted" /\ Row(q).final_json = json
              /\ q.id = id /\ Row(q).prompt = q.prompt
  BY DEF HistoryOK, HistoryRows
<1> HIDE DEF Row
<1>3. ASSUME NEW q \in history
      PROVE  \E r \in history' :
               r.id = q.id /\ (q.status = "adopted" => r.status = "adopted")
  <2>1. Row(q) \in history'
    BY <1>1
  <2>2. QED BY <1>2, <2>1
<1>4. ASSUME NEW r \in history'
      PROVE  \/ r \in history /\ r.id # id
             \/ /\ r.id = id /\ r.status = "adopted" /\ r.final_json = json
                /\ \E q \in history : q.id = id /\ r.prompt = q.prompt
  <2>1. PICK q \in history : r = Row(q)
    BY <1>1
  <2>2. QED BY <1>2, <2>1
<1>5. QED BY <1>3, <1>4

LEMMA NextSourceInv == SourceInv /\ [Next]_vars => SourceInv'
<1> SUFFICES ASSUME SourceInv, [Next]_vars PROVE SourceInv'
  OBVIOUS
<1>0. /\ TypeOK' /\ Marked /\ TemplateHasAdoptedSource
      /\ HistoryOK /\ TemplatesOK /\ HandlersOK
  BY NextTypeOK DEF SourceInv, TypeOK
<1>a. /\ created.history \in Nat
      /\ \A r \in history : r.id \in Nat /\ r.id <= created.history
      /\ \A h \in Handlers : req[h].id \in Nat
  BY <1>0 DEF HistoryOK, HistoryRows, HandlersOK, Requests, Ids
<1>1. ASSUME NEW prompt \in Prompts, CreateHistory(prompt) PROVE SourceInv'
  <2>1. \E new : new.id = created.history + 1 /\ history' = history \cup {new}
    BY <1>1 DEF CreateHistory
  <2>2. created'.history = created.history + 1 /\ UNCHANGED <<templates, pc, req>>
    BY <1>0, <1>1 DEF CreateHistory, HistoryOK
  <2>3. Marked'
    BY <1>0, <1>a, <2>1, <2>2 DEF Marked
  <2>4. TemplateHasAdoptedSource'
    BY <1>0, <2>1, <2>2 DEF TemplateHasAdoptedSource
  <2>5. QED BY <1>0, <2>3, <2>4 DEF SourceInv
<1>2. ASSUME NEW r \in history, DeleteHistory(r.id) PROVE SourceInv'
  <2>1. TemplateHasAdoptedSource'
    BY <1>0, <1>2 DEF DeleteHistory, HasTemplate, TemplateHasAdoptedSource
  <2>2. QED BY <1>0, <1>2, <2>1 DEF DeleteHistory, Marked, SourceInv
<1>3. ASSUME NEW h \in Handlers, NEW r \in history, NEW json \in Jsons,
             NEW titled \in BOOLEAN, AdoptFind(h, r, json, titled)
      PROVE  SourceInv'
  <2>1. /\ \A g \in Handlers : g # h => pc'[g] = pc[g] /\ req'[g] = req[g]
        /\ pc'[h] = "update" /\ req'[h].id = r.id
        /\ UNCHANGED <<history, templates, created>>
    BY <1>0, <1>3 DEF AdoptFind, HandlersOK
  <2>2. QED BY <1>0, <1>a, <2>1 DEF Marked, TemplateHasAdoptedSource, SourceInv
<1>4. ASSUME NEW h \in Handlers, AdoptUpdate(h) PROVE SourceInv'
  <2>1. /\ \A q \in history : \E r \in history' :
             r.id = q.id /\ (q.status = "adopted" => r.status = "adopted")
        /\ \A r \in history' : r \in history \/ r.status = "adopted"
        /\ \A r \in history' : r.id = req[h].id => r.status = "adopted"
    <3>1. history' = MarkAdopted(req[h].id, req[h].json)
      BY <1>4 DEF AdoptUpdate
    <3>2. /\ \A q \in history : \E r \in history' :
               r.id = q.id /\ (q.status = "adopted" => r.status = "adopted")
          /\ \A r \in history' : \/ r \in history /\ r.id # req[h].id
                                 \/ r.id = req[h].id /\ r.status = "adopted"
      BY <1>0, <3>1, AdoptMarks
    <3>3. QED BY <3>2
  <2>2. /\ UNCHANGED <<templates, created, req>>
        /\ \A g \in Handlers : g # h => pc'[g] = pc[g]
        /\ pc[h] = "update" /\ pc'[h] = "insert"
    BY <1>0, <1>4 DEF AdoptUpdate, HandlersOK
  <2>3. Marked'
    BY <1>0, <2>1, <2>2 DEF Marked
  <2>4. TemplateHasAdoptedSource'
    BY <1>0, <2>1, <2>2 DEF TemplateHasAdoptedSource
  <2>5. QED BY <1>0, <2>3, <2>4 DEF SourceInv
<1>5. ASSUME NEW h \in Handlers,
             AdoptUpdateFails(h) \/ AdoptPanic(h) \/ AdoptInsertFails(h) \/ Disconnect(h)
      PROVE  SourceInv'
  BY <1>0, <1>5 DEF AdoptUpdateFails, AdoptPanic, AdoptInsertFails, Disconnect, Finish,
     HandlersOK, Marked, TemplateHasAdoptedSource, SourceInv
<1>6. ASSUME NEW h \in Handlers, AdoptInsert(h) PROVE SourceInv'
  <2>1. /\ \A g \in Handlers : g # h => pc'[g] = pc[g] /\ req'[g] = req[g]
        /\ pc[h] = "insert" /\ pc'[h] = "idle" /\ history' = history
        /\ created'.history = created.history
    BY <1>0, <1>6 DEF AdoptInsert, Finish, HandlersOK, HistoryOK
  <2>2. \A t \in templates' :
          \/ t \in templates
          \/ Exists(req[h].id) /\ t.source_history_id = req[h].id
    <3> DEFINE new == [id |-> created.templates + 1, source_history_id |-> req[h].id,
                       amis_json |-> req[h].json]
    <3>1. new.source_history_id = req[h].id
      OBVIOUS
    <3>2. Exists(req[h].id) /\ templates' = templates \cup {new}
      BY <1>6 DEF AdoptInsert, Inserted
    <3> HIDE DEF new
    <3>3. QED BY <3>1, <3>2
  <2>3. Marked'
    BY <1>0, <2>1 DEF Marked
  <2>4. TemplateHasAdoptedSource'
    BY <1>0, <2>1, <2>2 DEF Marked, Exists, TemplateHasAdoptedSource
  <2>5. QED BY <1>0, <2>3, <2>4 DEF SourceInv
<1>7. ASSUME NEW t, \/ IndexStart(t) \/ PostLost(t)
                    \/ IndexDone(t) \/ IndexFails(t)
      PROVE  SourceInv'
  BY <1>0, <1>7 DEF IndexStart, PostLost, IndexDone, IndexFails, Marked,
     TemplateHasAdoptedSource, SourceInv
<1>8. CASE BackendRestart \/ AgentRestart
  BY <1>0, <1>8 DEF BackendRestart, AgentRestart, Marked, TemplateHasAdoptedSource, SourceInv
<1>9. CASE UNCHANGED vars
  BY <1>0, <1>9 DEF vars, Marked, TemplateHasAdoptedSource, SourceInv
<1>10. QED
  BY <1>1, <1>2, <1>3, <1>4, <1>5, <1>6, <1>7, <1>8, <1>9 DEF Next, HandlerStep

\* Every template comes from a record that exists and is marked adopted, through
\* any deletions, panics, disconnections and restarts: adopt_history marks first
\* and inserts afterwards, and the foreign key keeps the record.
THEOREM SourceHolds == Spec => []TemplateHasAdoptedSource
<1>1. Init => SourceInv
  BY InitTypeOK DEF Init, SourceInv, Marked, TemplateHasAdoptedSource
<1>2. SourceInv => TemplateHasAdoptedSource
  BY DEF SourceInv
<1>3. QED BY <1>1, <1>2, NextSourceInv, PTL DEF Spec

-----------------------------------------------------------------------------
\* What keeps the final JSON of adopted records where it is: no record changes,
\* no template goes, nothing lost is forgotten and every handler that gives up
\* adds its own.
LEMMA LibraryKept ==
  ASSUME AdoptedIsInLibrary, history' \subseteq history, templates \subseteq templates',
         lost \subseteq lost',
         \A h \in Handlers : pc[h] = "insert" =>
           (pc'[h] = "insert" /\ req'[h] = req[h]) \/ Pair(h) \in lost'
  PROVE  AdoptedIsInLibrary'
BY DEF AdoptedIsInLibrary, InLibrary, Pair

\* What keeps the prompts the handlers know.
LEMMA PromptsKept ==
  ASSUME PromptsKnown, history' \subseteq history,
         \A h \in Handlers : pc'[h] = "idle" \/ (pc[h] # "idle" /\ req'[h] = req[h])
  PROVE  PromptsKnown'
BY DEF PromptsKnown

LEMMA NextLibraryInv == LibraryInv /\ [Next]_vars => LibraryInv'
<1> SUFFICES ASSUME LibraryInv, [Next]_vars PROVE LibraryInv'
  OBVIOUS
<1>0. /\ SourceInv' /\ Marked /\ PromptsKnown /\ AdoptedIsInLibrary
      /\ HistoryOK /\ TemplatesOK /\ HandlersOK
  BY NextSourceInv DEF LibraryInv, SourceInv, TypeOK
<1>a. /\ created.history \in Nat
      /\ \A r \in history : r.id \in Nat /\ r.id <= created.history
      /\ \A h \in Handlers : req[h].id \in Nat
  BY <1>0 DEF HistoryOK, HistoryRows, HandlersOK, Requests, Ids
<1>1. ASSUME NEW prompt \in Prompts, CreateHistory(prompt) PROVE LibraryInv'
  <2>1. \E new : /\ new.id = created.history + 1 /\ new.status = "generated"
                /\ history' = history \cup {new}
    BY <1>1 DEF CreateHistory
  <2>2. UNCHANGED <<templates, pc, req, lost>>
    BY <1>1 DEF CreateHistory
  <2>3. PromptsKnown'
    BY <1>0, <1>a, <2>1, <2>2 DEF Marked, PromptsKnown
  <2>4. AdoptedIsInLibrary'
    BY <1>0, <2>1, <2>2 DEF AdoptedIsInLibrary, InLibrary
  <2>5. QED BY <1>0, <2>3, <2>4 DEF LibraryInv
<1>2. ASSUME NEW r \in history, DeleteHistory(r.id) PROVE LibraryInv'
  BY <1>0, <1>2, LibraryKept, PromptsKept DEF DeleteHistory, LibraryInv
<1>3. ASSUME NEW h \in Handlers, NEW r \in history, NEW json \in Jsons,
             NEW titled \in BOOLEAN, AdoptFind(h, r, json, titled)
      PROVE  LibraryInv'
  <2>1. /\ \A g \in Handlers : g # h => pc'[g] = pc[g] /\ req'[g] = req[g]
        /\ pc[h] = "idle" /\ req'[h].id = r.id /\ req'[h].prompt = r.prompt
        /\ UNCHANGED <<history, templates, lost>>
    BY <1>0, <1>3 DEF AdoptFind, HandlersOK
  <2>2. PromptsKnown'
    BY <1>0, <2>1 DEF PromptsKnown, HistoryOK
  <2>3. \A g \in Handlers : pc[g] = "insert" => pc'[g] = "insert" /\ req'[g] = req[g]
    BY <2>1
  <2>4. AdoptedIsInLibrary'
    BY <1>0, <2>1, <2>3, LibraryKept
  <2>5. QED BY <1>0, <2>2, <2>4 DEF LibraryInv
<1>4. ASSUME NEW h \in Handlers, AdoptUpdate(h) PROVE LibraryInv'
  <2>1. /\ history' = MarkAdopted(req[h].id, req[h].json)
        /\ UNCHANGED <<templates, req, lost>>
        /\ \A g \in Handlers : g # h => pc'[g] = pc[g]
        /\ pc[h] = "update" /\ pc'[h] = "insert"
    BY <1>0, <1>4 DEF AdoptUpdate, HandlersOK
  <2>2. \A r \in history' :
          \/ r \in history /\ r.id # req[h].id
          \/ /\ r.id = req[h].id /\ r.final_json = req[h].json
             /\ \E q \in history : q.id = r.id /\ r.prompt = q.prompt
    <3>1. \A r \in history' :
            \/ r \in history /\ r.id # req[h].id
            \/ /\ r.id = req[h].id /\ r.status = "adopted" /\ r.final_json = req[h].json
               /\ \E q \in history : q.id = req[h].id /\ r.prompt = q.prompt
      BY <1>0, <2>1, AdoptMarks
    <3>2. QED BY <3>1
  <2>3. PromptsKnown'
    BY <1>0, <2>1, <2>2 DEF PromptsKnown
  <2>4. AdoptedIsInLibrary'
    <3>1. \A r : InLibrary(r) => InLibrary(r)'
      BY <2>1 DEF InLibrary
    <3>2. \A r \in history' : r.id = req[h].id => InLibrary(r)'
      BY <2>1, <2>2 DEF InLibrary
    <3>3. QED BY <1>0, <2>1, <2>2, <3>1, <3>2 DEF AdoptedIsInLibrary
  <2>5. QED BY <1>0, <2>3, <2>4 DEF LibraryInv
<1>b. ASSUME NEW h \in Handlers, AdoptUpdateFails(h) PROVE LibraryInv'
  <2>1. /\ \A g \in Handlers : g # h => pc'[g] = pc[g] /\ req'[g] = req[g]
        /\ pc[h] = "update" /\ pc'[h] = "idle"
        /\ UNCHANGED <<history, templates, lost>>
    BY <1>0, <1>b DEF AdoptUpdateFails, Finish, HandlersOK
  <2>2. \A g \in Handlers : pc[g] = "insert" => pc'[g] = "insert" /\ req'[g] = req[g]
    BY <2>1
  <2>3. \A g \in Handlers : pc'[g] = "idle" \/ (pc[g] # "idle" /\ req'[g] = req[g])
    BY <2>1
  <2>4. QED BY <1>0, <2>1, <2>2, <2>3, LibraryKept, PromptsKept DEF LibraryInv
<1>5. ASSUME NEW h \in Handlers, AdoptPanic(h) PROVE LibraryInv'
  <2>1. /\ \A g \in Handlers : g # h => pc'[g] = pc[g] /\ req'[g] = req[g]
        /\ pc[h] = "insert" /\ pc'[h] = "idle" /\ req[h].prompt = "unsliceable"
        /\ UNCHANGED <<history, templates, lost>>
    BY <1>0, <1>5 DEF AdoptPanic, TitlePanics, Finish, HandlersOK
  <2>2. PromptsKnown'
    BY <1>0, <2>1, PromptsKept
  <2>3. \A r \in history : r.prompt # "unsliceable" => r.id # req[h].id
    BY <1>0, <2>1 DEF PromptsKnown
  <2>4. AdoptedIsInLibrary'
    BY <1>0, <2>1, <2>3 DEF AdoptedIsInLibrary, InLibrary
  <2>5. QED BY <1>0, <2>2, <2>4 DEF LibraryInv
<1>6. ASSUME NEW h \in Handlers, AdoptInsert(h) PROVE LibraryInv'
  <2> DEFINE new == [id |-> created.templates + 1, source_history_id |-> req[h].id,
                     amis_json |-> req[h].json]
  <2>1. new.source_history_id = req[h].id /\ new.amis_json = req[h].json
    OBVIOUS
  <2>2. templates' = templates \cup {new} /\ lost' = lost \ {Pair(h)} /\ history' = history
    BY <1>6 DEF AdoptInsert, Inserted
  <2>3. /\ \A g \in Handlers : g # h => pc'[g] = pc[g] /\ req'[g] = req[g]
        /\ pc'[h] = "idle"
    BY <1>0, <1>6 DEF AdoptInsert, Finish, HandlersOK
  <2> HIDE DEF new
  <2>4. PromptsKnown'
    BY <1>0, <2>2, <2>3 DEF PromptsKnown
  <2>5. ASSUME NEW r \in history, InLibrary(r) \/ <<r.id, r.final_json>> = Pair(h)
        PROVE  InLibrary(r)'
    <3>1. CASE req[h].id = r.id /\ req[h].json = r.final_json
      BY <2>1, <2>2, <3>1 DEF InLibrary
    <3>2. CASE ~(req[h].id = r.id /\ req[h].json = r.final_json)
      BY <2>2, <2>3, <2>5, <3>2 DEF InLibrary, Pair
    <3>3. QED BY <3>1, <3>2
  <2>6. AdoptedIsInLibrary'
    BY <1>0, <2>2, <2>5 DEF AdoptedIsInLibrary
  <2>7. QED BY <1>0, <2>4, <2>6 DEF LibraryInv
<1>7. ASSUME NEW h \in Handlers, AdoptInsertFails(h) \/ Disconnect(h) PROVE LibraryInv'
  <2>1. /\ \A g \in Handlers : g # h => pc'[g] = pc[g] /\ req'[g] = req[g]
        /\ pc'[h] = "idle" /\ UNCHANGED <<history, templates>>
        /\ lost \subseteq lost'
        /\ pc[h] = "insert" => Pair(h) \in lost'
    BY <1>0, <1>7 DEF AdoptInsertFails, Disconnect, Finish, HandlersOK
  <2>2. PromptsKnown'
    BY <1>0, <2>1 DEF PromptsKnown
  <2>3. \A g \in Handlers : pc[g] = "insert" =>
          (pc'[g] = "insert" /\ req'[g] = req[g]) \/ Pair(g) \in lost'
    BY <2>1
  <2>4. AdoptedIsInLibrary'
    BY <1>0, <1>7, <2>1, <2>3, LibraryKept DEF AdoptInsertFails, Disconnect
  <2>5. QED BY <1>0, <2>2, <2>4 DEF LibraryInv
<1>8. ASSUME NEW t, \/ IndexStart(t) \/ PostLost(t)
                    \/ IndexDone(t) \/ IndexFails(t)
      PROVE  LibraryInv'
  <2>1. UNCHANGED <<history, templates, pc, req, lost>>
    BY <1>8 DEF IndexStart, PostLost, IndexDone, IndexFails
  <2>2. QED BY <1>0, <2>1 DEF PromptsKnown, AdoptedIsInLibrary, InLibrary, LibraryInv
<1>9. CASE BackendRestart
  <2>1. /\ \A h \in Handlers : pc'[h] = "idle"
        /\ \A h \in Handlers : pc[h] = "insert" => Pair(h) \in lost'
        /\ lost \subseteq lost' /\ UNCHANGED <<history, templates>>
    BY <1>9 DEF BackendRestart
  <2>2. PromptsKnown'
    BY <2>1 DEF PromptsKnown
  <2>3. AdoptedIsInLibrary'
    BY <1>0, <2>1, LibraryKept
  <2>4. QED BY <1>0, <2>2, <2>3 DEF LibraryInv
<1>10. CASE AgentRestart \/ UNCHANGED vars
  BY <1>0, <1>10 DEF AgentRestart, vars, PromptsKnown, AdoptedIsInLibrary, InLibrary, LibraryInv
<1>11. QED
  BY <1>1, <1>2, <1>3, <1>4, <1>b, <1>5, <1>6, <1>7, <1>8, <1>9, <1>10 DEF Next, HandlerStep

\* For any number of records, adoptions and pages: a record marked adopted whose
\* prompt can be cut for its title has its final JSON in the library or on the
\* way there, unless the last adoption of that page ended between its two
\* statements; adopting it again repairs it (adopt_history).
THEOREM AdoptionReachesLibrary == Spec => []AdoptedIsInLibrary
<1>1. Init => LibraryInv
  BY InitTypeOK DEF Init, LibraryInv, SourceInv, Marked, TemplateHasAdoptedSource,
     PromptsKnown, AdoptedIsInLibrary
<1>2. LibraryInv => AdoptedIsInLibrary
  BY DEF LibraryInv
<1>3. QED BY <1>1, <1>2, NextLibraryInv, PTL DEF Spec
=============================================================================
