-------------------------- MODULE AdoptionPipeline --------------------------
(***************************************************************************)
(* From a generated page to the template library and its vector index:     *)
(* the tables generation_history and amis_templates, the handlers of       *)
(* backend/src/handlers/history.rs, the task adopt_history spawns, and the *)
(* agent's index_template (agent/src/services/rag.py).                     *)
(*                                                                         *)
(* adopt_history marks the record, then builds a title, then inserts the   *)
(* template, then spawns the request that has the template indexed; no     *)
(* transaction spans its statements.  The only thing that matters of a     *)
(* prompt is what `&prompt[..50]` does with it.                            *)
(***************************************************************************)
EXTENDS Naturals

CONSTANTS
  Handlers,     \* adopt_history requests that may be under way at once
  Prompts,      \* the kinds of prompts that occur, a subset of PromptKinds
  Jsons,        \* amis JSON documents
  NoJson,       \* final_json IS NULL
  MaxHistory,   \* bound on the history ids handed out
  MaxTemplates  \* bound on the template ids handed out

\* At most 50 bytes; longer with a character boundary at byte 50; longer with
\* byte 50 inside a character, as in most Chinese text.
PromptKinds == {"short", "sliceable", "unsliceable"}

ASSUME PromptsAssumption == Prompts \subseteq PromptKinds
ASSUME NoJsonAssumption == NoJson \notin Jsons
ASSUME BoundsAssumption == MaxHistory \in Nat /\ MaxTemplates \in Nat

VARIABLES
  history,    \* rows of generation_history
  templates,  \* rows of amis_templates
  embedded,   \* ids of the templates whose embedding is set
  created,    \* the serials behind the two id columns
  pc,         \* where each adopt_history handler is
  req,        \* its locals: the record's id and prompt, and the payload
  posts,      \* spawned POSTs of /internal/index not yet received by the agent
  indexing,   \* index_template calls of the agent waiting for an embedding
  lost,       \* for checking: what was marked adopted and never inserted since:
              \* the record's id and the final JSON
  unindexed   \* for checking: templates whose index request was lost or failed

vars == <<history, templates, embedded, created, pc, req, posts, indexing, lost, unindexed>>

-----------------------------------------------------------------------------
Ids == Nat \ {0}

HistoryRows == [id : Ids, prompt : PromptKinds, status : {"generated", "adopted"},
                final_json : Jsons \cup {NoJson}]

TemplateRows == [id : Ids, source_history_id : Ids, amis_json : Jsons]

\* id, user_prompt of the record found; final_json and the presence of a title
\* in the payload.
Requests == [id : Ids, prompt : PromptKinds, json : Jsons \cup {NoJson}, titled : BOOLEAN]

NoRequest == [id |-> 1, prompt |-> "short", json |-> NoJson, titled |-> FALSE]

Exists(id) == \E r \in history : r.id = id

HasTemplate(id) == \E t \in templates : t.source_history_id = id

\* `&prompt[..50]` panics: no title was sent and byte 50 is not a boundary.
TitlePanics(r) == ~r.titled /\ r.prompt = "unsliceable"

Init ==
  /\ history = {}
  /\ templates = {}
  /\ embedded = {}
  /\ created = [history |-> 0, templates |-> 0]
  /\ pc = [h \in Handlers |-> "idle"]
  /\ req = [h \in Handlers |-> NoRequest]
  /\ posts = {}
  /\ indexing = {}
  /\ lost = {}
  /\ unindexed = {}

-----------------------------------------------------------------------------
(* History records.                                                        *)

CreateHistory(prompt) ==
  /\ created.history < MaxHistory
  /\ created' = [created EXCEPT !.history = @ + 1]
  /\ history' = history \cup {[id |-> created.history + 1, prompt |-> prompt,
                               status |-> "generated", final_json |-> NoJson]}
  /\ UNCHANGED <<templates, embedded, pc, req, posts, indexing, lost, unindexed>>

\* Faulty variant: the foreign key does not restrict the delete.
DeleteHistoryUnrestricted(id) ==
  /\ Exists(id)
  /\ history' = {r \in history : r.id # id}
  /\ UNCHANGED <<templates, embedded, created, pc, req, posts, indexing, lost, unindexed>>

\* DELETE, whatever the status; the foreign key of amis_templates refuses it
\* while a template refers to the record.
DeleteHistory(id) ==
  /\ Exists(id)
  /\ ~HasTemplate(id)
  /\ history' = {r \in history : r.id # id}
  /\ UNCHANGED <<templates, embedded, created, pc, req, posts, indexing, lost, unindexed>>

-----------------------------------------------------------------------------
(* adopt_history.                                                          *)

Finish(h) ==
  /\ pc' = [pc EXCEPT ![h] = "idle"]
  /\ req' = [req EXCEPT ![h] = NoRequest]

\* The record is found; its status is not looked at.
AdoptFind(h, r, json, titled) ==
  /\ pc[h] = "idle"
  /\ r \in history
  /\ pc' = [pc EXCEPT ![h] = "update"]
  /\ req' = [req EXCEPT ![h] = [id |-> r.id, prompt |-> r.prompt, json |-> json,
                                titled |-> titled]]
  /\ UNCHANGED <<history, templates, embedded, created, posts, indexing, lost, unindexed>>

\* Faulty variant: the status is left as it was.
MarkAdoptedNoStatus(id, json) ==
  {IF r.id = id THEN [r EXCEPT !.final_json = json] ELSE r : r \in history}

\* Faulty variant: the final JSON is not recorded.
MarkAdoptedNoJson(id, json) ==
  {IF r.id = id THEN [r EXCEPT !.status = "adopted"] ELSE r : r \in history}

MarkAdopted(id, json) ==
  {IF r.id = id THEN [r EXCEPT !.status = "adopted", !.final_json = json] ELSE r
     : r \in history}

\* 1. status, final_json and adopted_at are set.
AdoptUpdate(h) ==
  /\ pc[h] = "update"
  /\ Exists(req[h].id)
  /\ history' = MarkAdopted(req[h].id, req[h].json)
  /\ pc' = [pc EXCEPT ![h] = "insert"]
  /\ UNCHANGED <<req, templates, embedded, created, posts, indexing, lost, unindexed>>

\* The UPDATE fails, because the row is gone or for any other reason.
AdoptUpdateFails(h) ==
  /\ pc[h] = "update"
  /\ Finish(h)
  /\ UNCHANGED history
  /\ UNCHANGED <<templates, embedded, created, posts, indexing, lost, unindexed>>

\* The handler panics between the two statements.
AdoptPanic(h) ==
  /\ pc[h] = "insert"
  /\ TitlePanics(req[h])
  /\ Finish(h)
  /\ UNCHANGED <<history, templates, embedded, created, posts, indexing, lost, unindexed>>

\* What handler h is about to insert: the record's id and its final JSON.
Pair(h) == <<req[h].id, req[h].json>>

Inserted(h) ==
  templates \cup {[id |-> created.templates + 1, source_history_id |-> req[h].id,
                   amis_json |-> req[h].json]}

\* Faulty variant: a record that has a template gets no second one.
AdoptInsertOnce(h) ==
  /\ pc[h] = "insert"
  /\ ~TitlePanics(req[h])
  /\ Exists(req[h].id)
  /\ created.templates < MaxTemplates
  /\ IF HasTemplate(req[h].id) THEN UNCHANGED <<created, templates, posts>>
     ELSE /\ created' = [created EXCEPT !.templates = @ + 1]
          /\ templates' = Inserted(h)
          /\ posts' = posts \cup {created.templates + 1}
  /\ lost' = lost \ {Pair(h)}
  /\ Finish(h)
  /\ UNCHANGED <<history, embedded, indexing, unindexed>>

\* Faulty variant: the template is not handed to the agent.
AdoptInsertNoPost(h) ==
  /\ pc[h] = "insert"
  /\ ~TitlePanics(req[h])
  /\ Exists(req[h].id)
  /\ created.templates < MaxTemplates
  /\ created' = [created EXCEPT !.templates = @ + 1]
  /\ templates' = Inserted(h)
  /\ lost' = lost \ {Pair(h)}
  /\ Finish(h)
  /\ UNCHANGED <<history, embedded, posts, indexing, unindexed>>

\* 2. The template is inserted; 3. the request to the agent is spawned and the
\* handler answers, without another await.  A client that disconnects while the
\* INSERT is answered takes step 3 away.
AdoptInsert(h) ==
  /\ pc[h] = "insert"
  /\ ~TitlePanics(req[h])
  /\ Exists(req[h].id)
  /\ created.templates < MaxTemplates
  /\ created' = [created EXCEPT !.templates = @ + 1]
  /\ templates' = Inserted(h)
  /\ \/ posts' = posts \cup {created.templates + 1} /\ UNCHANGED unindexed
     \/ unindexed' = unindexed \cup {created.templates + 1} /\ UNCHANGED posts
  /\ lost' = lost \ {Pair(h)}
  /\ Finish(h)
  /\ UNCHANGED <<history, embedded, indexing>>

\* The INSERT fails, by the foreign key if the record was deleted meanwhile, or
\* for any other reason: an error is answered, the record stays marked.  Whether
\* an id was drawn makes no difference.
AdoptInsertFails(h) ==
  /\ pc[h] = "insert"
  /\ ~TitlePanics(req[h])
  /\ lost' = lost \cup {Pair(h)}
  /\ Finish(h)
  /\ UNCHANGED <<history, templates, embedded, created, posts, indexing, unindexed>>

\* The client disconnects before the next statement: the handler is dropped.
Disconnect(h) ==
  /\ pc[h] # "idle"
  /\ Finish(h)
  /\ lost' = IF pc[h] = "insert" THEN lost \cup {Pair(h)} ELSE lost
  /\ UNCHANGED <<history, templates, embedded, created, posts, indexing, unindexed>>

-----------------------------------------------------------------------------
(* The index request, sent once.                                           *)

\* The agent receives the post and asks the embedding model.
IndexStart(t) ==
  /\ t \in posts
  /\ posts' = posts \ {t}
  /\ indexing' = indexing \cup {t}
  /\ UNCHANGED <<history, templates, embedded, created, pc, req, lost, unindexed>>

\* The agent cannot be reached; the result of the post is discarded.
PostLost(t) ==
  /\ t \in posts
  /\ posts' = posts \ {t}
  /\ unindexed' = unindexed \cup {t}
  /\ UNCHANGED <<history, templates, embedded, created, pc, req, indexing, lost>>

\* UPDATE amis_templates SET embedding.  A post that timed out after 30 s does
\* not stop the agent's call.
IndexDone(t) ==
  /\ t \in indexing
  /\ indexing' = indexing \ {t}
  /\ embedded' = embedded \cup {t}
  /\ UNCHANGED <<history, templates, created, pc, req, posts, lost, unindexed>>

\* The embedding model or the database fails: index_template returns False.
IndexFails(t) ==
  /\ t \in indexing
  /\ indexing' = indexing \ {t}
  /\ unindexed' = unindexed \cup {t}
  /\ UNCHANGED <<history, templates, embedded, created, pc, req, posts, lost>>

BackendRestart ==
  /\ pc' = [h \in Handlers |-> "idle"]
  /\ req' = [h \in Handlers |-> NoRequest]
  /\ posts' = {}
  /\ lost' = lost \cup {Pair(h) : h \in {g \in Handlers : pc[g] = "insert"}}
  /\ unindexed' = unindexed \cup posts
  /\ UNCHANGED <<history, templates, embedded, created, indexing>>

AgentRestart ==
  /\ indexing' = {}
  /\ unindexed' = unindexed \cup indexing
  /\ UNCHANGED <<history, templates, embedded, created, pc, req, posts, lost>>

-----------------------------------------------------------------------------
HandlerStep(h) ==
  \/ AdoptUpdate(h)
  \/ AdoptUpdateFails(h)
  \/ AdoptPanic(h)
  \/ AdoptInsert(h)
  \/ AdoptInsertFails(h)

Next ==
  \/ \E prompt \in Prompts : CreateHistory(prompt)
  \/ \E r \in history : DeleteHistory(r.id)
  \/ \E h \in Handlers :
       \/ \E r \in history, json \in Jsons, titled \in BOOLEAN : AdoptFind(h, r, json, titled)
       \/ HandlerStep(h)
       \/ Disconnect(h)
  \/ \E t \in posts : IndexStart(t) \/ PostLost(t)
  \/ \E t \in indexing : IndexDone(t) \/ IndexFails(t)
  \/ BackendRestart
  \/ AgentRestart

Spec == Init /\ [][Next]_vars

\* tokio runs every handler and spawned task, the agent's event loop every
\* request; calls over the network end, by their time limits if not before.
Fairness ==
  /\ \A h \in Handlers : WF_vars(HandlerStep(h))
  /\ \A t \in 1..MaxTemplates :
       WF_vars(IndexStart(t) \/ PostLost(t)) /\ WF_vars(IndexDone(t) \/ IndexFails(t))

FairSpec == Spec /\ Fairness

-----------------------------------------------------------------------------
(* Properties.                                                             *)

HistoryOK ==
  /\ created \in [history : Nat, templates : Nat]
  /\ history \subseteq HistoryRows
  /\ \A r, s \in history : r.id = s.id => r = s
  /\ \A r \in history : r.id <= created.history

TemplatesOK ==
  /\ templates \subseteq TemplateRows
  /\ \A t, u \in templates : t.id = u.id => t = u
  /\ \A t \in templates : t.id <= created.templates

HandlersOK ==
  /\ pc \in [Handlers -> {"idle", "update", "insert"}]
  /\ req \in [Handlers -> Requests]
  /\ \A h \in Handlers : pc[h] # "idle" => req[h].json \in Jsons

IndexOK ==
  \A t \in posts \cup indexing \cup embedded \cup unindexed : \E u \in templates : u.id = t

TypeOK == HistoryOK /\ TemplatesOK /\ HandlersOK /\ IndexOK /\ lost \subseteq Ids \X Jsons

\* Whatever is deleted, lost or restarted while adoptions are under way, every
\* template of the library comes from a record that still exists and is marked
\* adopted (adopt_history, delete_history).
TemplateHasAdoptedSource ==
  \A t \in templates : \E r \in history : r.id = t.source_history_id /\ r.status = "adopted"

\* Why: a handler between its two statements has marked its record, unless the
\* record is gone, and a record that is gone does not get its id back.
Marked ==
  \A h \in Handlers : pc[h] # "idle" =>
    /\ req[h].id <= created.history
    /\ pc[h] = "insert" => \A r \in history : r.id = req[h].id => r.status = "adopted"

SourceInv == TypeOK /\ Marked /\ TemplateHasAdoptedSource

\* A record's final JSON is in the library, or a handler is about to put it there.
InLibrary(r) ==
  \/ \E t \in templates : t.source_history_id = r.id /\ t.amis_json = r.final_json
  \/ \E h \in Handlers : pc[h] = "insert" /\ req[h].id = r.id /\ req[h].json = r.final_json

\* Two statements mark a record adopted and put its page into the library, and
\* anything may end an adoption between them: a disconnection, a restart, a
\* failed INSERT.  That is all that keeps the page of a marked record out of the
\* library, whatever else overlaps, and it is repaired as soon as the page is
\* adopted again (adopt_history).  Of a prompt that cannot be cut for a title
\* AdoptingAddsToLibrary speaks.
AdoptedIsInLibrary ==
  \A r \in history :
    r.status = "adopted" /\ <<r.id, r.final_json>> \notin lost /\ r.prompt # "unsliceable" =>
      InLibrary(r)

\* Why: a handler knows the prompt of its record.
PromptsKnown ==
  \A h \in Handlers : pc[h] # "idle" =>
    \A r \in history : r.id = req[h].id => r.prompt = req[h].prompt

LibraryInv == SourceInv /\ PromptsKnown /\ AdoptedIsInLibrary

\* "Adopting adds to the knowledge base", whatever the prompt (adopt_history).
AdoptingAddsToLibrary ==
  \A r \in history :
    r.status = "adopted" /\ <<r.id, r.final_json>> \notin lost => InLibrary(r)

\* Every template is indexed in the end, unless the one request for it is lost
\* or fails (the task adopt_history spawns, index_template).
EveryTemplateIndexed ==
  \A t \in 1..MaxTemplates :
    (\E u \in templates : u.id = t) ~> t \in embedded \/ t \in unindexed
=============================================================================
