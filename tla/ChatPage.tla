------------------------------ MODULE ChatPage ------------------------------
(***************************************************************************)
(* The chat page (frontend/src/views/Chat/index.tsx): the callbacks Chat   *)
(* hands to ProChat, and the requests they make to the history API         *)
(* (backend/src/handlers/history.rs).                                      *)
(*                                                                         *)
(* The page keeps what belongs to a generation in refs that all            *)
(* generations share.  ProChat, a library, sends a message only after the  *)
(* previous generation ended, but does not wait for onChatEnd: saving a    *)
(* result and adopting one go on while the next is generated, and their    *)
(* answers arrive in any order.                                            *)
(*                                                                         *)
(* The i-th message is answered by the i-th generation: i is its prompt,   *)
(* its message id and its document.  0 is no document.                     *)
(***************************************************************************)
EXTENDS Naturals, Sequences

CONSTANT
  MaxGenerations  \* bound on the messages the user sends

ASSUME BoundAssumption == MaxGenerations \in Nat

VARIABLES
  generation,  \* messages sent so far
  chat,        \* is a generation under way?
  lastPrompt,  \* lastPromptRef.current
  pending,     \* pendingResultRef.current: its amisJson
  currentJson, \* the document in the preview
  extra,       \* extraDataRef.current, by message
  saving,      \* createHistory calls of onChatEnd not yet answered
  adopting,    \* adoptHistory calls of handleAdopt not yet answered
  rows         \* generation_history; the id of a row is its position

vars == <<generation, chat, lastPrompt, pending, currentJson, extra, saving, adopting, rows>>

-----------------------------------------------------------------------------
Messages == 1..MaxGenerations

Documents == 0..MaxGenerations

\* historyId and adopted; nothing reads the prompt kept with them.
Extras == [historyId : Nat \ {0}, adopted : BOOLEAN]

\* The payload of createHistory, and the id in its answer once it has one.
Saves == [message : Messages, prompt : Messages, json : Messages, id : Nat]

\* The payload of adoptHistory, the extra it was read from, and has it been
\* handled?
Adoptions == [message : Messages, extra : Extras, json : Messages, stored : BOOLEAN]

\* user_prompt, generated_json, and final_json: 0 while the status is generated.
HistoryRows == [prompt : Messages, json : Messages, final : Documents]

Init ==
  /\ generation = 0
  /\ chat = "idle"
  /\ lastPrompt = 0
  /\ pending = 0
  /\ currentJson = 0
  /\ extra = <<>>
  /\ saving = {}
  /\ adopting = {}
  /\ rows = <<>>

-----------------------------------------------------------------------------
(* A generation.                                                           *)

\* Faulty variant: the result of the generation before is not reset.
RequestKeepingResult ==
  /\ chat = "idle"
  /\ generation < MaxGenerations
  /\ chat' = "generating"
  /\ generation' = generation + 1
  /\ lastPrompt' = generation + 1
  /\ UNCHANGED <<pending, currentJson, extra, saving, adopting, rows>>

\* request: the refs are set for the new generation, the stream is opened.
Request ==
  /\ chat = "idle"
  /\ generation < MaxGenerations
  /\ chat' = "generating"
  /\ generation' = generation + 1
  /\ lastPrompt' = generation + 1
  /\ pending' = 0
  /\ UNCHANGED <<currentJson, extra, saving, adopting, rows>>

\* transformSSEStream reads the done event of the generation.
ResultArrives ==
  /\ chat = "generating"
  /\ pending' = generation
  /\ UNCHANGED <<generation, chat, lastPrompt, currentJson, extra, saving, adopting, rows>>

\* Faulty variant: onChatEnd goes on without a document.
OnChatEndUnchecked ==
  /\ chat = "generating"
  /\ chat' = "idle"
  /\ currentJson' = pending
  /\ saving' = saving \cup
       {[message |-> generation, prompt |-> lastPrompt, json |-> pending, id |-> 0]}
  /\ UNCHANGED <<generation, lastPrompt, pending, extra, adopting, rows>>

\* onChatEnd up to its await: the document, if there is one, is shown and
\* createHistory called.
OnChatEnd ==
  /\ chat = "generating"
  /\ chat' = "idle"
  /\ IF pending = 0
     THEN UNCHANGED <<currentJson, saving>>
     ELSE /\ currentJson' = pending
          /\ saving' = saving \cup
               {[message |-> generation, prompt |-> lastPrompt, json |-> pending, id |-> 0]}
  /\ UNCHANGED <<generation, lastPrompt, pending, extra, adopting, rows>>

\* request throws, or the stream fails: ProChat shows an error instead.
RequestFails ==
  /\ chat = "generating"
  /\ chat' = "idle"
  /\ UNCHANGED <<generation, lastPrompt, pending, currentJson, extra, saving, adopting, rows>>

-----------------------------------------------------------------------------
(* Saving it.                                                              *)

\* create_history inserts the row.
SaveStored(s) ==
  /\ s.id = 0
  /\ rows' = Append(rows, [prompt |-> s.prompt, json |-> s.json, final |-> 0])
  /\ saving' = (saving \ {s}) \cup {[s EXCEPT !.id = Len(rows) + 1]}
  /\ UNCHANGED <<generation, chat, lastPrompt, pending, currentJson, extra, adopting>>

Put(m, x) == [n \in DOMAIN extra \cup {m} |-> IF n = m THEN x ELSE extra[n]]

\* Faulty variant: the id is noted for the message that is latest by then.
SaveAnsweredForLatest(s) ==
  /\ s.id # 0
  /\ extra' = Put(generation, [historyId |-> s.id, adopted |-> FALSE])
  /\ saving' = saving \ {s}
  /\ UNCHANGED <<generation, chat, lastPrompt, pending, currentJson, adopting, rows>>

\* onChatEnd after its await.
SaveAnswered(s) ==
  /\ s.id # 0
  /\ extra' = Put(s.message, [historyId |-> s.id, adopted |-> FALSE])
  /\ saving' = saving \ {s}
  /\ UNCHANGED <<generation, chat, lastPrompt, pending, currentJson, adopting, rows>>

\* The request or its answer is lost, late, or refused: nothing is noted.  (To
\* the page a call handled after its time limit is one whose answer is lost.)
SaveFails(s) ==
  /\ saving' = saving \ {s}
  /\ UNCHANGED <<generation, chat, lastPrompt, pending, currentJson, extra, adopting, rows>>

-----------------------------------------------------------------------------
(* Adopting it.                                                            *)

\* handleAdopt up to its await, for a message that shows the button.  Nothing
\* disables the button until the answer: it may be pressed again.
HandleAdopt(m) ==
  /\ ~extra[m].adopted
  /\ currentJson # 0
  /\ adopting' = adopting \cup
       {[message |-> m, extra |-> extra[m], json |-> currentJson, stored |-> FALSE]}
  /\ UNCHANGED <<generation, chat, lastPrompt, pending, currentJson, extra, saving, rows>>

\* adopt_history updates the row.
AdoptStored(a) ==
  /\ ~a.stored
  /\ rows' = [rows EXCEPT ![a.extra.historyId].final = a.json]
  /\ adopting' = (adopting \ {a}) \cup {[a EXCEPT !.stored = TRUE]}
  /\ UNCHANGED <<generation, chat, lastPrompt, pending, currentJson, extra, saving>>

\* handleAdopt after its await: the message is marked adopted.
AdoptAnswered(a) ==
  /\ a.stored
  /\ extra' = Put(a.message, [a.extra EXCEPT !.adopted = TRUE])
  /\ adopting' = adopting \ {a}
  /\ UNCHANGED <<generation, chat, lastPrompt, pending, currentJson, saving, rows>>

\* The request or its answer is lost, late, or refused: the page reports that
\* adopting failed.
AdoptFails(a) ==
  /\ adopting' = adopting \ {a}
  /\ UNCHANGED <<generation, chat, lastPrompt, pending, currentJson, extra, saving, rows>>

-----------------------------------------------------------------------------
Next ==
  \/ Request \/ ResultArrives \/ OnChatEnd \/ RequestFails
  \/ \E s \in saving : SaveStored(s) \/ SaveAnswered(s) \/ SaveFails(s)
  \/ \E m \in DOMAIN extra : HandleAdopt(m)
  \/ \E a \in adopting : AdoptStored(a) \/ AdoptAnswered(a) \/ AdoptFails(a)

Spec == Init /\ [][Next]_vars

-----------------------------------------------------------------------------
(* Properties.                                                             *)

TypeOK ==
  /\ generation \in Documents
  /\ chat \in {"idle", "generating"}
  /\ lastPrompt \in Documents
  /\ pending \in Documents
  /\ currentJson \in Documents
  /\ DOMAIN extra \subseteq Messages
  /\ extra \in [DOMAIN extra -> Extras]
  /\ saving \subseteq Saves
  /\ adopting \subseteq Adoptions
  /\ rows \in Seq(HistoryRows)

\* A history record holds the prompt and the document of one generation, also
\* when generations fail, saves overlap and the refs have moved on (request,
\* onChatEnd, create_history).
RowIsOneGeneration == \A i \in DOMAIN rows : rows[i].json = rows[i].prompt

\* However late the answers come, the record a message adopts is its own
\* (onChatEnd, handleAdopt).
ExtraIsOwnRow ==
  \A m \in DOMAIN extra :
    extra[m].historyId \in DOMAIN rows /\ rows[extra[m].historyId].prompt = m

\* A message that says it was adopted has a record that was (handleAdopt,
\* adopt_history).
AdoptedIsRecorded ==
  \A m \in DOMAIN extra :
    extra[m].adopted => extra[m].historyId \in DOMAIN rows /\ rows[extra[m].historyId].final # 0

\* Why: the refs are those of the latest generation, and a call carries on what
\* was true of the page when it was made.
RefsOfLatest ==
  /\ lastPrompt = generation
  /\ pending \in {0, generation}
  /\ chat = "generating" => generation # 0

CallsCarryOn ==
  /\ \A s \in saving :
       /\ s.message = s.prompt /\ s.message = s.json
       /\ s.id # 0 => s.id \in DOMAIN rows /\ rows[s.id].prompt = s.message
  /\ \A a \in adopting :
       /\ a.extra.historyId \in DOMAIN rows /\ rows[a.extra.historyId].prompt = a.message
       /\ a.stored => rows[a.extra.historyId].final # 0

PageInv ==
  TypeOK /\ RowIsOneGeneration /\ ExtraIsOwnRow /\ AdoptedIsRecorded /\ RefsOfLatest
  /\ CallsCarryOn

\* Adopting the result of a message adopts that result (handleAdopt).
AdoptsItsOwnResult == \A i \in DOMAIN rows : rows[i].final \in {0, rows[i].json}
=============================================================================
