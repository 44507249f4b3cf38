-------------------------- MODULE GenerationStream --------------------------
(***************************************************************************)
(* One streamed generation: stream_generate of the agent                   *)
(* (agent/src/routers/generate.py) turns the chunks of the language model  *)
(* into server-sent events, and transformSSEStream of the chat page        *)
(* (frontend/src/views/Chat/index.tsx) turns the bytes that arrive back    *)
(* into text for the reply and a result for the page.                      *)
(*                                                                         *)
(* The bytes arrive in pieces that respect neither lines nor events.  A    *)
(* line is one symbol here, its newline another, and a data line has two,  *)
(* its head and its tail, so that a piece can end inside it; a symbol tells*)
(* of which event it is and of which place in it.  The i-th piece of       *)
(* content of the model is the number i, the full content is how many there*)
(* were.                                                                   *)
(***************************************************************************)
EXTENDS Naturals, Sequences

CONSTANTS
  MaxChunks, \* bound on the chunks of the language model
  MaxRead    \* bound on the symbols one read() of the browser returns

ASSUME BoundsAssumption == MaxChunks \in Nat /\ MaxRead \in Nat \ {0}

VARIABLES
  agent,     \* where stream_generate is
  chunks,    \* chunks of the language model handled so far
  full,      \* full_content
  wire,      \* symbols sent and not yet read
  sseBuffer, \* sseBuffer of transformSSEStream
  shown,     \* what was enqueued for the reply
  result,    \* pendingResultRef.current
  reader     \* is the transformed stream open, closed, or failed?

vars == <<agent, chunks, full, wire, sseBuffer, shown, result, reader>>

-----------------------------------------------------------------------------
(* Events and their bytes.                                                 *)

Meta == [kind |-> "meta", n |-> 0]
Content(i) == [kind |-> "content", n |-> i]
Done(n) == [kind |-> "done", n |-> n]
Error == [kind |-> "error", n |-> 0]

\* `event: ...` and a newline (1, 2) for all but content, the two halves of
\* `data: ...` and its newline (3, 4, 5), and an empty line (6).
FirstOf(e) == IF e.kind = "content" THEN 3 ELSE 1
Frame(e) == [i \in 1..7 - FirstOf(e) |-> [of |-> e, at |-> FirstOf(e) + i - 1]]
IsNewline(b) == b.at \in {2, 5, 6}

\* pendingResultRef.current: null is the same as an empty amisJson and no
\* model to all that reads it.
NoResult == [amisJson |-> 0, modelUsed |-> FALSE]

Init ==
  /\ agent = "config"
  /\ chunks = 0
  /\ full = 0
  /\ wire = <<>>
  /\ sseBuffer = <<>>
  /\ shown = <<>>
  /\ result = NoResult
  /\ reader = "open"

-----------------------------------------------------------------------------
(* The agent: stream_generate.                                             *)

Yield(e) == wire' = wire \o Frame(e)

\* get_llm_config answered: the meta event.
SendMeta ==
  /\ agent = "config"
  /\ agent' = "stream"
  /\ Yield(Meta)
  /\ UNCHANGED <<chunks, full, sseBuffer, shown, result, reader>>

ContentChunk ==
  /\ agent = "stream"
  /\ chunks < MaxChunks
  /\ chunks' = chunks + 1
  /\ full' = full + 1
  /\ Yield(Content(full + 1))
  /\ UNCHANGED <<agent, sseBuffer, shown, result, reader>>

\* A chunk that reports an error, has no choices or no content, or is no JSON:
\* nothing is sent, and the stream goes on.
IgnoredChunk ==
  /\ agent = "stream"
  /\ chunks < MaxChunks
  /\ chunks' = chunks + 1
  /\ UNCHANGED <<agent, full, wire, sseBuffer, shown, result, reader>>

\* Faulty variant: a failure after some content is answered with the document
\* made of what there is.
RaiseKeepingContent ==
  /\ agent \in {"config", "stream"}
  /\ agent' = "error"
  /\ Yield(IF full = 0 THEN Error ELSE Done(full))
  /\ UNCHANGED <<chunks, full, sseBuffer, shown, result, reader>>

\* get_llm_config or the model's API fails, or a chunk has an unexpected shape:
\* `except Exception` sends an error event, whatever was sent before.
Raise ==
  /\ agent \in {"config", "stream"}
  /\ agent' = "error"
  /\ Yield(Error)
  /\ UNCHANGED <<chunks, full, sseBuffer, shown, result, reader>>

\* The model's stream ends: done with what there is, error if there is nothing.
EndOfStream ==
  /\ agent = "stream"
  /\ IF full = 0
     THEN agent' = "error" /\ Yield(Error)
     ELSE agent' = "done" /\ Yield(Done(full))
  /\ UNCHANGED <<chunks, full, sseBuffer, shown, result, reader>>

\* The agent dies or its connection breaks: what had not reached the browser
\* yet is gone.
Die ==
  /\ agent' = IF agent \in {"done", "cut"} THEN "cut" ELSE "dead"
  /\ \E n \in 0..Len(wire) : wire' = SubSeq(wire, 1, n)
  /\ UNCHANGED <<chunks, full, sseBuffer, shown, result, reader>>

-----------------------------------------------------------------------------
(* The browser: transformSSEStream.                                        *)

\* A line that starts with `data: ` and whose rest JSON.parse accepts.
IsData(line) ==
  /\ Len(line) = 2
  /\ line[1].at = 3
  /\ line[2] = [line[1] EXCEPT !.at = 4]

\* processSSELines for one line; s holds the line, shown and result.  Lines that
\* are no data, and events that are neither content, result nor meta, are skipped.
Process(s) ==
  LET e == s.line[1].of
  IN IF ~IsData(s.line) THEN s
     ELSE CASE e.kind = "content" -> [s EXCEPT !.shown = Append(@, e.n)]
            [] e.kind = "done" -> [s EXCEPT !.result = [amisJson |-> e.n, modelUsed |-> TRUE]]
            [] e.kind = "meta" -> [s EXCEPT !.result.modelUsed = TRUE]
            [] OTHER -> s

\* split('\n'): a newline ends a line, which is processed, and begins the next.
Take(s, b) ==
  IF IsNewline(b) THEN [Process(s) EXCEPT !.line = <<>>]
  ELSE [s EXCEPT !.line = Append(@, b)]

Buffered == [line |-> sseBuffer, shown |-> shown, result |-> result]

\* After n more symbols; the last line is not over and stays.
Split(n) ==
  LET taken[k \in 0..n] == IF k = 0 THEN Buffered ELSE Take(taken[k - 1], wire[k])
  IN taken[n]

Became(s) == sseBuffer' = s.line /\ shown' = s.shown /\ result' = s.result

\* Faulty variant: the last, unfinished line is processed with the others.
ReadWithoutBuffer(n) ==
  /\ reader = "open"
  /\ n \in 1..Len(wire)
  /\ Became([Process(Split(n)) EXCEPT !.line = <<>>])
  /\ wire' = SubSeq(wire, n + 1, Len(wire))
  /\ UNCHANGED <<agent, chunks, full, reader>>

\* Faulty variant: the unfinished line is processed and kept as well.
ReadKeepingAll(n) ==
  /\ reader = "open"
  /\ n \in 1..Len(wire)
  /\ Became(Process(Split(n)))
  /\ wire' = SubSeq(wire, n + 1, Len(wire))
  /\ UNCHANGED <<agent, chunks, full, reader>>

\* reader.read() returned n symbols: every line that is over is processed, the
\* last one is kept for the next time.
Read(n) ==
  /\ reader = "open"
  /\ n \in 1..Len(wire)
  /\ Became(Split(n))
  /\ wire' = SubSeq(wire, n + 1, Len(wire))
  /\ UNCHANGED <<agent, chunks, full, reader>>

\* reader.read() returned done: what is left in the buffer is processed.
ReadDone ==
  /\ reader = "open"
  /\ agent \notin {"config", "stream"}
  /\ wire = <<>>
  /\ Became(Process(Buffered))
  /\ reader' = "closed"
  /\ UNCHANGED <<agent, chunks, full, wire>>

\* reader.read() throws: the connection broke.
ReadFails ==
  /\ reader = "open"
  /\ reader' = "failed"
  /\ UNCHANGED <<agent, chunks, full, wire, sseBuffer, shown, result>>

-----------------------------------------------------------------------------
AgentStep == SendMeta \/ ContentChunk \/ IgnoredChunk \/ Raise \/ EndOfStream

BrowserStep == (\E n \in 1..MaxRead : Read(n)) \/ ReadDone

Next == AgentStep \/ Die \/ BrowserStep \/ ReadFails

Spec == Init /\ [][Next]_vars

\* The agent's loop ends with the model's stream, which its time limit ends if
\* nothing else does; the browser reads as long as there is something to read.
Fairness == WF_vars(AgentStep) /\ WF_vars(BrowserStep)

FairSpec == Spec /\ Fairness

-----------------------------------------------------------------------------
(* Properties.                                                             *)

\* However the bytes are cut into pieces and wherever the stream breaks, the
\* reply is a prefix of what the model said: nothing is lost, repeated or
\* reordered (transformSSEStream, processSSELines).
ShownIsPrefix == Len(shown) <= full /\ shown = [i \in 1..Len(shown) |-> i]

\* The stream is a Reply: what it promises does not mention bytes.
ReplyOf == INSTANCE Reply WITH
  said <- full,
  over <- IF agent \in {"config", "stream"} THEN "no"
          ELSE IF agent \in {"done", "cut"} THEN "done" ELSE "failed",
  shown <- Len(shown),
  offered <- result.amisJson

ImplementsReply == ReplyOf!Spec

\* Unless the connection breaks, a generation that is done is shown in full and
\* its document offered (stream_generate, transformSSEStream).
DoneGivesResult ==
  agent = "done" ~>
    \/ reader = "closed" /\ result.amisJson = full /\ Len(shown) = full
    \/ agent = "cut"
    \/ reader = "failed"

-----------------------------------------------------------------------------
(* Why: the frames are on their way in the order in which they were sent,  *)
(* and the last symbol that was read tells what the browser has made of the*)
(* bytes so far.                                                           *)

Start == [kind |-> "start", n |-> 0]
Before == [of |-> Start, at |-> 6]

Events ==
  {Meta, Error} \cup {Content(i) : i \in 1..full}
  \cup (IF agent \in {"done", "cut"} THEN {Done(full)} ELSE {})

Symbols == {b \in [of : Events, at : 1..6] : b.at >= FirstOf(b.of)}

\* c comes right after b.
Follows(b, c) ==
  IF b.at < 6 THEN c = [of |-> b.of, at |-> b.at + 1]
  ELSE /\ c.at = FirstOf(c.of)
       /\ \/ c.of = Meta /\ b.of.kind = "start"
          \/ c.of = Content(b.of.n + 1) /\ b.of.kind \in {"meta", "content"}
          \/ c.of = Done(b.of.n) /\ b.of.kind = "content"
          \/ c.of = Error /\ b.of.kind \in {"start", "meta", "content"}

\* Having read up to b: the line begun, the content of the frames before b (and
\* of b's own, once its data line is over), and the result if that was over.
LineOf(b) ==
  IF b.at \in {1, 3} THEN <<b>>
  ELSE IF b.at = 4 THEN <<[of |-> b.of, at |-> 3], b>> ELSE <<>>
Upto(b) == IF b.of.kind = "content" /\ b.at < 5 THEN b.of.n - 1 ELSE b.of.n
Prefix(s) == Len(s) <= full /\ s = [i \in 1..Len(s) |-> i]
HasRead(s, b) ==
  /\ s.line = LineOf(b)
  /\ Prefix(s.shown)
  /\ b.of.kind # "error" => Len(s.shown) = Upto(b)
  /\ s.result.amisJson = IF b.of.kind = "done" /\ b.at >= 5 THEN b.of.n ELSE 0

\* b was read last: what is on its way follows, up to what the agent sent last.
LastSent(b) == IF wire = <<>> THEN b ELSE wire[Len(wire)]
InOrder(b) ==
  /\ wire # <<>> => Follows(b, wire[1])
  /\ \A k \in 1..Len(wire) - 1 : Follows(wire[k], wire[k + 1])
  /\ agent = "config" => LastSent(b) = Before
  /\ agent = "stream" =>
       LastSent(b) = [of |-> IF full = 0 THEN Meta ELSE Content(full), at |-> 6]

TypeOK ==
  /\ agent \in {"config", "stream", "done", "error", "dead", "cut"}
  /\ chunks \in Nat /\ full \in Nat
  /\ wire \in Seq(Symbols) /\ sseBuffer \in Seq(Symbols)
  /\ shown \in Seq(Nat) /\ result \in [amisJson : Nat, modelUsed : BOOLEAN]
  /\ reader \in {"open", "closed", "failed"}
  /\ agent = "config" => full = 0
  /\ agent \in {"done", "cut"} => full > 0

\* A document is offered only of all that was said, and after all of it.
OfferIsWhole ==
  result.amisJson # 0 =>
    agent \in {"done", "cut"} /\ result.amisJson = full /\ Len(shown) = full

StreamInv ==
  /\ TypeOK /\ ShownIsPrefix /\ OfferIsWhole
  /\ reader = "closed" => agent \notin {"config", "stream"}
  /\ reader = "open" => \E b \in Symbols \cup {Before} : HasRead(Buffered, b) /\ InOrder(b)
=============================================================================
