------------------------------ MODULE ApiStream ------------------------------
(***************************************************************************)
(* One request to a model provider, from the first attempt to the events a *)
(* turn is made of.  The client sends until it is answered, as long as the *)
(* errors are retryable; StreamState turns the chunks of an OpenAI-style   *)
(* stream into blocks (Anthropic sends blocks itself); the reader, the CLI *)
(* or a sub-agent, collects the tool calls of the blocks.  The CLI sends a *)
(* request once more when nothing comes after a tool result; a sub-agent   *)
(* goes on to the next provider of its chain.  A stream without content is *)
(* asked for again as one answer.                                          *)
(***************************************************************************)
EXTENDS Integers, FiniteSets, Sequences

CONSTANTS MaxCalls,       \* bound: tool calls of one message
          Fragments,      \* pieces in which the input of a call arrives
          MaxProviders,   \* bound: the primary provider and its fallbacks
          MaxRetries      \* max_retries (8 in the code)
ASSUME ApiAssumption ==
  /\ MaxCalls \in Nat /\ Fragments \in Nat \ {0}
  /\ MaxProviders \in Nat \ {0} /\ MaxRetries \in Nat

VARIABLES
  ask,     \* the request: who makes it, of which provider, for which time
  wire,    \* what the provider means to say and what it has said of it
  blocks,  \* StreamState
  heard    \* what the reader made of the events: its locals
apiVars == <<ask, wire, blocks, heard>>

Calls == 1..MaxCalls
Input(from, to) == [k \in 1..(to - from + 1) |-> from + k - 1]
Whole == Input(1, Fragments)
NoTool == [call |-> 0, input |-> <<>>]

\* A message of nothing, of text, of tool calls or of both; in a stream of the
\* OpenAI kind the name of a call may follow the first piece of its input.
Silence == [calls |-> 0, text |-> FALSE, saidText |-> FALSE, said |-> [i \in Calls |-> 0],
            nameAt |-> 1, finished |-> FALSE]
NoBlocks == [opened |-> FALSE, text |-> FALSE, named |-> {}, started |-> {}, stopped |-> {},
             emitted |-> [i \in Calls |-> 0]]
Unheard == [pending |-> [i \in 0..MaxCalls |-> NoTool], calls |-> <<>>, text |-> FALSE,
            stop |-> FALSE]

\* anthropic: the provider's protocol; nudges: re-sendings of the CLI; postTool:
\* the conversation ends with a tool result; cut: the stream ended early.
ApiInit ==
  /\ ask \in [reader : {"cli", "agent"}, anthropic : BOOLEAN, postTool : BOOLEAN,
              chain : 1..MaxProviders, provider : {1}, attempts : {0}, nudges : {0},
              mode : {"stream"}, pc : {"send"}, cut : {FALSE}]
  /\ ask.reader = "cli" => ask.chain = 1
  /\ wire = Silence /\ blocks = NoBlocks /\ heard = Unheard

(***************************************************************************)
(* The reader: consume_stream (CLI) and stream_with_provider (sub-agent).  *)
(* A sub-agent keeps a pending tool for each block, the CLI one for all.   *)
(***************************************************************************)
Event(kind, index) == [kind |-> kind, index |-> index, input |-> <<>>]
\* Faulty variant: one pending tool for every reader.
OneSlot(index) == 0
Slot(index) == IF ask.reader = "cli" THEN 0 ELSE index
Hear(h, event) ==
  LET slot == Slot(event.index)
      pending == h.pending[slot]
  IN CASE event.kind = "start" ->
            [h EXCEPT !.pending[slot] = [NoTool EXCEPT !.call = event.index]]
       [] event.kind = "input" /\ pending # NoTool ->
            [h EXCEPT !.pending[slot].input = @ \o event.input]
       [] event.kind = "stop" /\ pending # NoTool ->
            [h EXCEPT !.pending[slot] = NoTool, !.calls = Append(@, pending)]
       [] event.kind = "text" -> [h EXCEPT !.text = TRUE]
       [] event.kind = "end" -> [h EXCEPT !.stop = TRUE]
       [] OTHER -> h
\* The reader's loop over the events.
HearAll(h, events) ==
  LET hearing[k \in 0..Len(events)] == IF k = 0 THEN h ELSE Hear(hearing[k - 1], events[k])
  IN hearing[Len(events)]
Hears(events) == heard' = HearAll(heard, events)

(***************************************************************************)
(* StreamState: the events of a chunk.                                     *)
(***************************************************************************)
\* ToolCallState::apply, start_event and delta_event.
Named(b, i, k) == i \in b.named \/ k >= wire.nameAt
CallBlocks(b, i, k) ==
  IF ~Named(b, i, k) THEN b
  ELSE [b EXCEPT !.named = @ \cup {i}, !.started = @ \cup {i}, !.emitted[i] = k]
CallEvents(b, i, k) ==
  IF ~Named(b, i, k) THEN <<>>
  ELSE (IF i \in b.started THEN <<>> ELSE <<Event("start", i)>>)
       \o <<[Event("input", i) EXCEPT !.input = Input(b.emitted[i] + 1, k)]>>
\* The blocks that are open are stopped in the order of their indices.
StopEvents(b) ==
  LET open == b.started \ b.stopped
  IN [k \in 1..Cardinality(open) |->
        Event("stop", CHOOSE i \in open : Cardinality({j \in open : j < i}) = k - 1)]
\* StreamState::finish; the text block has index 0.
Finish(b) ==
  (IF b.text THEN <<Event("stop", 0)>> ELSE <<>>) \o StopEvents(b)
  \o (IF b.opened THEN <<Event("end", 0)>> ELSE <<>>)

(***************************************************************************)
(* send_with_retry: max_retries + 1 attempts.                              *)
(***************************************************************************)
Sent == [ask EXCEPT !.attempts = @ + 1]
Streaming(c) == [c EXCEPT !.pc = "stream", !.attempts = 0]
\* The provider answers, and means to say this.
Replied(calls, text, nameAt) ==
  /\ ask.pc = "send" /\ ask.mode = "stream"
  /\ ask' = Streaming(Sent)
  /\ wire' = [Silence EXCEPT !.calls = calls, !.text = text, !.nameAt = nameAt]
  /\ blocks' = NoBlocks /\ heard' = Unheard
\* send_message; response_to_events gives every call with its input.
RepliedWhole(calls) ==
  /\ ask.pc = "send" /\ ask.mode = "single"
  /\ ask' = [Sent EXCEPT !.pc = "result"]
  /\ wire' = [Silence EXCEPT !.calls = calls]
  /\ heard' = [Unheard EXCEPT !.calls = [i \in 1..calls |-> [call |-> i, input |-> Whole]],
                              !.stop = TRUE]
  /\ UNCHANGED blocks

\* An error ends the request, or a sub-agent goes on to the next provider.
RequestFails(c, retryable) ==
  ask' = IF retryable /\ c.reader = "agent" /\ c.provider < c.chain
         THEN [c EXCEPT !.provider = @ + 1, !.attempts = 0, !.mode = "stream", !.pc = "send"]
         ELSE [c EXCEPT !.pc = "error"]
RequestRefused(retryable) ==
  /\ ask.pc = "send"
  /\ IF retryable /\ Sent.attempts <= MaxRetries THEN ask' = Sent
     ELSE RequestFails(Sent, retryable)
  /\ UNCHANGED <<wire, blocks, heard>>

(***************************************************************************)
(* The stream.  Chunks of an OpenAI stream carry pieces of several calls in*)
(* any order; Anthropic sends one block after the other.                   *)
(***************************************************************************)
InStream == ask.pc = "stream" /\ ~wire.finished
\* In the middle of the chunk that carries finish_reason "tool_calls".
Closing == ~wire.finished /\ blocks.stopped # {}
SaysText ==
  /\ InStream /\ ~Closing /\ wire.text /\ ~wire.saidText
  /\ wire' = [wire EXCEPT !.saidText = TRUE]
  /\ blocks' = [blocks EXCEPT !.opened = TRUE, !.text = TRUE]
  /\ Hears(<<Event("text", 0)>> \o (IF ask.anthropic THEN <<Event("stop", 0)>> ELSE <<>>))
  /\ UNCHANGED ask

SaysCall(i) ==
  LET k == wire.said[i] + 1
  IN /\ InStream /\ ~Closing /\ i <= wire.calls /\ k <= Fragments
     /\ wire' = [wire EXCEPT !.said[i] = k]
     /\ IF ask.anthropic
        THEN /\ wire.text => wire.saidText
             /\ \A j \in 1..(i - 1) : wire.said[j] = Fragments
             /\ Hears((IF k = 1 THEN <<Event("start", i)>> ELSE <<>>)
                        \o <<[Event("input", i) EXCEPT !.input = <<k>>]>>
                        \o (IF k = Fragments THEN <<Event("stop", i)>> ELSE <<>>))
             /\ UNCHANGED blocks
        ELSE /\ blocks' = [CallBlocks(blocks, i, k) EXCEPT !.opened = TRUE]
             /\ Hears(CallEvents(blocks, i, k))
     /\ UNCHANGED ask

\* The last piece of a call in the chunk that carries finish_reason "tool_calls":
\* the call is stopped at once, before those that are still open.  The chunk may
\* have the last pieces of several calls, one of each, in any order.
SaysLast(i) ==
  /\ InStream /\ ~ask.anthropic /\ wire.text = wire.saidText
  /\ i <= wire.calls /\ wire.said[i] = Fragments - 1
  /\ \A j \in 1..wire.calls : wire.said[j] >= Fragments - 1
  /\ wire' = [wire EXCEPT !.said[i] = Fragments]
  /\ blocks' = [CallBlocks(blocks, i, Fragments) EXCEPT !.opened = TRUE, !.stopped = @ \cup {i}]
  /\ Hears(CallEvents(blocks, i, Fragments) \o <<Event("stop", i)>>)
  /\ UNCHANGED ask

\* finish_reason; only "tool_calls" stops the blocks at once.  Anthropic's
\* message_delta and message_stop.
SaysFinish(toolCalls) ==
  /\ InStream /\ wire.text = wire.saidText /\ (Closing => toolCalls)
  /\ \A i \in 1..wire.calls : wire.said[i] = Fragments
  /\ wire' = [wire EXCEPT !.finished = TRUE]
  /\ IF ask.anthropic THEN Hears(<<Event("end", 0)>>) /\ UNCHANGED blocks
     ELSE IF toolCalls
     THEN /\ blocks' = [blocks EXCEPT !.opened = TRUE, !.stopped = @ \cup blocks.started]
          /\ Hears(StopEvents(blocks))
     ELSE blocks' = [blocks EXCEPT !.opened = TRUE] /\ UNCHANGED heard
  /\ UNCHANGED ask

\* The stream ends without an error, after the finish or before it.  Text and
\* calls make a message even without its end; nothing is asked for again.
StreamEnds ==
  /\ ask.pc = "stream" /\ ~Closing
  /\ LET last == IF ask.anthropic THEN heard ELSE HearAll(heard, Finish(blocks))
     IN /\ heard' = last
        /\ ask' = IF last.stop \/ last.text \/ last.calls # <<>>
                  THEN [ask EXCEPT !.pc = "result", !.cut = ~wire.finished]
                  ELSE [ask EXCEPT !.pc = "send", !.mode = "single"]
  /\ UNCHANGED <<wire, blocks>>
\* It breaks off with an error, one of the connection or of a frame.
Breaks(retryable) ==
  /\ ask.pc = "stream" /\ ~Closing
  /\ RequestFails([ask EXCEPT !.attempts = 0], retryable)
  /\ UNCHANGED <<wire, blocks, heard>>
\* POST_TOOL_STALL_TIMEOUT: nothing came; the CLI sends the request again, once.
Stalls ==
  /\ ask.pc = "stream" /\ ask.reader = "cli" /\ ask.postTool /\ ask.nudges = 0
  /\ wire.said = Silence.said /\ ~wire.saidText /\ ~wire.finished
  /\ ask' = [ask EXCEPT !.nudges = 1, !.pc = "send"]
  /\ UNCHANGED <<wire, blocks, heard>>

ApiNext ==
  \/ \E calls \in 0..MaxCalls :
       \/ \E text \in BOOLEAN, nameAt \in 1..Fragments : Replied(calls, text, nameAt)
       \/ RepliedWhole(calls)
  \/ \E retryable \in BOOLEAN : RequestRefused(retryable) \/ Breaks(retryable)
  \/ SaysText \/ StreamEnds \/ Stalls
  \/ \E i \in Calls : SaysCall(i) \/ SaysLast(i)
  \/ \E toolCalls \in BOOLEAN : SaysFinish(toolCalls)
ApiSpec == ApiInit /\ [][ApiNext]_apiVars

(***************************************************************************)
(* Properties                                                              *)
(***************************************************************************)
\* Every variable stays in its type.
ApiTypeOK ==
  /\ ask.pc \in {"send", "stream", "result", "error"} /\ ask.provider \in 1..ask.chain
  /\ ask.attempts \in 0..MaxRetries + 1
  /\ blocks.stopped \subseteq blocks.started /\ blocks.started \subseteq Calls
  /\ \A k \in DOMAIN heard.calls : heard.calls[k].call \in Calls

\* The calls 1..n in their order, and the calls of a set, each once, in any order.
HeardUpto(n) == [i \in 1..n |-> [call |-> i, input |-> Whole]]
EachOnce(calls, set) ==
  /\ {calls[k] : k \in DOMAIN calls} = {[call |-> i, input |-> Whole] : i \in set}
  /\ \A k, l \in DOMAIN calls : calls[k] = calls[l] => k = l

Delivered == ask.pc = "result" /\ ~ask.cut
\* A sub-agent hears every tool call of a stream that the provider ended, once and
\* with its whole input, in whatever order the pieces of the calls arrived, whenever
\* their names came, whichever of them came with the finish, and after any number
\* of failed attempts, of this provider or another.  From a provider of the
\* Anthropic kind the CLI hears them too, and both hear them in their order; one
\* of the OpenAI kind may turn the order round (SaysLast).
EveryCallIsHeard ==
  Delivered => /\ ask.reader = "agent" => EachOnce(heard.calls, 1..wire.calls)
               /\ ask.anthropic => heard.calls = HeardUpto(wire.calls)

\* PARITY.md:31 lists "Multi-tool assistant turns" as a behaviour of the CLI,
\* and openai_compat_integration.rs:139 has several calls in one stream: the
\* CLI hears every call of a stream, of either kind of provider.
CliHearsEveryCall ==
  Delivered /\ ask.reader = "cli" => EachOnce(heard.calls, 1..wire.calls)

(***************************************************************************)
(* Why: what has been said of each call decides what the reader holds of   *)
(* it.                                                                     *)
(***************************************************************************)
Part(i) == [call |-> i, input |-> Input(1, wire.said[i])]

SaidAll == \A i \in 1..wire.calls : wire.said[i] = Fragments

\* Anthropic: c calls are complete, and the next may be under way.
InTurn(c) ==
  /\ \A i \in Calls : /\ i <= c => wire.said[i] = Fragments
                      /\ i = c + 1 => wire.said[i] < Fragments
                      /\ i > c + 1 => wire.said[i] = 0
  /\ wire.text /\ ~wire.saidText => \A i \in Calls : wire.said[i] = 0
  /\ heard.calls = HeardUpto(c)
  /\ \A slot \in 0..MaxCalls :
       heard.pending[slot] =
         IF c + 1 \in Calls /\ wire.said[c + 1] # 0 /\ slot = Slot(c + 1) THEN Part(c + 1)
         ELSE NoTool

\* OpenAI and a sub-agent: each call that has its name and is not stopped is in
\* the slot of its own.
InSlots ==
  /\ blocks.started = {i \in Calls : wire.said[i] >= wire.nameAt}
  /\ blocks.named = blocks.started
  /\ \A i \in Calls : blocks.emitted[i] = IF i \in blocks.started THEN wire.said[i] ELSE 0
  /\ blocks.stopped \subseteq {i \in blocks.started : wire.said[i] = Fragments}
  /\ EachOnce(heard.calls, blocks.stopped)
  /\ \A slot \in 0..MaxCalls :
       heard.pending[slot] = IF slot \in blocks.started \ blocks.stopped THEN Part(slot)
                             ELSE NoTool

Tools == [call : 0..MaxCalls, input : Seq(Nat)]
HeardTypes == [pending : [0..MaxCalls -> Tools], calls : Seq(Tools), text : BOOLEAN,
               stop : BOOLEAN]
Requests == [reader : {"cli", "agent"}, anthropic : BOOLEAN, postTool : BOOLEAN,
             chain : 1..MaxProviders, provider : Nat, attempts : Nat, nudges : Nat,
             mode : {"stream", "single"}, pc : {"send", "stream", "result", "error"},
             cut : BOOLEAN]
Wires == [calls : 0..MaxCalls, text : BOOLEAN, saidText : BOOLEAN,
          said : [Calls -> 0..Fragments], nameAt : 1..Fragments, finished : BOOLEAN]
Blocks == [opened : BOOLEAN, text : BOOLEAN, named : SUBSET Calls, started : SUBSET Calls,
           stopped : SUBSET Calls, emitted : [Calls -> 0..Fragments]]
ApiTypes == ask \in Requests /\ wire \in Wires /\ blocks \in Blocks

StreamFits ==
  /\ \A i \in Calls : i > wire.calls => wire.said[i] = 0
  /\ wire.finished => SaidAll
  /\ ask.anthropic \/ ask.reader = "agent" => heard \in HeardTypes
  /\ ask.anthropic => \E c \in 0..wire.calls : InTurn(c)
  /\ ~ask.anthropic /\ ask.reader = "agent" => InSlots

ApiInv == ApiTypes /\ (ask.pc = "stream" => StreamFits) /\ EveryCallIsHeard
=============================================================================
