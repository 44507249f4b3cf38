---------------------------- MODULE ClawSession ----------------------------
(***************************************************************************)
(* Sessions of the claw command line: the conversation a process holds in  *)
(* memory and the files it keeps of it.  A turn appends every message to   *)
(* the session's file as it goes; when it ends, and after the commands that*)
(* change the session, the file is rewritten whole: a large file is first  *)
(* renamed to a rotated log, then the snapshot is put in place, then the   *)
(* oldest rotated logs are removed.  An error of a turn or of a command    *)
(* ends the program (run_repl propagates it), so the copy of the session a *)
(* turn works on is the only one that matters afterwards.  Processes share *)
(* the directory and nothing else: no lock is taken.                       *)
(***************************************************************************)
EXTENDS Integers, FiniteSets, Sequences, SequencesExt

CONSTANTS
  Procs,             \* claw processes in one workspace
  Names,             \* session identifiers, which also name the files
  MaxTurns,          \* bound: turns taken by all processes
  MaxUses,           \* bound: tool calls of one assistant message
  MaxCommands,       \* bound: slash commands and one-shot --resume commands
  MaxFaults,         \* bound: crashes and failing writes
  PreserveRecent,    \* preserve_recent_messages (4 in the code)
  RotateAfter,       \* messages that make a file reach ROTATE_AFTER_BYTES
  MaxRotatedFiles,   \* MAX_ROTATED_FILES (3 in the code)
  NoName
ASSUME SessionAssumption ==
  /\ NoName \notin Names /\ MaxUses \in Nat /\ PreserveRecent \in Nat \ {0}
  /\ MaxTurns \in Nat /\ RotateAfter \in Nat \ {0} /\ MaxRotatedFiles \in Nat

VARIABLES
  files,     \* the files of the sessions directory, the last written last
  cli,       \* the processes
  used,      \* names given to sessions so far
  turn,      \* turns started so far
  commands, faults, rotations,  \* what the bounds count
  done,      \* turns that were answered and saved, as the user was told
  gone,      \* turns in a file the user cleared or deleted
  shared,    \* names of files that two processes had open at once
  ranIn,     \* the session and the file each turn ran in
  inherits   \* turns a forked session began with
sessionVars == <<files, cli, used, turn, commands, faults, rotations, done, gone, shared,
                 ranIn, inherits>>

Turns == 1..MaxTurns
Message(role, ofTurns, uses) == [role |-> role, turns |-> ofTurns, uses |-> uses]
TurnsOf(msgs) == UNION {msgs[i].turns : i \in DOMAIN msgs}

(***************************************************************************)
(* compact_session                                                         *)
(***************************************************************************)
\* compacted_summary_prefix_len: an earlier summary stays the first message.
Prefix(msgs) == IF msgs # <<>> /\ msgs[1].role = "system" THEN 1 ELSE 0
ShouldCompact(msgs) == Len(msgs) - Prefix(msgs) > PreserveRecent
\* Faulty variant: whatever the first message kept is.
KeepFromRaw(msgs) == Len(msgs) - PreserveRecent
\* The messages removed end here: never between a tool call and its result.
KeepFrom(msgs) ==
  LET raw == Len(msgs) - PreserveRecent
  IN CHOOSE k \in Prefix(msgs)..raw :
       /\ k = Prefix(msgs) \/ msgs[k + 1].role # "tool"
       /\ \A j \in k + 1..raw : msgs[j + 1].role = "tool"
\* Faulty variant: the earlier summary is lost.
CompactedAnew(msgs) ==
  LET keep == KeepFrom(msgs)
  IN <<Message("system", TurnsOf(SubSeq(msgs, Prefix(msgs) + 1, keep)), {})>>
     \o SubSeq(msgs, keep + 1, Len(msgs))
\* The summary stands for what it replaces and for the summary before it.
Compacted(msgs) ==
  LET keep == KeepFrom(msgs)
  IN <<Message("system", TurnsOf(SubSeq(msgs, 1, keep)), {})>>
     \o SubSeq(msgs, keep + 1, Len(msgs))

(***************************************************************************)
(* Files.  A path is the session's name followed by the numbers of the     *)
(* rotations that renamed it.  torn: the last line is cut short, which     *)
(* load_from_path refuses.                                                 *)
(***************************************************************************)
File(path, id, msgs, compacted) ==
  [path |-> path, id |-> id, msgs |-> msgs, compacted |-> compacted, torn |-> FALSE]
Paths(fs) == {fs[i].path : i \in DOMAIN fs}
At(fs, path) == fs[CHOOSE i \in DOMAIN fs : fs[i].path = path]
\* Those of some paths, in the order they have.
OfPaths(fs, paths) ==
  LET kept[n \in 0..Len(fs)] ==
        IF n = 0 THEN <<>>
        ELSE IF fs[n].path \in paths THEN Append(kept[n - 1], fs[n]) ELSE kept[n - 1]
  IN kept[Len(fs)]
Without(fs, gonePaths) == OfPaths(fs, Paths(fs) \ gonePaths)
\* Faulty variant: the file that is there is not replaced.
WrittenBeside(fs, file) == Append(fs, file)
\* write_atomic: the snapshot replaces the file, or there is no file before it.
Written(fs, file) == Append(Without(fs, {file.path}), file)
\* rotate_session_file_if_needed; rename keeps the time of the last write.
Large(fs, path) == path \in Paths(fs) /\ Len(At(fs, path).msgs) >= RotateAfter
Rotated(fs, path, n) ==
  [i \in DOMAIN fs |-> IF fs[i].path = path THEN [fs[i] EXCEPT !.path = Append(path, n)]
                       ELSE fs[i]]
\* cleanup_rotated_logs: of the files named "<stem>.rot-...", the oldest ones.
Cleaned(fs, path) ==
  LET logs == OfPaths(fs, {q \in Paths(fs) : IsStrictPrefix(path, q)})
  IN Without(fs, {logs[i].path : i \in 1..(Len(logs) - MaxRotatedFiles)})

Snapshot(c) == File(c.path, c.id, c.msgs, c.compacted)
\* append_persisted_message: a missing file is written whole, else one line
\* is added (which a torn line swallows).
Appended(fs, c, msgs) ==
  IF c.log \notin Paths(fs)
  THEN Cleaned(Written(fs, File(c.log, c.id, msgs, c.compacted)), c.log)
  ELSE LET f == At(fs, c.log)
       IN Written(fs, IF f.torn THEN f ELSE [f EXCEPT !.msgs = Append(@, Last(msgs))])

(***************************************************************************)
(* Processes.  path is the file of LiveCli.session, log the persistence    *)
(* path of the session in memory.  pc: "idle" at the prompt; "request" a   *)
(* request is out; "tools" tool calls wait; "rotate", "write", "clean" the *)
(* steps of save_to_path; then is where they lead.                         *)
(***************************************************************************)
Off == [pc |-> "off", id |-> NoName, path |-> <<>>, log |-> <<>>, msgs |-> <<>>,
        compacted |-> FALSE, turn |-> 0, todo |-> {}, then |-> "off"]
Session(id, path, msgs, compacted) ==
  [Off EXCEPT !.id = id, !.path = path, !.log = path, !.msgs = msgs, !.compacted = compacted]
Saving(c, then) == [c EXCEPT !.pc = "rotate", !.then = then]

SessionInit ==
  /\ files = <<>> /\ cli = [p \in Procs |-> Off] /\ used = {} /\ turn = 0
  /\ commands = 0 /\ faults = 0 /\ rotations = 0
  /\ done = {} /\ gone = {} /\ shared = {}
  /\ ranIn = [t \in Turns |-> [id |-> NoName, path |-> <<>>]] /\ inherits = [n \in Names |-> {}]

Busy(p, name) == cli[p].pc # "off" /\ cli[p].path[1] = name
Becomes(p, c) ==
  /\ cli' = [cli EXCEPT ![p] = c]
  /\ shared' = shared \cup {n \in Names : /\ c.path[1] = n
                                          /\ \E q \in Procs \ {p} : Busy(q, n)}
Exits(p) == cli' = [cli EXCEPT ![p] = Off]
Fresh == CHOOSE n \in Names : n \notin used
Command == commands < MaxCommands /\ commands' = commands + 1
Counted == <<commands, faults, rotations>>
History == <<done, gone, ranIn, inherits>>

\* LiveCli::new: a new session, saved before the first prompt.
Launch(p) ==
  /\ cli[p].pc = "off" /\ used # Names
  /\ used' = used \cup {Fresh}
  /\ Becomes(p, Saving(Session(Fresh, <<Fresh>>, <<>>, FALSE), "idle"))
  /\ UNCHANGED <<files, turn, Counted, History>>

\* run_turn: the user's message is pushed first.
Turn(p) ==
  /\ cli[p].pc = "idle" /\ turn < MaxTurns
  /\ turn' = turn + 1
  /\ LET msgs == Append(cli[p].msgs, Message("user", {turn'}, {}))
     IN /\ cli' = [cli EXCEPT ![p].msgs = msgs, ![p].turn = turn', ![p].pc = "request"]
        /\ files' = Appended(files, cli[p], msgs)
  /\ ranIn' = [ranIn EXCEPT ![turn'] = [id |-> cli[p].id, path |-> cli[p].path]]
  /\ UNCHANGED <<used, Counted, done, gone, shared, inherits>>

\* run_session_health_probe: a compacted session is refused when the tool
\* executor does not answer (--allowedTools without glob_search, say).
ProbeFails(p) ==
  /\ cli[p].pc = "idle" /\ turn < MaxTurns /\ cli[p].compacted /\ cli[p].msgs # <<>>
  /\ Exits(p)
  /\ UNCHANGED <<files, used, turn, Counted, shared, History>>

\* The assistant's message with the tool calls it makes.  (Bound: a turn asks
\* for tools once.)
AsksForTools(p, n) ==
  /\ cli[p].pc = "request" /\ cli[p].msgs[Len(cli[p].msgs)].role = "user"
  /\ LET uses == {cli[p].turn} \X (1..n)
         msgs == Append(cli[p].msgs, Message("assistant", {cli[p].turn}, uses))
     IN /\ cli' = [cli EXCEPT ![p].msgs = msgs, ![p].todo = uses, ![p].pc = "tools"]
        /\ files' = Appended(files, cli[p], msgs)
  /\ UNCHANGED <<used, turn, Counted, shared, History>>

\* One pass of the tool loop: the result of the next call is pushed.
ToolResult(p) ==
  /\ cli[p].pc = "tools"
  /\ LET use == CHOOSE u \in cli[p].todo : \A v \in cli[p].todo : u[2] <= v[2]
         msgs == Append(cli[p].msgs, Message("tool", {cli[p].turn}, {use}))
         rest == cli[p].todo \ {use}
     IN /\ cli' = [cli EXCEPT ![p].msgs = msgs, ![p].todo = rest,
                              ![p].pc = IF rest = {} THEN "request" ELSE "tools"]
        /\ files' = Appended(files, cli[p], msgs)
  /\ UNCHANGED <<used, turn, Counted, shared, History>>

\* The last message of the turn, with or without maybe_auto_compact, which
\* changes the memory only; run_turn then saves the session.
Answers(p, compacts) ==
  /\ cli[p].pc = "request"
  /\ LET msgs == Append(cli[p].msgs, Message("assistant", {cli[p].turn}, {}))
         removes == compacts /\ ShouldCompact(msgs) /\ KeepFrom(msgs) > Prefix(msgs)
     IN /\ compacts => removes
        /\ cli' = [cli EXCEPT ![p] = Saving([cli[p] EXCEPT
                     !.msgs = IF removes THEN Compacted(msgs) ELSE msgs,
                     !.compacted = cli[p].compacted \/ removes], "idle")]
        /\ files' = Appended(files, cli[p], msgs)
  /\ UNCHANGED <<used, turn, Counted, shared, History>>

\* The stream fails or ends without a stop event: the program ends.
StreamFails(p) ==
  /\ cli[p].pc = "request"
  /\ Exits(p)
  /\ UNCHANGED <<files, used, turn, Counted, shared, History>>

(***************************************************************************)
(* save_to_path                                                            *)
(***************************************************************************)
Rotate(p) ==
  /\ cli[p].pc = "rotate"
  /\ cli' = [cli EXCEPT ![p].pc = "write"]
  /\ IF Large(files, cli[p].path)
     THEN /\ rotations' = rotations + 1
          /\ files' = Rotated(files, cli[p].path, rotations')
     ELSE UNCHANGED <<files, rotations>>
  /\ UNCHANGED <<used, turn, commands, faults, shared, History>>

WriteSnapshot(p) ==
  /\ cli[p].pc = "write"
  /\ cli' = [cli EXCEPT ![p].pc = "clean"]
  /\ files' = Written(files, Snapshot(cli[p]))
  /\ UNCHANGED <<used, turn, Counted, shared, History>>

CleanUp(p) ==
  /\ cli[p].pc = "clean"
  /\ files' = Cleaned(files, cli[p].path)
  /\ IF cli[p].then = "off" THEN Exits(p)
     ELSE cli' = [cli EXCEPT ![p].pc = "idle", ![p].turn = 0, ![p].then = "off"]
  /\ done' = done \cup ({cli[p].turn} \ {0})
  /\ UNCHANGED <<used, turn, Counted, gone, shared, ranIn, inherits>>

(***************************************************************************)
(* Commands of the prompt                                                  *)
(***************************************************************************)
\* /model, /permissions and a plugin change save the session; /exit saves it
\* and ends the program.
Save(p, then) ==
  /\ cli[p].pc = "idle" /\ Command
  /\ cli' = [cli EXCEPT ![p] = Saving(@, then)]
  /\ UNCHANGED <<files, used, turn, faults, rotations, shared, History>>

\* /compact; below the token threshold it changes nothing and saves.
CompactCommand(p) ==
  /\ cli[p].pc = "idle" /\ ShouldCompact(cli[p].msgs) /\ Command
  /\ LET c == cli[p]
     IN cli' = [cli EXCEPT ![p] =
                  Saving([c EXCEPT !.msgs = Compacted(c.msgs), !.compacted = TRUE], "idle")]
  /\ UNCHANGED <<files, used, turn, faults, rotations, shared, History>>

\* /clear --confirm
Clear(p) ==
  /\ cli[p].pc = "idle" /\ used # Names /\ Command
  /\ used' = used \cup {Fresh}
  /\ Becomes(p, Saving(Session(Fresh, <<Fresh>>, <<>>, FALSE), "idle"))
  /\ UNCHANGED <<files, turn, faults, rotations, History>>

\* Faulty variant: the fork goes on writing to the log of its parent.
ForkedInPlace(c, id) == [c EXCEPT !.id = id, !.path = <<id>>]
\* Session::fork with the persistence path of its own file.
Forked(c, id) == [c EXCEPT !.id = id, !.path = <<id>>, !.log = <<id>>]
Fork(p) ==
  /\ cli[p].pc = "idle" /\ used # Names /\ Command
  /\ used' = used \cup {Fresh}
  /\ cli' = [cli EXCEPT ![p] = Saving(Forked(@, Fresh), "idle")]
  /\ inherits' = [inherits EXCEPT ![Fresh] = TurnsOf(cli[p].msgs)]
  /\ shared' = shared \cup (IF cli[p].path[1] \in shared THEN {Fresh} ELSE {})
  /\ UNCHANGED <<files, turn, faults, rotations, done, gone, ranIn>>

\* /resume and /session switch, by name or by "latest": a listed file is read
\* and becomes the session.  Rotated logs are listed like any other file.
Loaded(f) == Session(f.id, f.path, f.msgs, f.compacted)
Resume(p, f) ==
  /\ cli[p].pc = "idle" /\ ~f.torn /\ Command
  /\ Becomes(p, Saving(Loaded(f), "idle"))
  /\ UNCHANGED <<files, used, turn, faults, rotations, History>>
\* The file cannot be read: the error ends the program.
ResumeFails(p, f) ==
  /\ cli[p].pc = "idle" /\ f.torn /\ Command
  /\ Exits(p)
  /\ UNCHANGED <<files, used, turn, faults, rotations, shared, History>>

\* resolve_reference: "latest" answers the identifier in the file, any other
\* reference the stem of its name.
HandleIs(f, byAlias, c) ==
  IF byAlias THEN f.id = c.id ELSE Len(f.path) = 1 /\ f.path[1] = c.id
Delete(p, f, byAlias) ==
  /\ cli[p].pc = "idle" /\ ~HandleIs(f, byAlias, cli[p]) /\ Command
  /\ files' = Without(files, {f.path})
  /\ gone' = gone \cup TurnsOf(f.msgs)
  /\ UNCHANGED <<cli, used, turn, faults, rotations, done, shared, ranIn, inherits>>

(***************************************************************************)
(* claw --resume <file> /compact, and /clear --confirm, which keeps a copy *)
(* aside and writes a session of a new identifier under the old name.      *)
(***************************************************************************)
ResumedCompact(p, f) ==
  /\ cli[p].pc = "off" /\ ~f.torn /\ Command
  /\ Becomes(p, Saving(IF ShouldCompact(f.msgs)
                       THEN Session(f.id, f.path, Compacted(f.msgs), TRUE) ELSE Loaded(f),
                       "off"))
  /\ UNCHANGED <<files, used, turn, faults, rotations, History>>
ResumedClear(p, f) ==
  /\ cli[p].pc = "off" /\ ~f.torn /\ used # Names /\ Command
  /\ used' = used \cup {Fresh}
  /\ Becomes(p, Saving(Session(Fresh, f.path, <<>>, FALSE), "off"))
  /\ gone' = gone \cup TurnsOf(f.msgs)
  /\ UNCHANGED <<files, turn, faults, rotations, done, ranIn, inherits>>

(***************************************************************************)
(* Faults: the process is killed, or a write fails (the error ends it too).*)
(***************************************************************************)
Kill(p) ==
  /\ cli[p].pc # "off" /\ faults < MaxFaults
  /\ faults' = faults + 1 /\ Exits(p)
  /\ UNCHANGED <<files, used, turn, commands, rotations, shared, History>>
\* An append is cut in the middle of its line.
AppendTorn(p) ==
  /\ cli[p].pc \in {"request", "tools"} /\ faults < MaxFaults
  /\ cli[p].log \in Paths(files)
  /\ faults' = faults + 1 /\ Exits(p)
  /\ files' = Written(files, [At(files, cli[p].log) EXCEPT !.torn = TRUE])
  /\ UNCHANGED <<used, turn, commands, rotations, shared, History>>

SessionNext ==
  \E p \in Procs :
    \/ Launch(p) \/ Turn(p) \/ ProbeFails(p) \/ ToolResult(p) \/ StreamFails(p)
    \/ \E n \in 1..MaxUses : AsksForTools(p, n)
    \/ \E compacts \in BOOLEAN : Answers(p, compacts)
    \/ Rotate(p) \/ WriteSnapshot(p) \/ CleanUp(p)
    \/ \E then \in {"idle", "off"} : Save(p, then)
    \/ CompactCommand(p) \/ Clear(p) \/ Fork(p) \/ Kill(p) \/ AppendTorn(p)
    \/ \E i \in DOMAIN files :
         \/ Resume(p, files[i]) \/ ResumeFails(p, files[i])
         \/ ResumedCompact(p, files[i]) \/ ResumedClear(p, files[i])
         \/ \E byAlias \in BOOLEAN : Delete(p, files[i], byAlias)
SessionSpec == SessionInit /\ [][SessionNext]_sessionVars

(***************************************************************************)
(* Properties                                                              *)
(***************************************************************************)
Messages == [role : {"user", "assistant", "tool", "system"}, turns : SUBSET Turns,
             uses : SUBSET (Turns \X (1..MaxUses))]
\* Every variable stays in its type, and no path has two files.
SessionTypeOK ==
  /\ \A i, j \in DOMAIN files : files[i].path = files[j].path => i = j
  /\ \A i \in DOMAIN files : files[i].id \in Names /\ Range(files[i].msgs) \subseteq Messages
  /\ \A p \in Procs :
       /\ cli[p].pc \in {"off", "idle", "request", "tools", "rotate", "write", "clean"}
       /\ Range(cli[p].msgs) \subseteq Messages
       /\ (cli[p].pc = "tools") <=> (cli[p].todo # {})
  /\ used \subseteq Names /\ shared \subseteq used /\ done \subseteq 1..turn

\* The answer to a call follows it with nothing but answers in between.
FollowsItsCall(msgs, i) ==
  \E j \in 1..(i - 1) :
    /\ msgs[j].role = "assistant" /\ msgs[i].uses \subseteq msgs[j].uses
    /\ \A k \in (j + 1)..(i - 1) : msgs[k].role = "tool"
Answered(msgs, i, use) ==
  \E k \in (i + 1)..Len(msgs) : msgs[k].role = "tool" /\ use \in msgs[k].uses

\* What is sent to the provider can be accepted: a tool result stands behind
\* its call, whatever was compacted, saved and resumed, and a call without a
\* result is of a turn that did not end (the process was killed in it).  Two
\* processes on one file escape this: their messages mix in it.
RequestIsPaired ==
  \A p \in Procs :
    LET msgs == cli[p].msgs
    IN cli[p].pc = "request" /\ cli[p].path[1] \notin shared =>
         \A i \in DOMAIN msgs :
           /\ msgs[i].role = "tool" => FollowsItsCall(msgs, i)
           /\ msgs[i].role = "assistant" =>
                \A use \in msgs[i].uses : Answered(msgs, i, use) \/ use[1] \notin done

\* A turn that ended stays in the directory, as messages or in a summary, at
\* every point a process can be killed at: also between the rename of a large
\* file and the snapshot that replaces it, and while rotated logs are removed.
\* (Not so a turn taken in a rotated log, which is listed and resumed like any
\* session: the clean-up of the session it was cut from removes it in time.)
CompletedTurnsSurvive ==
  \A t \in done \ gone :
    ranIn[t].path[1] \notin shared /\ Len(ranIn[t].path) = 1
      => \E i \in DOMAIN files : t \in TurnsOf(files[i].msgs)

\* A file holds turns of the session it names and those it was forked with: a
\* fork, a clear or a switch never writes into the file it left.
FileIsOwn ==
  \A i \in DOMAIN files :
    \A t \in TurnsOf(files[i].msgs) :
      \/ ranIn[t].id = files[i].id \/ t \in inherits[files[i].id]
      \/ files[i].path[1] \in shared

\* main.rs:4500: "refusing to delete the active session".  The file of a
\* process at its prompt is not removed by that process.
ActiveIsNotDeleted ==
  [][\A p \in Procs :
       cli[p].pc = "idle" /\ cli'[p] = cli[p] /\ cli[p].path \in Paths(files)
         => cli[p].path \in Paths(files')]_sessionVars
=============================================================================
