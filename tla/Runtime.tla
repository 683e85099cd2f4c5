------------------------------ MODULE Runtime ------------------------------
(***************************************************************************)
(* The effect runtime of the interpreter: kyokara_runtime's LiveRuntime,   *)
(* ReplayWriter, ReplayReader and ReplayRuntime, driven by the interpreter *)
(* through authorize / call / finalize, over a source file and a replay    *)
(* log that outlive the process.                                           *)
(*                                                                         *)
(* A program is a deterministic automaton over Points (control point plus  *)
(* heap): ItemAt is what it asks of the runtime there, Goto where each     *)
(* answer takes it.  One process runs at a time; an editor may save        *)
(* another source between any two steps, and a running process may be      *)
(* killed between any two steps.                                           *)
(***************************************************************************)
EXTENDS Integers, Sequences, FiniteSets

CONSTANTS
  Programs,      \* source texts
  Broken,        \* the source texts that do not compile
  Caps,          \* capability names
  Ops,           \* the host operations of runtime_effect_intrinsic_info
  ReadOps,       \* those with EffectKind::Read
  CapOf,         \* the capability each operation needs
  Texts,         \* payloads: printed text, paths, what the host reads
  Fns,           \* user functions with a non-empty `with` clause
  Points,        \* the states of an interpreter between two items
  Start,         \* the point each program starts at
  ItemAt,        \* what the program asks of the runtime at a point
  Goto,          \* the point an answer to that item leads to
  MaxSessions,   \* bound on the number of processes started
  MaxEdits       \* bound on the number of saves by the editor

NoText == "no text"
NoSource == "no source"

Items ==
  [kind : {"effect"}, op : Ops, input : Texts, lets : BOOLEAN]
    \cup [kind : {"enter"}, fn : Fns, caps : Seq(Caps) \ {<<>>}, lets : BOOLEAN]
    \cup [kind : {"fault"}, lets : BOOLEAN] \cup [kind : {"exit"}, lets : {FALSE}]

AuthRequests == [kind : {"auth"}, cap : Caps, by : Ops \cup Fns]
CallRequests == [kind : {"call"}, op : Ops, input : Texts]
Requests == AuthRequests \cup CallRequests
Answers == [tag : {"allowed", "denied", "ok", "err"}, text : Texts \cup {NoText}]
Ends == {"none", "exit", "fault", "denied", "failed", "replaylog"}
States == [at : Points, todo : Seq(Requests), end : Ends]
Events == [seq : Nat, request : Requests, answer : Answers]

ASSUME RuntimeAssumption ==
  /\ Broken \subseteq Programs
  /\ ReadOps \subseteq Ops
  /\ CapOf \in [Ops -> Caps]
  /\ NoText \notin Texts
  /\ NoSource \notin Programs
  /\ MaxSessions \in Nat
  /\ MaxEdits \in Nat
  /\ Start \in [Programs -> Points]
  /\ ItemAt \in [Points -> Items]
  /\ Goto \in [Points -> [Answers -> Points]]

VARIABLES
  source,     \* the program text on disk
  header,     \* the fingerprint in the log's header line, or NoSource
  log,        \* the complete event lines of the log file
  torn,       \* whether the log file ends in a partial line
  kind,       \* "none", "run", "replay" or "verify": the last process started
  phase,      \* where that process is; "idle" once it is gone
  grants,     \* capabilities the manifest of a run grants
  logging,    \* whether the run was given --replay-log
  print,      \* the fingerprint taken for the header
  prog,       \* the text the process interprets
  st,         \* the interpreter: its point, requests left to make, how it ended
  answer,     \* what the host answered and the log does not hold yet
  seq,        \* next_seq of the LiveRuntime or of the ReplayRuntime
  events,     \* what the ReplayRuntime read from the log
  taken,      \* how many of them it popped
  outcome,    \* how the last process ended
  sessions, edits,
  \* What really happened, for the properties only:
  host,       \* the operations the last run carried out on the host
  recorded,   \* the text interpreted by the run that wrote the log
  hist,       \* hist[k + 1]: that run's interpreter after k logged events
  ended,      \* how that run ended; "none" while it runs
  asked       \* the requests a replay made

disk == <<source, header, log, torn>>
process == <<kind, phase, grants, logging, print, prog, st, answer, seq,
             events, taken, outcome>>
ghost == <<host, recorded, hist, ended, asked>>
vars == <<disk, process, sessions, edits, ghost>>

-----------------------------------------------------------------------------
(* The interpreter *)

\* ensure_user_fn_caps_allowed makes one check per `with` effect, in order;
\* an effect intrinsic makes its builtin check, then the host call.
RequestsOf(item) ==
  CASE item.kind = "enter"  -> [i \in 1..Len(item.caps) |->
                                 [kind |-> "auth", cap |-> item.caps[i], by |-> item.fn]]
    [] item.kind = "effect" -> <<[kind |-> "auth", cap |-> CapOf[item.op], by |-> item.op],
                                 [kind |-> "call", op |-> item.op, input |-> item.input]>>
    [] OTHER -> <<>>

\* The interpreter that has just reached the point x.
Load(x) ==
  [at |-> x, todo |-> RequestsOf(ItemAt[x]),
   end |-> IF ItemAt[x].kind \in {"exit", "fault"} THEN ItemAt[x].kind ELSE "none"]

\* Mutant: a refusal is dropped on the way up.
AfterDenialIgnored(s, a) ==
  CASE a.tag = "err" -> [s EXCEPT !.end = "failed"]
    [] OTHER -> IF Len(s.todo) > 1 THEN [s EXCEPT !.todo = Tail(s.todo)]
                                   ELSE Load(Goto[s.at][a])

\* The interpreter s after the answer a to its current request: a refusal or
\* a failed operation propagates to the top and ends it.
After(s, a) ==
  CASE a.tag = "denied" -> [s EXCEPT !.end = "denied"]
    [] a.tag = "err"    -> [s EXCEPT !.end = "failed"]
    [] OTHER -> IF Len(s.todo) > 1 THEN [s EXCEPT !.todo = Tail(s.todo)]
                                   ELSE Load(Goto[s.at][a])

Asking == phase = "run" /\ st.end = "none"
Request == Head(st.todo)

Init ==
  /\ source \in Programs
  /\ header = NoSource /\ log = <<>> /\ torn = FALSE
  /\ kind = "none" /\ phase = "idle" /\ outcome = "none"
  /\ grants = {} /\ logging = FALSE /\ print = source /\ prog = source
  /\ st = Load(Start[source]) /\ answer = [tag |-> "ok", text |-> NoText]
  /\ seq = 0 /\ events = <<>> /\ taken = 0
  /\ sessions = 0 /\ edits = 0
  /\ host = <<>> /\ recorded = NoSource /\ hist = <<>> /\ ended = "none" /\ asked = <<>>

\* The editor saves another version of the source.
Edit ==
  /\ edits < MaxEdits
  /\ source' \in Programs \ {source}
  /\ edits' = edits + 1
  /\ UNCHANGED <<header, log, torn, process, sessions, ghost>>

-----------------------------------------------------------------------------
(* kyokara run *)

\* A manifest with a constraint the runtime cannot enforce stops the run
\* before it touches anything.
RejectManifest ==
  /\ phase = "idle" /\ sessions < MaxSessions
  /\ sessions' = sessions + 1
  /\ kind' = "run" /\ logging' = FALSE /\ outcome' = "manifest"
  /\ UNCHANGED <<disk, phase, grants, print, prog, st, answer, seq, events, taken,
                 edits, ghost>>

\* g is what the manifest grants; without a manifest everything is granted.
StartRun(g, l) ==
  /\ phase = "idle" /\ sessions < MaxSessions
  /\ sessions' = sessions + 1
  /\ kind' = "run" /\ grants' = g /\ logging' = l /\ outcome' = "none"
  /\ phase' = IF l THEN "print" ELSE "source"
  /\ host' = <<>>
  /\ UNCHANGED <<disk, print, prog, st, answer, seq, events, taken, edits,
                 recorded, hist, ended, asked>>

\* build_replay_header fingerprints the source; a project is checked first, to
\* find its files ...
BuildHeader ==
  /\ phase = "print"
  /\ \/ print' = source /\ phase' = "header" /\ UNCHANGED outcome
     \/ source \in Broken /\ phase' = "idle" /\ outcome' = "compile" /\ UNCHANGED print
  /\ UNCHANGED <<disk, kind, grants, logging, prog, st, answer, seq, events, taken,
                 sessions, edits, ghost>>

\* ... and LiveRuntime::new truncates the log and writes the header line.
OpenLog ==
  /\ phase = "header"
  /\ header' = print /\ log' = <<>> /\ torn' = FALSE
  /\ seq' = 0 /\ phase' = "source"
  /\ recorded' = NoSource /\ hist' = <<>> /\ ended' = "none"
  /\ UNCHANGED <<source, kind, grants, logging, print, prog, st, answer, events,
                 taken, outcome, sessions, edits, host, asked>>

\* The file cannot be created, or it is created and the header line fails.
OpenLogFails ==
  /\ phase = "header"
  /\ \/ UNCHANGED <<header, log, torn, recorded, hist, ended>>
     \/ /\ header' = NoSource /\ log' = <<>> /\ torn' \in BOOLEAN
        /\ recorded' = NoSource /\ hist' = <<>> /\ ended' = "replaylog"
  /\ phase' = "idle" /\ outcome' = "replaylog"
  /\ UNCHANGED <<source, kind, grants, logging, print, prog, st, answer, seq, events,
                 taken, sessions, edits, host, asked>>

\* run_file_with_runtime reads the source (again) and compiles it; a compile
\* error returns before the interpreter or the runtime's finalize is reached.
ReadSource ==
  /\ phase = "source"
  /\ prog' = source
  /\ IF source \in Broken
     THEN /\ phase' = "idle" /\ outcome' = "compile"
          /\ ended' = IF kind = "run" /\ logging THEN "compile" ELSE ended
          /\ UNCHANGED <<st, recorded, hist>>
     ELSE /\ phase' = "run" /\ st' = Load(Start[source])
          /\ IF kind = "run" /\ logging
             THEN recorded' = source /\ hist' = <<st'>>
             ELSE UNCHANGED <<recorded, hist>>
          /\ UNCHANGED <<outcome, ended>>
  /\ UNCHANGED <<disk, kind, grants, logging, print, answer, seq, events, taken,
                 sessions, edits, host, asked>>

\* record_capability_check / record_effect_call, then the answer reaches the
\* interpreter.  A failed write leaves nothing, part of the line, or the line
\* behind (the buffer is flushed again when the writer is dropped), does not
\* advance next_seq, and ends the program.
Record(a) ==
  LET line == [seq |-> seq, request |-> Request, answer |-> a]
  IN  \/ /\ ~logging
         /\ st' = After(st, a)
         /\ UNCHANGED <<log, torn, seq, hist>>
      \/ /\ logging
         /\ st' = After(st, a) /\ seq' = seq + 1
         /\ log' = Append(log, line) /\ hist' = Append(hist, After(st, a))
         /\ UNCHANGED torn
      \/ /\ logging
         /\ st' = [st EXCEPT !.end = "replaylog"]
         /\ \/ torn' \in BOOLEAN /\ UNCHANGED <<log, hist>>
            \/ log' = Append(log, line) /\ hist' = Append(hist, After(st, a))
               /\ UNCHANGED torn
         /\ UNCHANGED seq

\* Mutant: the decision is returned and not recorded.
LiveAuthorizeUnrecorded ==
  /\ kind = "run" /\ Asking /\ Request.kind = "auth"
  /\ st' = After(st, [tag |-> IF Request.cap \in grants THEN "allowed" ELSE "denied",
                      text |-> NoText])
  /\ UNCHANGED <<disk, kind, phase, grants, logging, print, prog, answer, seq,
                 events, taken, outcome, sessions, edits, ghost>>

\* LiveRuntime::authorize: the decision is recorded before it is returned.
LiveAuthorize ==
  /\ kind = "run" /\ Asking /\ Request.kind = "auth"
  /\ Record([tag |-> IF Request.cap \in grants THEN "allowed" ELSE "denied",
             text |-> NoText])
  /\ UNCHANGED <<source, header, kind, phase, grants, logging, print, prog, answer,
                 events, taken, outcome, sessions, edits, host, recorded, ended, asked>>

\* LiveRuntime::call, the host's part: the effect happens, or fails.
LiveHost ==
  /\ kind = "run" /\ Asking /\ Request.kind = "call"
  /\ answer' \in [tag : {"ok"}, text : IF Request.op \in ReadOps THEN Texts ELSE {NoText}]
                  \cup [tag : {"err"}, text : {NoText}]
  /\ host' = Append(host, Request)
  /\ phase' = "record"
  /\ UNCHANGED <<disk, kind, grants, logging, print, prog, st, seq, events, taken,
                 outcome, sessions, edits, recorded, hist, ended, asked>>

\* Mutant: `?` on the host's result returns before the event is recorded.
LiveRecordOnlyOk ==
  /\ phase = "record"
  /\ IF answer.tag = "err" THEN st' = After(st, answer) /\ UNCHANGED <<log, torn, seq, hist>>
                            ELSE Record(answer)
  /\ phase' = "run"
  /\ UNCHANGED <<source, header, kind, grants, logging, print, prog, answer, events,
                 taken, outcome, sessions, edits, host, recorded, ended, asked>>

\* LiveRuntime::call, the log's part.
LiveRecord ==
  /\ phase = "record"
  /\ Record(answer)
  /\ phase' = "run"
  /\ UNCHANGED <<source, header, kind, grants, logging, print, prog, answer, events,
                 taken, outcome, sessions, edits, host, recorded, ended, asked>>

\* The process is killed; a line being written may be left incomplete, and a
\* log just created may be left without its header.
Kill ==
  /\ kind = "run" /\ phase # "idle"
  /\ phase' = "idle" /\ outcome' = "killed"
  /\ \/ /\ logging /\ (phase = "record" \/ (Asking /\ Request.kind = "auth"))
        /\ torn' = TRUE
        /\ UNCHANGED <<header, log, recorded, hist>>
     \/ /\ phase = "header"
        /\ header' = NoSource /\ log' = <<>> /\ torn' \in BOOLEAN
        /\ recorded' = NoSource /\ hist' = <<>>
     \/ UNCHANGED <<header, log, torn, recorded, hist>>
  /\ ended' = IF logging /\ phase \in {"source", "run", "record"} THEN "killed" ELSE ended
  /\ UNCHANGED <<source, kind, grants, logging, print, prog, st, answer, seq, events,
                 taken, sessions, edits, host, asked>>

-----------------------------------------------------------------------------
(* kyokara replay *)

\* Mutant: next_seq goes on where the recording stopped.
StartReplaySeqKept(k) ==
  /\ phase = "idle" /\ sessions < MaxSessions
  /\ sessions' = sessions + 1
  /\ kind' = k /\ logging' = FALSE
  /\ asked' = <<>> /\ taken' = 0 /\ UNCHANGED seq
  /\ IF header = source /\ ~torn
     THEN phase' = "source" /\ outcome' = "none" /\ events' = log
     ELSE phase' = "idle" /\ outcome' = "unreadable" /\ events' = <<>>
  /\ UNCHANGED <<disk, grants, print, prog, st, answer, edits, host, recorded, hist, ended>>

\* ReplayReader::from_path and verify_program_fingerprint: the log must have
\* its header, no partial line, and the fingerprint of the source on disk.
StartReplay(k) ==
  /\ phase = "idle" /\ sessions < MaxSessions
  /\ sessions' = sessions + 1
  /\ kind' = k /\ logging' = FALSE
  /\ asked' = <<>> /\ taken' = 0 /\ seq' = 0
  /\ IF header = source /\ ~torn
     THEN phase' = "source" /\ outcome' = "none" /\ events' = log
     ELSE phase' = "idle" /\ outcome' = "unreadable" /\ events' = <<>>
  /\ UNCHANGED <<disk, grants, print, prog, st, answer, edits, host, recorded, hist, ended>>

\* check_capability_event and check_effect_event, after the line's kind was
\* matched: everything must agree, except that what is written is compared
\* in verify mode only.
Agrees(r, e) ==
  /\ e.request.kind = r.kind
  /\ e.seq = seq
  /\ \/ e.request = r
     \/ /\ r.kind = "call" /\ e.request.op = r.op
        /\ r.op \notin ReadOps /\ kind = "replay"

\* Mutant: authorize reads the event and returns Ok without its outcome.
ReplayRequestAllows ==
  /\ kind \in {"replay", "verify"} /\ Asking
  /\ asked' = Append(asked, Request)
  /\ IF taken = Len(events)
     THEN st' = [st EXCEPT !.end = "replaylog"] /\ UNCHANGED <<taken, seq>>
     ELSE LET e == events[taken + 1]
          IN  /\ taken' = taken + 1
              /\ seq' = IF e.request.kind = Request.kind /\ e.seq = seq THEN seq + 1 ELSE seq
              /\ st' = IF Agrees(Request, e)
                       THEN After(st, IF Request.kind = "auth"
                                      THEN [e.answer EXCEPT !.tag = "allowed"] ELSE e.answer)
                       ELSE [st EXCEPT !.end = "replaylog"]
  /\ UNCHANGED <<disk, kind, phase, grants, logging, print, prog, answer, events,
                 outcome, sessions, edits, host, recorded, hist, ended>>

\* Mutant: a request waits for an event instead of failing at the end.
ReplayRequestWaits ==
  /\ kind \in {"replay", "verify"} /\ Asking
  /\ asked' = Append(asked, Request)
  /\ taken < Len(events)
  /\ LET e == events[taken + 1]
     IN  /\ taken' = taken + 1
         /\ seq' = IF e.request.kind = Request.kind /\ e.seq = seq THEN seq + 1 ELSE seq
         /\ st' = IF Agrees(Request, e) THEN After(st, e.answer)
                                       ELSE [st EXCEPT !.end = "replaylog"]
  /\ UNCHANGED <<disk, kind, phase, grants, logging, print, prog, answer, events,
                 outcome, sessions, edits, host, recorded, hist, ended>>

\* ReplayRuntime::authorize and ReplayRuntime::call: the next event is popped
\* before it is compared, and answers the request if it agrees with it.
ReplayRequest ==
  /\ kind \in {"replay", "verify"} /\ Asking
  /\ asked' = Append(asked, Request)
  /\ IF taken = Len(events)
     THEN st' = [st EXCEPT !.end = "replaylog"] /\ UNCHANGED <<taken, seq>>
     ELSE LET e == events[taken + 1]
          IN  /\ taken' = taken + 1
              /\ seq' = IF e.request.kind = Request.kind /\ e.seq = seq THEN seq + 1 ELSE seq
              /\ st' = IF Agrees(Request, e) THEN After(st, e.answer)
                                            ELSE [st EXCEPT !.end = "replaylog"]
  /\ UNCHANGED <<disk, kind, phase, grants, logging, print, prog, answer, events,
                 outcome, sessions, edits, host, recorded, hist, ended>>

-----------------------------------------------------------------------------

\* Mutant: the runtime is not finalized.
FinishUnfinalized ==
  /\ phase = "run" /\ st.end # "none"
  /\ phase' = "idle" /\ outcome' = st.end
  /\ ended' = IF logging THEN st.end ELSE ended
  /\ UNCHANGED <<disk, kind, grants, logging, print, prog, st, answer, seq, events,
                 taken, sessions, edits, host, recorded, hist, asked>>

\* finish_run_result: the runtime is finalized and its complaint wins over the
\* program's own result.  run_project_with_runtime leaves with `?` when the
\* top-level lets of a module fail, and never finalizes.
Finish ==
  /\ phase = "run" /\ st.end # "none"
  /\ phase' = "idle"
  /\ outcome' = IF kind # "run" /\ taken < Len(events) /\ ~ItemAt[st.at].lets
                THEN "replaylog" ELSE st.end
  /\ ended' = IF logging THEN st.end ELSE ended
  /\ UNCHANGED <<disk, kind, grants, logging, print, prog, st, answer, seq, events,
                 taken, sessions, edits, host, recorded, hist, asked>>

Step ==
  \/ BuildHeader \/ OpenLog \/ OpenLogFails \/ ReadSource
  \/ LiveAuthorize \/ LiveHost \/ LiveRecord
  \/ ReplayRequest \/ Finish

Next ==
  \/ Edit
  \/ RejectManifest
  \/ \E g \in SUBSET Caps, l \in BOOLEAN : StartRun(g, l)
  \/ \E k \in {"replay", "verify"} : StartReplay(k)
  \/ Kill
  \/ Step

\* A process that was started keeps running until it is done or killed.
Spec == Init /\ [][Next]_vars /\ WF_vars(Step)

-----------------------------------------------------------------------------
(* Properties *)

\* Types; a ReplayRuntime never pops more events than it read.
TypeOK ==
  /\ source \in Programs /\ prog \in Programs /\ print \in Programs
  /\ header \in Programs \cup {NoSource} /\ recorded \in Programs \cup {NoSource}
  /\ log \in Seq(Events) /\ events \in Seq(Events) /\ torn \in BOOLEAN
  /\ kind \in {"none", "run", "replay", "verify"}
  /\ phase \in {"idle", "print", "header", "source", "run", "record"}
  /\ grants \in SUBSET Caps /\ logging \in BOOLEAN
  /\ st \in States /\ hist \in Seq(States) /\ answer \in Answers
  /\ seq \in Nat /\ taken \in 0..Len(events)
  /\ outcome \in Ends \cup {"manifest", "compile", "killed", "unreadable"}
  /\ ended \in Ends \cup {"compile", "killed"}
  /\ sessions \in 0..MaxSessions /\ edits \in 0..MaxEdits
  /\ host \in Seq(CallRequests) /\ asked \in Seq(Requests)

\* Deny by default: whatever the program, no run carries out an operation on
\* the host whose capability its manifest does not grant.
Sandboxed == \A i \in DOMAIN host : CapOf[host[i].op] \in grants

\* Auditability: in every log, at every moment, a recorded effect call stands
\* right after the allowed builtin check that let it happen.
AuthorizedInLog ==
  \A i \in DOMAIN log : log[i].request.kind = "call" =>
    /\ i > 1
    /\ log[i - 1].request = [kind |-> "auth", cap |-> CapOf[log[i].request.op],
                             by |-> log[i].request.op]
    /\ log[i - 1].answer.tag = "allowed"

\* How many of the first n lines of the log record an effect call.
LoggedCalls(n) == Cardinality({i \in 1..n : log[i].request.kind = "call"})

\* The log holds the effects that really happened, in their order, and misses
\* at most the last one: the one a kill or a failed write can lose.
AtMostOneUnlogged ==
  phase \in {"run", "record"} /\ logging =>
    /\ \A i \in DOMAIN log : log[i].request.kind = "call" =>
         LoggedCalls(i) \in DOMAIN host /\ log[i].request = host[LoggedCalls(i)]
    /\ Len(host) - LoggedCalls(Len(log)) \in
         (IF phase = "record" THEN {1} ELSE IF st.end = "replaylog" THEN {0, 1} ELSE {0})

Replaying == kind \in {"replay", "verify"}

\* Determinism: replaying the program that was recorded, the interpreter is,
\* after k events, in the state the recorded run had after logging k events,
\* whatever cut the recording short and whatever the disk says now.
ReplayTracksRecording ==
  Replaying /\ phase = "run" /\ prog = recorded /\ st.end # "replaylog"
    => taken + 1 \in DOMAIN hist /\ st = hist[taken + 1]

\* A recording that ran to its end replays to the same end: the same exit,
\* fault, refusal or failed operation, never a replay log error.
ReplayReachesSameEnd ==
  Replaying /\ phase = "idle" /\ prog = recorded /\ outcome \notin {"unreadable", "compile"}
    => (ended \in {"exit", "fault", "denied", "failed"} => outcome = ended)

\* A replay that succeeds consumed the whole log and asked for what the log
\* says, even if the source changed after its fingerprint was checked: in
\* verify mode exactly, in replay mode up to the text of what is written.
SuccessfulReplayMatchesLog ==
  Replaying /\ phase = "idle" /\ outcome = "exit" =>
    /\ Len(asked) = Len(events)
    /\ \A i \in DOMAIN asked :
         \/ asked[i] = events[i].request
         \/ /\ kind = "replay"
            /\ asked[i].kind = "call" /\ events[i].request.kind = "call"
            /\ asked[i].op = events[i].request.op /\ asked[i].op \notin ReadOps

\* Every process comes to an end: no request of a replay waits for an event.
Terminates == (phase # "idle") ~> (phase = "idle")

=============================================================================
