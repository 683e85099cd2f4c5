---------------------------- MODULE LspDocuments ----------------------------
(***************************************************************************)
(* The document state of the language server.  Each notification of the    *)
(* editor runs in a handler of its own; handlers are started in the order  *)
(* their messages arrive, several are under way at once, and every await   *)
(* in them is a point where the others may go on.  on_change runs under    *)
(* on_change_gate, which tokio hands out in the order it was asked for;    *)
(* did_close does not.                                                     *)
(***************************************************************************)
EXTENDS Naturals, Sequences, FiniteSets

CONSTANTS
  Files,
  Texts,
  MaxMessages,   \* bound on the notifications of a session
  Concurrency    \* handlers under way at once: 4 in tower-lsp

NoText == "none"

ASSUME BoundsAssumption == MaxMessages \in Nat /\ Concurrency \in Nat \ {0}
ASSUME TextsAssumption == NoText \notin Texts

VARIABLES
  editor,      \* the editor's text of each file; NoText when it is closed
  everClosed,  \* the files the editor has closed at some time
  sent,        \* number of notifications sent; each carries its number
  inbox,       \* notifications the server has not started to handle
  tasks,       \* handlers under way
  gate,        \* numbers of the handlers that hold (first) or wait for on_change_gate
  files,       \* the salsa inputs: text of each file
  documents,   \* the snapshot of each file: its text and the message it came from
  shown        \* the diagnostics the editor shows: those of a text, or none

vars == <<editor, everClosed, sent, inbox, tasks, gate, files, documents, shown>>

NoDocument == [text |-> NoText, from |-> 0]

Init ==
  /\ editor = [f \in Files |-> NoText]
  /\ everClosed = {}
  /\ sent = 0
  /\ inbox = <<>>
  /\ tasks = {}
  /\ gate = <<>>
  /\ files = [f \in Files |-> NoText]
  /\ documents = [f \in Files |-> NoDocument]
  /\ shown = [f \in Files |-> NoText]

---------------------------------------------------------------------------
(* The editor.  It opens what is closed, changes, saves and closes what is *)
(* open, and waits for no answer.                                          *)

Send(f, t) ==
  /\ sent < MaxMessages
  /\ sent' = sent + 1
  /\ inbox' = Append(inbox, [from |-> sent + 1, file |-> f, text |-> t])
  /\ UNCHANGED <<tasks, gate, files, documents, shown>>

\* didOpen with the text read from disk
Open(f, t) ==
  /\ editor[f] = NoText
  /\ editor' = [editor EXCEPT ![f] = t]
  /\ Send(f, t)
  /\ UNCHANGED everClosed

\* didChange, with the full text
Change(f, t) ==
  /\ editor[f] # NoText
  /\ editor' = [editor EXCEPT ![f] = t]
  /\ Send(f, t)
  /\ UNCHANGED everClosed

\* didSave, for a client that includes the text
Save(f) ==
  /\ editor[f] # NoText
  /\ Send(f, editor[f])
  /\ UNCHANGED <<editor, everClosed>>

\* didClose
Close(f) ==
  /\ editor[f] # NoText
  /\ editor' = [editor EXCEPT ![f] = NoText]
  /\ everClosed' = everClosed \cup {f}
  /\ Send(f, NoText)

---------------------------------------------------------------------------
(* The server.  A handler is the message it serves and the await it is at. *)

At(m, pc) == [m |-> m, pc |-> pc]
Goto(k, pc) == tasks' = (tasks \ {k}) \cup {At(k.m, pc)}
Done(k) == tasks' = tasks \ {k}

\* A handler runs to its first await: on_change asks for the gate; did_close
\* forgets the input of the file and asks for the documents.
Start ==
  /\ inbox # <<>>
  /\ Cardinality(tasks) < Concurrency
  /\ inbox' = Tail(inbox)
  /\ LET m == Head(inbox)
     IN  \/ /\ m.text # NoText
            /\ tasks' = tasks \cup {At(m, "gate")}
            /\ gate' = Append(gate, m.from)
            /\ UNCHANGED files
         \/ /\ m.text = NoText
            /\ tasks' = tasks \cup {At(m, "forget")}
            /\ files' = [files EXCEPT ![m.file] = NoText]
            /\ UNCHANGED gate
  /\ UNCHANGED <<editor, everClosed, sent, documents, shown>>

\* Mutant: the gate goes to any handler that waits for it.
RecomputeUnfair(k) ==
  /\ k.pc = "gate"
  /\ \A j \in tasks : j.pc \notin {"store", "publish"}
  /\ \/ /\ files[k.m.file] = k.m.text
        /\ Done(k)
        /\ gate' = SelectSeq(gate, LAMBDA n : n # k.m.from)
        /\ UNCHANGED files
     \/ /\ files[k.m.file] # k.m.text
        /\ files' = [files EXCEPT ![k.m.file] = k.m.text]
        /\ Goto(k, "store")
        /\ gate' = <<k.m.from>> \o SelectSeq(gate, LAMBDA n : n # k.m.from)
  /\ UNCHANGED <<editor, everClosed, sent, inbox, documents, shown>>

\* Mutant: a changed text does not become the input.
RecomputeNoSetText(k) ==
  /\ k.pc = "gate"
  /\ gate # <<>> /\ Head(gate) = k.m.from
  /\ \/ /\ files[k.m.file] = k.m.text
        /\ Done(k)
        /\ gate' = Tail(gate)
        /\ UNCHANGED files
     \/ /\ files[k.m.file] # k.m.text
        /\ files' = [files EXCEPT ![k.m.file] = IF files[k.m.file] = NoText THEN k.m.text ELSE @]
        /\ Goto(k, "store")
        /\ UNCHANGED gate
  /\ UNCHANGED <<editor, everClosed, sent, inbox, documents, shown>>

\* Mutant: a recomputation waits until no other handler has its file.
RecomputeAlone(k) ==
  /\ k.pc = "gate"
  /\ gate # <<>> /\ Head(gate) = k.m.from
  /\ \A j \in tasks : j.m.file = k.m.file => j = k
  /\ \/ /\ files[k.m.file] = k.m.text
        /\ Done(k)
        /\ gate' = Tail(gate)
        /\ UNCHANGED files
     \/ /\ files[k.m.file] # k.m.text
        /\ files' = [files EXCEPT ![k.m.file] = k.m.text]
        /\ Goto(k, "store")
        /\ UNCHANGED gate
  /\ UNCHANGED <<editor, everClosed, sent, inbox, documents, shown>>

\* on_change with the gate: a text equal to the input is not looked at again;
\* any other becomes the input and is analysed.
Recompute(k) ==
  /\ k.pc = "gate"
  /\ gate # <<>> /\ Head(gate) = k.m.from
  /\ \/ /\ files[k.m.file] = k.m.text
        /\ Done(k)
        /\ gate' = Tail(gate)
        /\ UNCHANGED files
     \/ /\ files[k.m.file] # k.m.text
        /\ files' = [files EXCEPT ![k.m.file] = k.m.text]
        /\ Goto(k, "store")
        /\ UNCHANGED gate
  /\ UNCHANGED <<editor, everClosed, sent, inbox, documents, shown>>

\* on_change: the snapshot replaces the old one.
Store(k) ==
  /\ k.pc = "store"
  /\ documents' = [documents EXCEPT ![k.m.file] = [text |-> k.m.text, from |-> k.m.from]]
  /\ Goto(k, "publish")
  /\ UNCHANGED <<editor, everClosed, sent, inbox, gate, files, shown>>

\* on_change: the diagnostics go out and the gate is let go.
Publish(k) ==
  /\ k.pc = "publish"
  /\ shown' = [shown EXCEPT ![k.m.file] = k.m.text]
  /\ Done(k)
  /\ gate' = Tail(gate)
  /\ UNCHANGED <<editor, everClosed, sent, inbox, files, documents>>

\* did_close: the snapshot goes.
Forget(k) ==
  /\ k.pc = "forget"
  /\ documents' = [documents EXCEPT ![k.m.file] = NoDocument]
  /\ Goto(k, "clear")
  /\ UNCHANGED <<editor, everClosed, sent, inbox, gate, files, shown>>

\* did_close: the diagnostics are cleared.
Clear(k) ==
  /\ k.pc = "clear"
  /\ shown' = [shown EXCEPT ![k.m.file] = NoText]
  /\ Done(k)
  /\ UNCHANGED <<editor, everClosed, sent, inbox, gate, files, documents>>

Server ==
  \/ Start
  \/ \E k \in tasks : Recompute(k) \/ Store(k) \/ Publish(k) \/ Forget(k) \/ Clear(k)

Next ==
  \/ \E f \in Files, t \in Texts : Open(f, t) \/ Change(f, t)
  \/ \E f \in Files : Save(f) \/ Close(f)
  \/ Server

\* The executor polls every handler that can go on.
Spec == Init /\ [][Next]_vars /\ WF_vars(Server)

---------------------------------------------------------------------------
Quiet == inbox = <<>> /\ tasks = {}

\* The comment on on_change_gate: recomputations do not overwrite a newer
\* snapshot with a staler one, whatever else is under way.
NoStaleOverwrite ==
  [][\A f \in Files : documents'[f] = NoDocument \/ documents'[f].from >= documents[f].from]_vars

\* When the server has caught up, every file that was opened and not closed
\* since the session began has the snapshot and the diagnostics of the text
\* the editor has, however its messages raced with those of other files.
CaughtUp ==
  Quiet => \A f \in Files \ everClosed :
             documents[f].text = editor[f] /\ shown[f] = editor[f]

\* The server catches up with everything it was sent: no handler waits
\* forever for the gate.
CatchesUp == []<>Quiet

\* The test of did_close says of every reader that a closed document should
\* have no answer: once the server has caught up, a closed file has no snapshot.
ClosedIsForgotten ==
  Quiet => \A f \in Files : editor[f] = NoText => documents[f] = NoDocument
=============================================================================
