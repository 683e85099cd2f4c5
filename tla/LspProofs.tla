------------------------------ MODULE LspProofs -----------------------------
(***************************************************************************)
(* on_change_gate keeps snapshots fresh, for any number of files, texts,   *)
(* messages and concurrent handlers.                                       *)
(*                                                                         *)
(* NoStaleOverwrite alone is not inductive: that the handler about to      *)
(* store is newer than what is stored rests on the order of the queue.     *)
(* Messages are numbered, wait in the inbox in that order (Arriving), are  *)
(* served by one handler each (Serving), ask for the gate in that order    *)
(* (Queued), and only its holder stores (Holding); so no snapshot is newer *)
(* than anything that still waits (Fresh).                                 *)
(*                                                                         *)
(* CaughtUp needs what is true while the server is busy: the last message  *)
(* of a file that waits has the editor's text (Latest), and what on_change *)
(* leaves is made of the input it set (Settled).  The gate gives them: the *)
(* one who gets it is the oldest who waits.                                *)
(***************************************************************************)
EXTENDS LspDocuments, TLAPS

Messages == [from : Nat, file : Files, text : Texts \cup {NoText}]

Shapes ==
  /\ editor \in [Files -> Texts \cup {NoText}]
  /\ sent \in Nat
  /\ inbox \in Seq(Messages)
  /\ tasks \subseteq [m : Messages, pc : {"gate", "store", "publish", "forget", "clear"}]
  /\ gate \in Seq(Nat)
  /\ documents \in [Files -> [text : Texts \cup {NoText}, from : Nat]]

\* Messages are numbered in the order they are sent and arrive.
Arriving ==
  /\ \A i \in 1..Len(inbox) : inbox[i].from <= sent
  /\ \A i, j \in 1..Len(inbox) : i < j => inbox[i].from < inbox[j].from

\* The gate is asked for in the order of the messages.
Queued ==
  /\ \A i, j \in 1..Len(gate) : i < j => gate[i] < gate[j]
  /\ \A i \in 1..Len(gate) : gate[i] <= sent
  /\ \A i \in 1..Len(gate), j \in 1..Len(inbox) : gate[i] < inbox[j].from

\* The handler between Recompute and the end of on_change holds the gate.
Holding ==
  \A k \in tasks : k.pc \in {"store", "publish"} => gate # <<>> /\ gate[1] = k.m.from

\* No snapshot is newer than a message that is still to be handled.
Fresh ==
  \A f \in Files :
    /\ documents[f].from <= sent
    /\ \A i \in 1..Len(gate) : documents[f].from <= gate[i]
    /\ \A i \in 1..Len(inbox) : documents[f].from <= inbox[i].from

\* Handlers serve different messages, all older than those that wait.
Serving ==
  /\ \A j, k \in tasks : j.m.from = k.m.from => j = k
  /\ \A k \in tasks : k.m.from <= sent
  /\ \A k \in tasks, i \in 1..Len(inbox) : k.m.from < inbox[i].from

IInv == Shapes /\ Arriving /\ Serving /\ Queued /\ Holding /\ Fresh

\* The messages of a file that no handler with the gate has looked at.
Waiting(f) ==
  {inbox[i] : i \in {j \in 1..Len(inbox) : inbox[j].file = f}}
    \cup {k.m : k \in {j \in tasks : j.pc = "gate" /\ j.m.file = f}}

Looking(k) == k.pc \in {"store", "publish"}

Mapped == files \in [Files -> Texts \cup {NoText}] /\ shown \in [Files -> Texts \cup {NoText}]

\* Whoever waits for the gate is in its queue.
Lined == \A k \in tasks : k.pc = "gate" => \E i \in 1..Len(gate) : gate[i] = k.m.from

\* Only a file that was closed has did_close at work on it.
Closing ==
  /\ \A i \in 1..Len(inbox) : inbox[i].text = NoText => inbox[i].file \in everClosed
  /\ \A k \in tasks : k.pc \in {"forget", "clear"} => k.m.file \in everClosed

\* The last message of a file that waits has the editor's text; when none
\* waits, the input has it.
Latest ==
  \A f \in Files \ everClosed :
    /\ \A m \in Waiting(f) : m.text = editor[f] \/ \E n \in Waiting(f) : n.from > m.from
    /\ Waiting(f) = {} => files[f] = editor[f]

\* Unless on_change is at work on the file, its snapshot and diagnostics are
\* those of its input.
Settled ==
  \A f \in Files \ everClosed :
    /\ \A k \in tasks : k.m.file = f /\ Looking(k) => files[f] = k.m.text
    /\ \A k \in tasks : k.m.file = f /\ k.pc = "publish" => documents[f].text = files[f]
    /\ (\A k \in tasks : k.m.file = f => ~Looking(k)) =>
         documents[f].text = files[f] /\ shown[f] = files[f]

CInv == Mapped /\ Lined /\ Closing /\ Latest /\ Settled
---------------------------------------------------------------------------
\* Messages carry natural numbers.
LEMMA Numbered ==
  /\ \A e \in Messages : e.from \in Nat
  /\ \A q \in Seq(Messages) : \A i \in 1..Len(q) : q[i].from \in Nat
<1>1. \A e \in Messages : e.from \in Nat
  BY DEF Messages
<1>2. \A q \in Seq(Messages) : \A i \in 1..Len(q) : q[i] \in Messages
  OBVIOUS
<1> QED
  BY <1>1, <1>2

\* What is left of a queue keeps its elements and their order.
LEMMA Rest ==
  ASSUME NEW S, NEW q \in Seq(S), q # <<>>
  PROVE  /\ Tail(q) \in Seq(S)
         /\ Len(Tail(q)) = Len(q) - 1
         /\ \A i \in 1..Len(Tail(q)) : i + 1 \in 1..Len(q) /\ Tail(q)[i] = q[i + 1]
         /\ Len(q) \in Nat \ {0}
         /\ Head(q) = q[1] /\ q[1] \in S
OBVIOUS

\* A queue with one more element at its end.
LEMMA OneMore ==
  ASSUME NEW S, NEW q \in Seq(S), NEW e \in S
  PROVE  /\ Append(q, e) \in Seq(S)
         /\ Len(Append(q, e)) = Len(q) + 1
         /\ Len(q) \in Nat
         /\ \A i \in 1..Len(q) : Append(q, e)[i] = q[i]
         /\ Append(q, e)[Len(q) + 1] = e
OBVIOUS

\* Nothing is under way when the server starts.
LEMMA InitIInv == Init => IInv
<1> SUFFICES ASSUME Init PROVE IInv
  OBVIOUS
<1>1. Shapes
  BY DEF Init, Shapes, NoDocument
<1>2. Arriving /\ Serving /\ Queued /\ Holding
  BY DEF Init, Arriving, Serving, Queued, Holding
<1>3. Fresh
  BY DEF Init, Fresh, NoDocument
<1> QED
  BY <1>1, <1>2, <1>3 DEF IInv

\* A notification sent takes the next number, behind all others.
LEMMA SendStep ==
  ASSUME IInv, NEW f \in Files, NEW t \in Texts \cup {NoText}, Send(f, t),
         editor' \in [Files -> Texts \cup {NoText}]
  PROVE  IInv'
<1> DEFINE m == [from |-> sent + 1, file |-> f, text |-> t]
<1>1. /\ Shapes /\ Arriving /\ Serving /\ Queued /\ Holding /\ Fresh
      /\ sent' = sent + 1 /\ inbox' = Append(inbox, m)
      /\ UNCHANGED <<tasks, gate, documents>>
  BY DEF IInv, Send
<1>2. sent \in Nat /\ inbox \in Seq(Messages) /\ gate \in Seq(Nat) /\ m \in Messages
  BY <1>1 DEF Shapes, Messages
<1>3. /\ inbox' \in Seq(Messages) /\ Len(inbox') = Len(inbox) + 1 /\ Len(inbox) \in Nat
      /\ \A i \in 1..Len(inbox) : inbox'[i] = inbox[i]
      /\ inbox'[Len(inbox) + 1] = m
  BY <1>1, <1>2, OneMore
<1>4. \A i \in 1..Len(inbox') : i \in 1..Len(inbox) \/ i = Len(inbox) + 1
  BY <1>3
<1>5. \A i \in 1..Len(inbox) : inbox[i].from \in Nat
  BY <1>2, Numbered
<1>6. m.from = sent + 1
  OBVIOUS
<1> HIDE DEF m
<1>a. Shapes'
  BY <1>1, <1>2, <1>3 DEF Shapes
<1>b. Arriving'
  BY <1>1, <1>2, <1>3, <1>4, <1>5, <1>6 DEF Arriving
<1>7. \A i \in 1..Len(gate) : gate[i] \in Nat
  BY <1>2
<1>c. Queued'
  BY <1>1, <1>2, <1>3, <1>4, <1>5, <1>6, <1>7, SMTT(40) DEF Queued
<1>d. Holding'
  BY <1>1 DEF Holding
<1>8. \A g \in Files : documents[g].from \in Nat
  BY <1>1 DEF Shapes
<1>e. Fresh'
  BY <1>1, <1>2, <1>3, <1>4, <1>5, <1>6, <1>8 DEF Fresh
<1>9. \A k \in tasks : k.m.from \in Nat
  BY <1>1, Numbered DEF Shapes
<1>f. Serving'
  BY <1>1, <1>2, <1>3, <1>4, <1>5, <1>6, <1>9 DEF Serving
<1> QED
  BY <1>a, <1>b, <1>c, <1>d, <1>e, <1>f DEF IInv

\* A handler starts: its number, the least in the inbox, is behind those
\* that already ask for the gate.
LEMMA StartStep ==
  ASSUME IInv, Start
  PROVE  IInv'
<1> DEFINE m == Head(inbox)
<1>1. /\ Shapes /\ Arriving /\ Serving /\ Queued /\ Holding /\ Fresh
      /\ inbox # <<>> /\ inbox' = Tail(inbox)
      /\ UNCHANGED <<editor, sent, documents>>
  BY DEF IInv, Start
<1>2. sent \in Nat /\ inbox \in Seq(Messages) /\ gate \in Seq(Nat)
  BY <1>1 DEF Shapes
<1>3. /\ inbox' \in Seq(Messages) /\ Len(inbox') = Len(inbox) - 1
      /\ \A i \in 1..Len(inbox') : i + 1 \in 1..Len(inbox) /\ inbox'[i] = inbox[i + 1]
      /\ Len(inbox) \in Nat \ {0} /\ m = inbox[1] /\ m \in Messages
  BY <1>1, <1>2, Rest
<1>4. 1 \in 1..Len(inbox) /\ m.from \in Nat /\ m.from <= sent
  BY <1>1, <1>3, Numbered DEF Arriving
<1>5. \A i \in 1..Len(inbox') : m.from < inbox'[i].from /\ inbox'[i].from \in Nat
  <2>1. \A i \in 1..Len(inbox') : inbox'[i].from \in Nat
    BY <1>3, Numbered
  <2>2. \A i \in 1..Len(inbox') : i + 1 \in 1..Len(inbox) /\ 1 < i + 1
    BY <1>3
  <2> QED
    BY <1>1, <1>3, <1>4, <2>1, <2>2 DEF Arriving
<1>6. Arriving'
  <2>1. \A i, j \in 1..Len(inbox') : i < j => i + 1 < j + 1
    BY <1>3
  <2> QED
    BY <1>1, <1>3, <2>1 DEF Arriving
<1>7. \A i \in 1..Len(gate) : gate[i] \in Nat /\ gate[i] < m.from
  BY <1>1, <1>2, <1>3, <1>4 DEF Queued
<1>8. \A f \in Files : documents[f].from \in Nat /\ documents[f].from <= m.from
  BY <1>1, <1>3, <1>4 DEF Shapes, Fresh
<1>9. \A i \in 1..Len(gate), j \in 1..Len(inbox') : gate[i] < inbox'[j].from
  BY <1>4, <1>5, <1>7
<1>10. \A f \in Files, j \in 1..Len(inbox') : documents[f].from <= inbox'[j].from
  BY <1>4, <1>5, <1>8
<1>11. \/ tasks' = tasks \cup {At(m, "gate")} /\ gate' = Append(gate, m.from)
       \/ tasks' = tasks \cup {At(m, "forget")} /\ gate' = gate
  BY DEF Start
<1> HIDE DEF m
<1>14. ASSUME NEW pc, tasks' = tasks \cup {At(m, pc)}
       PROVE  Serving'
  <2>1. \A k \in tasks : k.m.from \in Nat /\ k.m.from < m.from
    BY <1>1, <1>3, <1>4, Numbered DEF Serving, Shapes
  <2>2. \A k \in tasks' : k \in tasks \/ k = At(m, pc)
    BY <1>14
  <2>3. At(m, pc).m = m
    BY DEF At
  <2>4. \A j, k \in tasks' : j.m.from = k.m.from => j = k
    BY <1>1, <1>4, <2>1, <2>2, <2>3 DEF Serving
  <2>5. \A k \in tasks' : k.m.from <= sent
    BY <1>1, <1>4, <2>2, <2>3 DEF Serving
  <2>6. \A k \in tasks', i \in 1..Len(inbox') : k.m.from < inbox'[i].from
    BY <1>4, <1>5, <2>1, <2>2, <2>3
  <2> QED
    BY <1>1, <2>4, <2>5, <2>6 DEF Serving
<1>12. CASE tasks' = tasks \cup {At(m, "gate")} /\ gate' = Append(gate, m.from)
  <2>1. /\ gate' \in Seq(Nat) /\ Len(gate') = Len(gate) + 1 /\ Len(gate) \in Nat
        /\ \A i \in 1..Len(gate) : gate'[i] = gate[i]
        /\ gate'[Len(gate) + 1] = m.from
    BY <1>2, <1>4, <1>12, OneMore
  <2>2. \A i \in 1..Len(gate') : i \in 1..Len(gate) \/ i = Len(gate) + 1
    BY <2>1
  <2>3. Shapes'
    BY <1>1, <1>3, <1>12, <2>1 DEF Shapes, At
  <2>4. Queued'
    <3>1. \A i, j \in 1..Len(gate') : i < j => gate'[i] < gate'[j]
      <4>1. \A i, j \in 1..Len(gate') : i < j => i \in 1..Len(gate)
        BY <2>1
      <4> QED
        BY <1>1, <1>7, <2>1, <2>2, <4>1 DEF Queued
    <3>2. \A i \in 1..Len(gate') : gate'[i] <= sent
      BY <1>1, <1>4, <2>1, <2>2 DEF Queued
    <3>3. \A i \in 1..Len(gate'), j \in 1..Len(inbox') : gate'[i] < inbox'[j].from
      BY <1>5, <1>9, <2>1, <2>2
    <3> QED
      BY <1>1, <3>1, <3>2, <3>3 DEF Queued
  <2>5. Holding'
    <3> SUFFICES ASSUME NEW k \in tasks', k.pc \in {"store", "publish"}
                 PROVE  gate' # <<>> /\ gate'[1] = k.m.from
      BY DEF Holding
    <3>1. k \in tasks
      BY <1>12 DEF At
    <3>2. gate # <<>> /\ gate[1] = k.m.from
      BY <1>1, <3>1 DEF Holding
    <3>3. 1 \in 1..Len(gate)
      BY <1>2, <3>2
    <3> QED
      BY <2>1, <3>2, <3>3
  <2>6. Fresh'
    BY <1>1, <1>8, <1>10, <2>1, <2>2 DEF Fresh
  <2> QED
    BY <1>6, <1>12, <1>14, <2>3, <2>4, <2>5, <2>6 DEF IInv
<1>13. CASE tasks' = tasks \cup {At(m, "forget")} /\ gate' = gate
  <2>1. Shapes'
    BY <1>1, <1>3, <1>13 DEF Shapes, At
  <2>2. Queued'
    BY <1>1, <1>9, <1>13 DEF Queued
  <2>3. Holding'
    BY <1>1, <1>13 DEF Holding, At
  <2>4. Fresh'
    BY <1>1, <1>10, <1>13 DEF Fresh
  <2> QED
    BY <1>6, <1>13, <1>14, <2>1, <2>2, <2>3, <2>4 DEF IInv
<1> QED
  BY <1>11, <1>12, <1>13

\* The holder of the gate leaves on_change.
LEMMA Leave ==
  ASSUME IInv, NEW k \in tasks, gate # <<>>, gate[1] = k.m.from,
         gate' = Tail(gate), tasks' = tasks \ {k}, UNCHANGED <<editor, sent, inbox, documents>>
  PROVE  IInv'
<1>1. Shapes /\ Arriving /\ Serving /\ Queued /\ Holding /\ Fresh
  BY DEF IInv
<1>2. gate \in Seq(Nat)
  BY <1>1 DEF Shapes
<1>3. /\ gate' \in Seq(Nat) /\ Len(gate') = Len(gate) - 1
      /\ \A i \in 1..Len(gate') : i + 1 \in 1..Len(gate) /\ gate'[i] = gate[i + 1]
      /\ Len(gate) \in Nat \ {0}
  BY <1>2, Rest
<1>4. Shapes' /\ Arriving' /\ Serving'
  BY <1>1, <1>3 DEF Shapes, Arriving, Serving
<1>5. \A i, j \in 1..Len(gate') : i < j => i + 1 < j + 1
  BY <1>3
<1>6. Queued'
  BY <1>1, <1>3, <1>5 DEF Queued
<1>7. Holding'
  BY <1>1 DEF Holding, Serving
<1>8. Fresh'
  BY <1>1, <1>3 DEF Fresh
<1> QED
  BY <1>4, <1>6, <1>7, <1>8 DEF IInv

\* A handler goes on to its next await and no queue changes.
LEMMA GoOn ==
  ASSUME IInv, NEW k \in tasks, NEW pc \in {"store", "publish", "clear"}, Goto(k, pc),
         pc # "clear" => gate # <<>> /\ gate[1] = k.m.from,
         UNCHANGED <<sent, inbox, gate>>
  PROVE  Arriving' /\ Serving' /\ Queued' /\ Holding'
<1>1. Shapes /\ Arriving /\ Serving /\ Queued /\ Holding
  BY DEF IInv
<1>2. \A j \in tasks' : j \in tasks \ {k} \/ j = At(k.m, pc)
  BY DEF Goto
<1>3. At(k.m, pc).m = k.m /\ At(k.m, pc).pc = pc
  BY DEF At
<1>4. Arriving' /\ Queued'
  BY <1>1 DEF Arriving, Queued
<1>5. \A i, j \in tasks' : i.m.from = j.m.from => i = j
  BY <1>1, <1>2, <1>3 DEF Serving
<1>6. Serving'
  BY <1>1, <1>2, <1>3, <1>5 DEF Serving
<1>7. Holding'
  BY <1>1, <1>2, <1>3 DEF Holding
<1> QED
  BY <1>4, <1>6, <1>7

\* Every step keeps the invariant.
LEMMA NextIInv == IInv /\ [Next]_vars => IInv'
<1> SUFFICES ASSUME IInv, [Next]_vars PROVE IInv'
  OBVIOUS
<1>0. Shapes /\ Arriving /\ Serving /\ Queued /\ Holding /\ Fresh
  BY DEF IInv
<1>a. editor \in [Files -> Texts \cup {NoText}]
  BY <1>0 DEF Shapes
<1>1. ASSUME NEW f \in Files, NEW t \in Texts, Open(f, t) \/ Change(f, t) PROVE IInv'
  BY <1>1, <1>a, SendStep DEF Open, Change
<1>2. ASSUME NEW f \in Files, Save(f) PROVE IInv'
  <2>1. editor[f] \in Texts \cup {NoText} /\ editor' = editor /\ Send(f, editor[f])
    BY <1>2, <1>a DEF Save
  <2> QED
    BY <2>1, <1>a, SendStep
<1>3. ASSUME NEW f \in Files, Close(f) PROVE IInv'
  BY <1>3, <1>a, SendStep DEF Close
<1>4. CASE Start
  BY <1>4, StartStep
<1>b. ASSUME NEW k \in tasks, NEW pc \in {"store", "publish", "clear"}
      PROVE  (tasks \ {k}) \cup {At(k.m, pc)}
               \subseteq [m : Messages, pc : {"gate", "store", "publish", "forget", "clear"}]
  <2>1. k.m \in Messages
    BY <1>0, <1>b DEF Shapes
  <2> QED
    BY <1>0, <1>b, <2>1 DEF Shapes, At
<1>5. ASSUME NEW k \in tasks, Recompute(k) PROVE IInv'
  <2>1. /\ gate # <<>> /\ gate[1] = k.m.from
        /\ UNCHANGED <<editor, sent, inbox, documents>>
    BY <1>5, <1>0, Rest DEF Recompute, Shapes
  <2>2. CASE Done(k) /\ gate' = Tail(gate)
    BY <2>1, <2>2, Leave DEF Done
  <2>3. CASE Goto(k, "store") /\ gate' = gate
    <3>1. Arriving' /\ Serving' /\ Queued' /\ Holding'
      BY <2>1, <2>3, GoOn
    <3>2. Shapes'
      BY <1>0, <1>b, <2>1, <2>3 DEF Shapes, Goto
    <3>3. Fresh'
      BY <1>0, <2>1, <2>3 DEF Fresh
    <3> QED
      BY <3>1, <3>2, <3>3 DEF IInv
  <2> QED
    BY <1>5, <2>2, <2>3 DEF Recompute
<1>6. ASSUME NEW k \in tasks, Store(k) PROVE IInv'
  <2> DEFINE d == [text |-> k.m.text, from |-> k.m.from]
  <2>1. /\ k.pc = "store" /\ Goto(k, "publish")
        /\ documents' = [documents EXCEPT ![k.m.file] = d]
        /\ UNCHANGED <<editor, sent, inbox, gate>>
    BY <1>6 DEF Store
  <2>2. gate # <<>> /\ gate[1] = k.m.from
    BY <1>0, <2>1 DEF Holding
  <2>3. Arriving' /\ Serving' /\ Queued' /\ Holding'
    BY <2>1, <2>2, GoOn
  <2>4. d \in [text : Texts \cup {NoText}, from : Nat] /\ d.from = k.m.from /\ k.m.from \in Nat
    BY <1>0 DEF Shapes, Messages
  <2> HIDE DEF d
  <2>5. Shapes'
    BY <1>0, <1>b, <2>1, <2>4 DEF Shapes, Goto
  <2>6. \A f \in Files : documents'[f] = documents[f] \/ documents'[f] = d
    BY <1>0, <2>1 DEF Shapes
  <2>7. gate \in Seq(Nat) /\ 1 \in 1..Len(gate)
    BY <1>0, <2>2 DEF Shapes
  <2>8. /\ k.m.from <= sent
        /\ \A i \in 1..Len(gate) : k.m.from <= gate[i]
        /\ \A i \in 1..Len(inbox) : k.m.from <= inbox[i].from
    <3>1. \A i \in 1..Len(gate) : i = 1 \/ 1 < i
      BY <2>7
    <3>2. \A i \in 1..Len(gate) : gate[i] \in Nat
      BY <2>7
    <3>3. \A i \in 1..Len(gate) : k.m.from <= gate[i]
      BY <1>0, <2>2, <2>4, <2>7, <3>1, <3>2 DEF Queued
    <3>4. \A i \in 1..Len(inbox) : inbox[i].from \in Nat
      BY <1>0, Numbered DEF Shapes
    <3> QED
      BY <1>0, <2>4, <3>3, <3>4 DEF Serving
  <2>9. Fresh'
    BY <1>0, <2>1, <2>4, <2>6, <2>8 DEF Fresh
  <2> QED
    BY <2>3, <2>5, <2>9 DEF IInv
<1>7. ASSUME NEW k \in tasks, Publish(k) PROVE IInv'
  <2>1. gate # <<>> /\ gate[1] = k.m.from
    BY <1>0, <1>7 DEF Holding, Publish
  <2> QED
    BY <1>7, <2>1, Leave DEF Publish, Done
<1>8. ASSUME NEW k \in tasks, Forget(k) PROVE IInv'
  <2>1. /\ Goto(k, "clear")
        /\ documents' = [documents EXCEPT ![k.m.file] = NoDocument]
        /\ UNCHANGED <<editor, sent, inbox, gate>>
    BY <1>8 DEF Forget
  <2>2. Arriving' /\ Serving' /\ Queued' /\ Holding'
    BY <2>1, GoOn
  <2>3. NoDocument \in [text : Texts \cup {NoText}, from : Nat] /\ NoDocument.from = 0
    BY DEF NoDocument
  <2>4. Shapes'
    BY <1>0, <1>b, <2>1, <2>3 DEF Shapes, Goto
  <2>5. \A f \in Files : documents'[f] = documents[f] \/ documents'[f] = NoDocument
    BY <1>0, <2>1 DEF Shapes
  <2>6. /\ sent \in Nat
        /\ \A i \in 1..Len(gate) : gate[i] \in Nat
        /\ \A i \in 1..Len(inbox) : inbox[i].from \in Nat
    BY <1>0, Numbered DEF Shapes
  <2>7. Fresh'
    BY <1>0, <2>1, <2>3, <2>5, <2>6 DEF Fresh
  <2> QED
    BY <2>2, <2>4, <2>7 DEF IInv
<1>9. ASSUME NEW k \in tasks, Clear(k) PROVE IInv'
  <2>1. tasks' = tasks \ {k} /\ UNCHANGED <<editor, sent, inbox, gate, documents>>
    BY <1>9 DEF Clear, Done
  <2>2. Shapes' /\ Arriving' /\ Serving'
    BY <1>0, <2>1 DEF Shapes, Arriving, Serving
  <2>3. Queued' /\ Holding' /\ Fresh'
    BY <1>0, <2>1 DEF Queued, Holding, Fresh
  <2> QED
    BY <2>2, <2>3 DEF IInv
<1>10. CASE UNCHANGED vars
  <2>1. UNCHANGED <<editor, sent, inbox, tasks, gate, documents>>
    BY <1>10 DEF vars
  <2>2. Shapes' /\ Arriving' /\ Serving'
    BY <1>0, <2>1 DEF Shapes, Arriving, Serving
  <2>3. Queued' /\ Holding' /\ Fresh'
    BY <1>0, <2>1 DEF Queued, Holding, Fresh
  <2> QED
    BY <2>2, <2>3 DEF IInv
<1> QED
  BY <1>1, <1>2, <1>3, <1>4, <1>5, <1>6, <1>7, <1>8, <1>9, <1>10 DEF Next, Server

\* The document state of the server keeps the order of the messages.
THEOREM Invariance == Spec => []IInv
  BY InitIInv, NextIInv, PTL DEF Spec

\* No step replaces the snapshot of a file by one of an earlier message:
\* only Store writes one, its handler holds the gate, and nothing that held
\* the gate before it was newer.
THEOREM SnapshotsStayFresh == Spec => NoStaleOverwrite
<1> DEFINE Keeps == \A f \in Files : documents'[f] = NoDocument \/ documents'[f].from >= documents[f].from
<1>1. ASSUME IInv, [Next]_vars PROVE [Keeps]_vars
  <2>0. Shapes /\ Holding /\ Fresh
    BY <1>1 DEF IInv
  <2>1. \A f \in Files : documents[f].from \in Nat
    BY <2>0 DEF Shapes
  <2>2. ASSUME documents' = documents PROVE Keeps
    BY <2>1, <2>2
  <2>3. ASSUME NEW k \in tasks, Store(k) PROVE Keeps
    <3>1. gate # <<>> /\ gate[1] = k.m.from /\ gate \in Seq(Nat)
      BY <2>0, <2>3 DEF Holding, Store, Shapes
    <3>2. 1 \in 1..Len(gate) /\ gate[1] \in Nat
      BY <3>1
    <3>3. \A f \in Files : documents[f].from <= k.m.from
      BY <2>0, <3>1, <3>2 DEF Fresh
    <3>4. \A f \in Files : documents'[f] = documents[f] \/ documents'[f].from = k.m.from
      BY <2>0, <2>3 DEF Store, Shapes
    <3> QED
      BY <2>1, <3>1, <3>2, <3>3, <3>4
  <2>4. ASSUME NEW k \in tasks, Forget(k) PROVE Keeps
    <3>1. \A f \in Files : documents'[f] = documents[f] \/ documents'[f] = NoDocument
      BY <2>0, <2>4 DEF Forget, Shapes
    <3> QED
      BY <2>1, <3>1
  <2>5. ASSUME NEW f \in Files, NEW t, Open(f, t) \/ Change(f, t) \/ Save(f) \/ Close(f)
        PROVE  documents' = documents
    BY <2>5 DEF Open, Change, Save, Close, Send
  <2>6. ASSUME NEW k \in tasks, Start \/ Recompute(k) \/ Publish(k) \/ Clear(k)
        PROVE  documents' = documents
    BY <2>6 DEF Start, Recompute, Publish, Clear
  <2>7. Start => documents' = documents
    BY DEF Start
  <2>8. UNCHANGED vars => documents' = documents
    BY DEF vars
  <2> HIDE DEF Keeps
  <2> QED
    BY <1>1, <2>2, <2>3, <2>4, <2>5, <2>6, <2>7, <2>8 DEF Next, Server
<1> QED
  BY <1>1, Invariance, PTL DEF Spec, NoStaleOverwrite

-----------------------------------------------------------------------------
(* Catching up *)

\* A message waits in the inbox or for the gate.
LEMMA WaitingIs ==
  ASSUME NEW f, NEW m
  PROVE  m \in Waiting(f) <=>
           \/ \E i \in 1..Len(inbox) : inbox[i].file = f /\ m = inbox[i]
           \/ \E k \in tasks : k.pc = "gate" /\ k.m.file = f /\ m = k.m
BY DEF Waiting

\* What waits for a file depends on the inbox and the handlers only.
LEMMA SameWaiting ==
  ASSUME NEW f, \A m : m \in Waiting(f)' <=> m \in Waiting(f)
  PROVE  Waiting(f)' = Waiting(f)
BY DEF Waiting

\* Before the first message the server has what the editor has: nothing.
LEMMA InitCInv == Init => CInv
<1> SUFFICES ASSUME Init PROVE CInv
  OBVIOUS
<1>1. Mapped /\ Lined /\ Closing
  BY DEF Init, Mapped, Lined, Closing
<1>2. \A f \in Files : editor[f] = NoText /\ files[f] = NoText /\ shown[f] = NoText
                       /\ documents[f].text = NoText
  BY DEF Init, NoDocument
<1>3. \A f \in Files : \A m : m \notin Waiting(f)
  BY WaitingIs DEF Init
<1>4. Latest
  BY <1>2, <1>3 DEF Latest
<1>5. Settled
  BY <1>2 DEF Settled, Init
<1> QED
  BY <1>1, <1>4, <1>5 DEF CInv

\* A notification has the editor's text and the greatest number.
LEMMA SendCaught ==
  ASSUME IInv, CInv, NEW f \in Files, NEW t \in Texts \cup {NoText}, Send(f, t),
         everClosed \subseteq everClosed', t = NoText => f \in everClosed',
         f \notin everClosed' => editor'[f] = t,
         \A g \in Files \ {f} : editor'[g] = editor[g]
  PROVE  CInv'
<1> DEFINE m == [from |-> sent + 1, file |-> f, text |-> t]
<1>1. /\ Shapes /\ Arriving /\ Serving /\ Mapped /\ Lined /\ Closing /\ Latest /\ Settled
      /\ inbox' = Append(inbox, m)
      /\ UNCHANGED <<tasks, gate, files, documents, shown>>
  BY DEF IInv, CInv, Send
<1>2. sent \in Nat /\ inbox \in Seq(Messages) /\ m \in Messages
  BY <1>1 DEF Shapes, Messages
<1>3. /\ Len(inbox') = Len(inbox) + 1 /\ Len(inbox) \in Nat
      /\ \A i \in 1..Len(inbox) : inbox'[i] = inbox[i]
      /\ inbox'[Len(inbox) + 1] = m
  BY <1>1, <1>2, OneMore
<1>4. 1..Len(inbox') = 1..Len(inbox) \cup {Len(inbox) + 1}
  BY <1>3
<1>5. m.from = sent + 1 /\ m.file = f /\ m.text = t
  OBVIOUS
<1> HIDE DEF m
<1>6. Mapped' /\ Lined'
  BY <1>1 DEF Mapped, Lined
<1>7. Closing'
  BY <1>1, <1>3, <1>4, <1>5 DEF Closing
<1>8. Settled'
  BY <1>1 DEF Settled, Looking
<1>9. \A g, n : n \in Waiting(g)' <=>
        \/ \E i \in 1..Len(inbox') : inbox'[i].file = g /\ n = inbox'[i]
        \/ \E k \in tasks' : k.pc = "gate" /\ k.m.file = g /\ n = k.m
  BY DEF Waiting
<1>10. \A g, n : n \in Waiting(g)' <=> n \in Waiting(g) \/ (g = f /\ n = m)
  BY <1>1, <1>3, <1>4, <1>5, <1>9, WaitingIs
<1>11. \A g, n : n \in Waiting(g) => n.from \in Nat /\ n.from <= sent
  BY <1>1, <1>2, WaitingIs, Numbered DEF Arriving, Serving, Shapes
<1>12. Latest'
  <2> SUFFICES ASSUME NEW g \in Files \ everClosed'
               PROVE  /\ \A n \in Waiting(g)' : n.text = editor'[g]
                           \/ \E o \in Waiting(g)' : o.from > n.from
                      /\ Waiting(g)' = {} => files'[g] = editor'[g]
    BY DEF Latest
  <2>1. g \in Files \ everClosed
    OBVIOUS
  <2>2. CASE g = f
    <3>1. m \in Waiting(g)' /\ m.text = editor'[g]
      BY <2>2, <1>5, <1>10
    <3>2. \A n \in Waiting(g) : m.from > n.from
      BY <1>2, <1>5, <1>11
    <3> QED
      BY <2>2, <3>1, <3>2, <1>10
  <2>3. CASE g # f
    <3>1. Waiting(g)' = Waiting(g) /\ editor'[g] = editor[g] /\ files'[g] = files[g]
      BY <2>3, <1>1, <1>10, SameWaiting
    <3> QED
      BY <2>1, <3>1, <1>1 DEF Latest
  <2> QED
    BY <2>2, <2>3
<1> QED
  BY <1>6, <1>7, <1>8, <1>12 DEF CInv

\* A handler starts: on_change waits on, and did_close is at work only on a
\* file that was closed.
LEMMA StartCaught ==
  ASSUME IInv, CInv, Start
  PROVE  CInv'
<1> DEFINE m == Head(inbox)
<1>1. /\ Shapes /\ Mapped /\ Lined /\ Closing /\ Latest /\ Settled
      /\ inbox # <<>> /\ inbox' = Tail(inbox)
      /\ UNCHANGED <<editor, everClosed, documents, shown>>
  BY DEF IInv, CInv, Start
<1>2. inbox \in Seq(Messages) /\ gate \in Seq(Nat)
  BY <1>1 DEF Shapes
<1>3. /\ Len(inbox') = Len(inbox) - 1
      /\ \A i \in 1..Len(inbox') : i + 1 \in 1..Len(inbox) /\ inbox'[i] = inbox[i + 1]
      /\ Len(inbox) \in Nat \ {0} /\ m = inbox[1] /\ m \in Messages
  BY <1>1, <1>2, Rest
<1>4. \A i \in 1..Len(inbox) : i = 1 \/ (i - 1 \in 1..Len(inbox') /\ inbox'[i - 1] = inbox[i])
  BY <1>3
<1>5. 1 \in 1..Len(inbox) /\ m.from \in Nat
  BY <1>3, Numbered
<1>6. \/ /\ m.text # NoText /\ tasks' = tasks \cup {At(m, "gate")}
         /\ gate' = Append(gate, m.from) /\ files' = files
      \/ /\ m.text = NoText /\ tasks' = tasks \cup {At(m, "forget")}
         /\ gate' = gate /\ files' = [files EXCEPT ![m.file] = NoText]
  BY DEF Start
<1> HIDE DEF m
<1>7. \A g, n : n \in Waiting(g)' <=>
        \/ \E i \in 1..Len(inbox') : inbox'[i].file = g /\ n = inbox'[i]
        \/ \E k \in tasks' : k.pc = "gate" /\ k.m.file = g /\ n = k.m
  BY DEF Waiting
<1>8. \A g, n : (\E i \in 1..Len(inbox) : inbox[i].file = g /\ n = inbox[i]) <=>
        \/ \E i \in 1..Len(inbox') : inbox'[i].file = g /\ n = inbox'[i]
        \/ m.file = g /\ n = m
  BY <1>3, <1>4, <1>5
<1>9. \A pc : At(m, pc).m = m /\ At(m, pc).pc = pc
  BY DEF At
<1>10. CASE m.text # NoText /\ tasks' = tasks \cup {At(m, "gate")}
            /\ gate' = Append(gate, m.from) /\ files' = files
  <2>1. /\ Len(gate') = Len(gate) + 1 /\ Len(gate) \in Nat
        /\ \A i \in 1..Len(gate) : gate'[i] = gate[i]
        /\ gate'[Len(gate) + 1] = m.from
    BY <1>2, <1>5, <1>10, OneMore
  <2>b. \A g, n : (\E k \in tasks' : k.pc = "gate" /\ k.m.file = g /\ n = k.m) <=>
          \/ \E k \in tasks : k.pc = "gate" /\ k.m.file = g /\ n = k.m
          \/ m.file = g /\ n = m
    BY <1>9, <1>10
  <2>a. \A g, n : n \in Waiting(g)' <=> n \in Waiting(g)
    <3> TAKE g, n
    <3> DEFINE In == \E i \in 1..Len(inbox) : inbox[i].file = g /\ n = inbox[i]
               InNext == \E i \in 1..Len(inbox') : inbox'[i].file = g /\ n = inbox'[i]
               Asks == \E k \in tasks : k.pc = "gate" /\ k.m.file = g /\ n = k.m
               AsksNext == \E k \in tasks' : k.pc = "gate" /\ k.m.file = g /\ n = k.m
    <3>1. n \in Waiting(g) <=> In \/ Asks
      BY WaitingIs
    <3>2. n \in Waiting(g)' <=> InNext \/ AsksNext
      BY <1>7
    <3>3. In <=> InNext \/ (m.file = g /\ n = m)
      BY <1>3, <1>4, <1>5
    <3>4. AsksNext <=> Asks \/ (m.file = g /\ n = m)
      BY <2>b
    <3> HIDE DEF In, InNext, Asks, AsksNext
    <3> QED
      BY <3>1, <3>2, <3>3, <3>4
  <2>2. \A g : Waiting(g)' = Waiting(g)
    BY <2>a, SameWaiting
  <2>3. Mapped'
    BY <1>1, <1>10 DEF Mapped
  <2>4. Lined'
    BY <1>1, <1>9, <1>10, <2>1 DEF Lined
  <2>5. Closing'
    BY <1>1, <1>3, <1>9, <1>10 DEF Closing
  <2>6. Latest'
    BY <1>1, <1>10, <2>2 DEF Latest
  <2>7. Settled'
    BY <1>1, <1>9, <1>10 DEF Settled, Looking
  <2> QED
    BY <2>3, <2>4, <2>5, <2>6, <2>7 DEF CInv
<1>11. CASE m.text = NoText /\ tasks' = tasks \cup {At(m, "forget")}
            /\ gate' = gate /\ files' = [files EXCEPT ![m.file] = NoText]
  <2>1. m.file \in everClosed /\ m.file \in Files
    BY <1>1, <1>3, <1>5, <1>11 DEF Closing, Messages
  <2>a. \A g \in Files \ everClosed : \A n : n \in Waiting(g)' <=> n \in Waiting(g)
    BY <1>7, <1>8, <1>9, <1>11, <2>1, WaitingIs
  <2>b. \A g \in Files \ everClosed : files'[g] = files[g]
    BY <1>1, <1>11, <2>1 DEF Mapped
  <2>2. \A g \in Files \ everClosed : Waiting(g)' = Waiting(g) /\ files'[g] = files[g]
    BY <2>a, <2>b, SameWaiting
  <2>3. Mapped'
    BY <1>1, <1>11, <2>1 DEF Mapped
  <2>4. Lined'
    BY <1>1, <1>9, <1>11 DEF Lined
  <2>5. Closing'
    BY <1>1, <1>3, <1>9, <1>11, <2>1 DEF Closing
  <2>6. Latest'
    BY <1>1, <2>2 DEF Latest
  <2>7. Settled'
    BY <1>1, <1>9, <1>11, <2>2 DEF Settled, Looking
  <2> QED
    BY <2>3, <2>4, <2>5, <2>6, <2>7 DEF CInv
<1> QED
  BY <1>6, <1>10, <1>11

\* Only the holder of the gate is past it.
LEMMA OneLooks ==
  ASSUME IInv, NEW k \in tasks, gate[1] = k.m.from, NEW j \in tasks, Looking(j)
  PROVE  j = k
BY DEF IInv, Holding, Serving, Looking

\* What waits does not change when only handlers past the gate do.
LEMMA KeepWaiting ==
  ASSUME inbox' = inbox, \A k : k.pc = "gate" => (k \in tasks' <=> k \in tasks), NEW f
  PROVE  Waiting(f)' = Waiting(f)
<1>1. \A n : n \in Waiting(f)' <=>
        \/ \E i \in 1..Len(inbox') : inbox'[i].file = f /\ n = inbox'[i]
        \/ \E k \in tasks' : k.pc = "gate" /\ k.m.file = f /\ n = k.m
  BY DEF Waiting
<1>2. \A n : n \in Waiting(f)' <=> n \in Waiting(f)
  BY <1>1, WaitingIs
<1> QED
  BY <1>2, SameWaiting

\* The holder of the gate has the oldest message that waits; if it is the
\* last one of its file, its text is the editor's.
LEMMA RecomputeCaught ==
  ASSUME IInv, CInv, NEW k \in tasks, Recompute(k)
  PROVE  CInv'
<1> DEFINE file == k.m.file
<1>1. /\ Shapes /\ Arriving /\ Serving /\ Queued /\ Holding
      /\ Mapped /\ Lined /\ Closing /\ Latest /\ Settled
      /\ k.pc = "gate" /\ gate # <<>> /\ Head(gate) = k.m.from
      /\ UNCHANGED <<editor, everClosed, inbox, documents, shown>>
  BY DEF IInv, CInv, Recompute
<1>2. /\ gate \in Seq(Nat) /\ inbox \in Seq(Messages) /\ k.m \in Messages
      /\ \A j \in tasks : j.m \in Messages /\ j.m.from \in Nat
  BY <1>1, Numbered DEF Shapes
<1>3. /\ file \in Files /\ k.m.text \in Texts \cup {NoText} /\ k.m.from \in Nat
      /\ Head(gate) = gate[1] /\ 1 \in 1..Len(gate) /\ Len(gate) \in Nat \ {0}
  BY <1>1, <1>2, Rest DEF Messages
<1>4. \A g : \A n \in Waiting(g) : n.from \in Nat /\ k.m.from <= n.from
  <2>1. \A i \in 1..Len(inbox) : inbox[i].from \in Nat /\ k.m.from < inbox[i].from
    BY <1>1, <1>2, Numbered DEF Serving
  <2>2. \A i \in 1..Len(gate) : gate[i] \in Nat /\ (i = 1 \/ 1 < i)
    BY <1>2, <1>3
  <2>3. \A i \in 1..Len(gate) : k.m.from <= gate[i]
    BY <1>1, <1>3, <2>2 DEF Queued
  <2>4. \A j \in tasks : j.pc = "gate" => k.m.from <= j.m.from
    BY <1>1, <2>3 DEF Lined
  <2> QED
    BY <1>2, <1>3, <2>1, <2>4, WaitingIs
<1>5. k.m \in Waiting(file)
  BY <1>1, WaitingIs
<1>6. \/ /\ files[file] = k.m.text /\ tasks' = tasks \ {k} /\ gate' = Tail(gate) /\ files' = files
      \/ /\ files' = [files EXCEPT ![file] = k.m.text] /\ gate' = gate
         /\ tasks' = (tasks \ {k}) \cup {At(k.m, "store")}
  BY DEF Recompute, Done, Goto
<1>7. At(k.m, "store").m = k.m /\ At(k.m, "store").pc = "store"
  BY DEF At
<1>8. \A j : j.pc = "gate" => (j \in tasks' <=> j \in tasks /\ j # k)
  BY <1>6, <1>7
<1>9. /\ files'[file] = k.m.text
      /\ \A g \in Files \ {file} : files'[g] = files[g]
      /\ files' \in [Files -> Texts \cup {NoText}]
  BY <1>1, <1>3, <1>6 DEF Mapped
<1>10. Mapped'
  BY <1>1, <1>9 DEF Mapped
<1>11. Lined'
  <2> SUFFICES ASSUME NEW j \in tasks, j.pc = "gate", j # k
               PROVE  \E i \in 1..Len(gate') : gate'[i] = j.m.from
    BY <1>8 DEF Lined
  <2>1. PICK i \in 1..Len(gate) : gate[i] = j.m.from
    BY <1>1 DEF Lined
  <2>2. i # 1
    BY <1>1, <1>3, <2>1 DEF Serving
  <2>3. CASE gate' = gate
    BY <2>1, <2>3
  <2>4. CASE gate' = Tail(gate)
    <3>1. /\ Len(gate') = Len(gate) - 1
          /\ \A x \in 1..Len(gate') : gate'[x] = gate[x + 1]
      BY <1>1, <1>2, <2>4, Rest
    <3>2. i - 1 \in 1..Len(gate') /\ (i - 1) + 1 = i
      BY <1>3, <2>1, <2>2, <3>1
    <3>3. gate'[i - 1] = j.m.from
      BY <2>1, <3>1, <3>2
    <3> QED
      BY <3>2, <3>3
  <2> QED
    BY <1>6, <2>3, <2>4
<1>12. Closing'
  BY <1>1, <1>6, <1>7 DEF Closing
<1>13. \A g, n : n \in Waiting(g)' <=>
        \/ \E i \in 1..Len(inbox') : inbox'[i].file = g /\ n = inbox'[i]
        \/ \E j \in tasks' : j.pc = "gate" /\ j.m.file = g /\ n = j.m
  BY DEF Waiting
<1>14. \A g, n : n \in Waiting(g)' => n \in Waiting(g)
  BY <1>1, <1>8, <1>13, WaitingIs
<1>15. \A g, n : n \in Waiting(g) /\ ~(g = file /\ n = k.m) => n \in Waiting(g)'
  BY <1>1, <1>8, <1>13, WaitingIs
<1>16. Latest'
  <2> SUFFICES ASSUME NEW g \in Files \ everClosed
               PROVE  /\ \A n \in Waiting(g)' : n.text = editor[g]
                           \/ \E o \in Waiting(g)' : o.from > n.from
                      /\ Waiting(g)' = {} => files'[g] = editor[g]
    BY <1>1 DEF Latest
  <2>0. /\ \A n \in Waiting(g) : n.text = editor[g] \/ \E o \in Waiting(g) : o.from > n.from
        /\ Waiting(g) = {} => files[g] = editor[g]
    BY <1>1 DEF Latest
  <2>1. CASE g = file
    <3>1. ASSUME NEW n \in Waiting(g)', n.text # editor[g]
          PROVE  \E o \in Waiting(g)' : o.from > n.from
      <4>1. n \in Waiting(g) /\ n.from \in Nat /\ k.m.from <= n.from
        BY <3>1, <1>4, <1>14
      <4>2. PICK o \in Waiting(g) : o.from > n.from
        BY <2>0, <3>1, <4>1
      <4>3. o # k.m
        BY <1>3, <4>1, <4>2
      <4> QED
        BY <4>2, <4>3, <1>15
    <3>2. ASSUME Waiting(g)' = {} PROVE files'[g] = editor[g]
      <4>1. \A o \in Waiting(g) : o = k.m
        BY <3>2, <1>15
      <4>2. k.m.text = editor[g]
        BY <1>3, <1>5, <2>0, <2>1, <4>1
      <4> QED
        BY <1>9, <2>1, <4>2
    <3> QED
      BY <3>1, <3>2
  <2>2. CASE g # file
    <3>1. Waiting(g)' = Waiting(g)
      BY <2>2, <1>14, <1>15, SameWaiting
    <3> QED
      BY <2>0, <2>2, <3>1, <1>9
  <2> QED
    BY <2>1, <2>2
<1>17. Settled'
  <2>1. CASE tasks' = tasks \ {k} /\ files' = files
    BY <1>1, <2>1 DEF Settled, Looking
  <2>2. CASE tasks' = (tasks \ {k}) \cup {At(k.m, "store")}
    <3>1. \A j \in tasks : ~Looking(j)
      BY <1>1, <1>3, OneLooks DEF Looking
    <3>2. \A j \in tasks' : Looking(j) => j = At(k.m, "store")
      BY <2>2, <3>1
    <3>3. Looking(At(k.m, "store"))
      BY <1>7 DEF Looking
    <3>4. At(k.m, "store") \in tasks'
      BY <2>2
    <3> SUFFICES ASSUME NEW g \in Files \ everClosed
                 PROVE  /\ \A j \in tasks' : j.m.file = g /\ Looking(j) => files'[g] = j.m.text
                        /\ \A j \in tasks' : j.m.file = g /\ j.pc = "publish"
                             => documents[g].text = files'[g]
                        /\ (\A j \in tasks' : j.m.file = g => ~Looking(j)) =>
                             documents[g].text = files'[g] /\ shown[g] = files'[g]
      BY <1>1 DEF Settled, Looking
    <3>5. \A j \in tasks' : j.m.file = g /\ Looking(j) => files'[g] = j.m.text
      BY <1>7, <1>9, <3>2
    <3>6. \A j \in tasks' : j.pc # "publish"
      BY <1>7, <3>2 DEF Looking
    <3>7. documents[g].text = files[g] /\ shown[g] = files[g]
      BY <1>1, <3>1 DEF Settled
    <3> QED
      BY <1>7, <1>9, <3>3, <3>4, <3>5, <3>6, <3>7
  <2> QED
    BY <1>6, <2>1, <2>2
<1> QED
  BY <1>10, <1>11, <1>12, <1>16, <1>17 DEF CInv

\* A handler past the gate, or did_close, goes on: nothing that waits and no
\* input changes.
LEMMA GoOnCaught ==
  ASSUME CInv, NEW k \in tasks, k.pc # "gate", UNCHANGED <<editor, everClosed, inbox, files>>,
         shown' \in [Files -> Texts \cup {NoText}],
         \A j \in tasks' : j \in tasks \/ (j.m = k.m /\ j.pc # "gate" /\
                                           (j.pc \in {"forget", "clear"} => k.pc = "forget")),
         \A j \in tasks : j # k => j \in tasks',
         \A j \in tasks' : j.pc = "gate" => \E i \in 1..Len(gate') : gate'[i] = j.m.from
  PROVE  Mapped' /\ Lined' /\ Closing' /\ Latest'
<1>1. Mapped /\ Closing /\ Latest
  BY DEF CInv
<1>2. Mapped' /\ Lined'
  BY <1>1 DEF Mapped, Lined
<1>3. Closing'
  BY <1>1 DEF Closing
<1>4. \A g : Waiting(g)' = Waiting(g)
  BY KeepWaiting
<1>5. Latest'
  BY <1>1, <1>4 DEF Latest
<1> QED
  BY <1>2, <1>3, <1>5

\* The snapshot of the input is stored.
LEMMA StoreCaught ==
  ASSUME IInv, CInv, NEW k \in tasks, Store(k)
  PROVE  CInv'
<1>1. /\ Shapes /\ Holding /\ Mapped /\ Lined /\ Settled /\ k.pc = "store"
      /\ documents' = [documents EXCEPT ![k.m.file] = [text |-> k.m.text, from |-> k.m.from]]
      /\ tasks' = (tasks \ {k}) \cup {At(k.m, "publish")}
      /\ UNCHANGED <<editor, everClosed, inbox, gate, files, shown>>
  BY DEF IInv, CInv, Store, Goto
<1>2. At(k.m, "publish").m = k.m /\ At(k.m, "publish").pc = "publish"
  BY DEF At
<1>3. Mapped' /\ Lined' /\ Closing' /\ Latest'
  BY <1>1, <1>2, GoOnCaught DEF Mapped, Lined
<1>4. \A j \in tasks' : Looking(j) => j = At(k.m, "publish")
  BY <1>1, OneLooks DEF Looking, Holding
<1>5. \A g \in Files : /\ g = k.m.file => documents'[g].text = k.m.text
                       /\ g # k.m.file => documents'[g] = documents[g]
  BY <1>1 DEF Shapes
<1>6. Settled'
  <2> SUFFICES ASSUME NEW g \in Files \ everClosed
               PROVE  /\ \A j \in tasks' : j.m.file = g /\ Looking(j) => files[g] = j.m.text
                      /\ \A j \in tasks' : j.m.file = g /\ j.pc = "publish"
                           => documents'[g].text = files[g]
                      /\ (\A j \in tasks' : j.m.file = g => ~Looking(j)) =>
                           documents'[g].text = files[g] /\ shown[g] = files[g]
    BY <1>1 DEF Settled, Looking
  <2>1. CASE g = k.m.file
    <3>1. files[g] = k.m.text
      BY <1>1, <2>1 DEF Settled, Looking
    <3>2. At(k.m, "publish") \in tasks' /\ Looking(At(k.m, "publish"))
      BY <1>1, <1>2 DEF Looking
    <3> QED
      BY <1>2, <1>4, <1>5, <2>1, <3>1, <3>2
  <2>2. CASE g # k.m.file
    <3>1. \A j \in tasks' : j.m.file = g => ~Looking(j) /\ j.pc # "publish"
      BY <1>2, <1>4, <2>2 DEF Looking
    <3>2. \A j \in tasks : j.m.file = g => ~Looking(j)
      BY <1>1, <2>2, <3>1
    <3> QED
      BY <1>1, <1>5, <2>2, <3>1, <3>2 DEF Settled
  <2> QED
    BY <2>1, <2>2
<1> QED
  BY <1>3, <1>6 DEF CInv

\* The diagnostics of the input go out.
LEMMA PublishCaught ==
  ASSUME IInv, CInv, NEW k \in tasks, Publish(k)
  PROVE  CInv'
<1>1. /\ Shapes /\ Holding /\ Serving /\ Mapped /\ Lined /\ Settled /\ k.pc = "publish"
      /\ shown' = [shown EXCEPT ![k.m.file] = k.m.text]
      /\ tasks' = tasks \ {k} /\ gate' = Tail(gate)
      /\ UNCHANGED <<editor, everClosed, inbox, files, documents>>
  BY DEF IInv, CInv, Publish, Done
<1>2. /\ gate # <<>> /\ gate[1] = k.m.from /\ gate \in Seq(Nat)
      /\ k.m.file \in Files /\ k.m.text \in Texts \cup {NoText}
  BY <1>1 DEF Holding, Shapes, Messages
<1>3. /\ Len(gate') = Len(gate) - 1 /\ Len(gate) \in Nat \ {0}
      /\ \A x \in 1..Len(gate') : gate'[x] = gate[x + 1]
  BY <1>1, <1>2, Rest
<1>4. \A j \in tasks' : j.pc = "gate" => \E i \in 1..Len(gate') : gate'[i] = j.m.from
  <2> SUFFICES ASSUME NEW j \in tasks, j # k, j.pc = "gate"
               PROVE  \E i \in 1..Len(gate') : gate'[i] = j.m.from
    BY <1>1
  <2>1. PICK i \in 1..Len(gate) : gate[i] = j.m.from
    BY <1>1 DEF Lined
  <2>2. i # 1
    BY <1>1, <1>2, <2>1 DEF Serving
  <2>3. i - 1 \in 1..Len(gate') /\ (i - 1) + 1 = i
    BY <1>3, <2>1, <2>2
  <2>4. gate'[i - 1] = j.m.from
    BY <1>3, <2>1, <2>3
  <2> QED
    BY <2>3, <2>4
<1>5. shown' \in [Files -> Texts \cup {NoText}]
  BY <1>1, <1>2 DEF Mapped
<1>6. Mapped' /\ Lined' /\ Closing' /\ Latest'
  BY <1>1, <1>4, <1>5, GoOnCaught
<1>7. \A j \in tasks' : ~Looking(j)
  BY <1>1, <1>2, OneLooks
<1>8. \A g \in Files \ everClosed : documents[g].text = files[g] /\ shown'[g] = files[g]
  <2> TAKE g \in Files \ everClosed
  <2>1. CASE g = k.m.file
    BY <1>1, <1>2, <2>1 DEF Settled, Looking, Mapped
  <2>2. CASE g # k.m.file
    <3>1. \A j \in tasks : j.m.file = g => ~Looking(j)
      BY <1>1, <1>7, <2>2
    <3> QED
      BY <1>1, <1>2, <2>2, <3>1 DEF Settled, Mapped
  <2> QED
    BY <2>1, <2>2
<1>9. Settled'
  BY <1>1, <1>7, <1>8 DEF Settled, Looking
<1> QED
  BY <1>6, <1>9 DEF CInv

\* did_close is at work on a file that was closed.
LEMMA CloseCaught ==
  ASSUME IInv, CInv, NEW k \in tasks, Forget(k) \/ Clear(k)
  PROVE  CInv'
<1>1. /\ Shapes /\ Mapped /\ Lined /\ Closing /\ Settled
      /\ UNCHANGED <<editor, everClosed, inbox, gate, files>>
      /\ \/ /\ k.pc = "forget" /\ tasks' = (tasks \ {k}) \cup {At(k.m, "clear")}
            /\ documents' = [documents EXCEPT ![k.m.file] = NoDocument] /\ shown' = shown
         \/ /\ k.pc = "clear" /\ tasks' = tasks \ {k}
            /\ shown' = [shown EXCEPT ![k.m.file] = NoText] /\ documents' = documents
  BY DEF IInv, CInv, Forget, Clear, Goto, Done
<1>2. At(k.m, "clear").m = k.m /\ At(k.m, "clear").pc = "clear"
  BY DEF At
<1>3. k.m.file \in everClosed /\ k.m.file \in Files
  BY <1>1 DEF Closing, Shapes, Messages
<1>4. shown' \in [Files -> Texts \cup {NoText}]
  BY <1>1 DEF Mapped
<1>5. \A j \in tasks' : j \in tasks \/ j = At(k.m, "clear")
  BY <1>1
<1>6. Mapped' /\ Lined' /\ Closing' /\ Latest'
  <2>1. k.pc # "gate" /\ \A j \in tasks : j # k => j \in tasks'
    BY <1>1
  <2>2. \A j \in tasks' : j \in tasks \/ (j.m = k.m /\ j.pc # "gate" /\
                                          (j.pc \in {"forget", "clear"} => k.pc = "forget"))
    BY <1>1, <1>2
  <2>3. \A j \in tasks' : j.pc = "gate" => \E i \in 1..Len(gate') : gate'[i] = j.m.from
    BY <1>1, <1>2, <1>5 DEF Lined
  <2> QED
    BY <1>1, <1>4, <2>1, <2>2, <2>3, GoOnCaught
<1>7. \A g \in Files \ everClosed : documents'[g] = documents[g] /\ shown'[g] = shown[g]
  BY <1>1, <1>3 DEF Shapes, Mapped
<1>8. \A j : Looking(j) => (j \in tasks' <=> j \in tasks)
  BY <1>1, <1>2 DEF Looking
<1>9. Settled'
  BY <1>1, <1>7, <1>8 DEF Settled, Looking
<1> QED
  BY <1>6, <1>9 DEF CInv

\* Every step keeps what the server has and what it still has to do together
\* at the editor's texts.
LEMMA NextCInv == IInv /\ CInv /\ [Next]_vars => CInv'
<1> SUFFICES ASSUME IInv, CInv, [Next]_vars PROVE CInv'
  OBVIOUS
<1>0. editor \in [Files -> Texts \cup {NoText}]
  BY DEF IInv, Shapes
<1>1. ASSUME NEW f \in Files, NEW t \in Texts, Open(f, t) \/ Change(f, t) PROVE CInv'
  BY <1>0, <1>1, SendCaught, TextsAssumption DEF Open, Change
<1>2. ASSUME NEW f \in Files, Save(f) PROVE CInv'
  BY <1>0, <1>2, SendCaught DEF Save
<1>3. ASSUME NEW f \in Files, Close(f) PROVE CInv'
  BY <1>0, <1>3, SendCaught DEF Close
<1>4. ASSUME NEW k \in tasks, Recompute(k) \/ Store(k) \/ Publish(k) \/ Forget(k) \/ Clear(k)
      PROVE  CInv'
  BY <1>4, RecomputeCaught, StoreCaught, PublishCaught, CloseCaught
<1>5. CASE UNCHANGED vars
  <2>1. UNCHANGED <<editor, everClosed, inbox, tasks, gate, files, documents, shown>>
    BY <1>5 DEF vars
  <2>2. \A g : Waiting(g)' = Waiting(g)
    BY <2>1, KeepWaiting
  <2>3. Mapped' /\ Lined' /\ Closing' /\ Settled'
    BY <2>1 DEF CInv, Mapped, Lined, Closing, Settled, Looking
  <2>4. Latest'
    BY <2>1, <2>2 DEF CInv, Latest
  <2> QED
    BY <2>3, <2>4 DEF CInv
<1> QED
  BY <1>1, <1>2, <1>3, <1>4, <1>5, StartCaught DEF Next, Server

\* A server with nothing left to do has, for every file that was not closed,
\* the snapshot and the diagnostics of the editor's text: no change is lost,
\* whatever on_change skips and whichever handlers overtake each other.
THEOREM NoChangeIsLost == Spec => []CaughtUp
<1>1. IInv /\ CInv => CaughtUp
  <2> SUFFICES ASSUME IInv, CInv, Quiet, NEW f \in Files \ everClosed
               PROVE  documents[f].text = editor[f] /\ shown[f] = editor[f]
    BY DEF CaughtUp
  <2>1. \A m : m \notin Waiting(f)
    BY WaitingIs DEF Quiet
  <2>2. files[f] = editor[f]
    BY <2>1 DEF CInv, Latest
  <2>3. documents[f].text = files[f] /\ shown[f] = files[f]
    BY DEF CInv, Settled, Quiet
  <2> QED
    BY <2>2, <2>3
<1> QED
  BY <1>1, InitCInv, NextCInv, Invariance, PTL DEF Spec
=============================================================================
