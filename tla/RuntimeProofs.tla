--------------------------- MODULE RuntimeProofs ---------------------------
(***************************************************************************)
(* Proofs about Runtime, for every set of programs, capabilities and       *)
(* operations, any number of processes and any number of edits: the        *)
(* sandbox, the audit trail, and deterministic replay.                     *)
(***************************************************************************)
EXTENDS Runtime, FiniteSetTheorems, TLAPS

Auth(o) == [kind |-> "auth", cap |-> CapOf[o], by |-> o]

\* An interpreter that still asks is inside the requests of its item.
Shape(s) ==
  LET item == ItemAt[s.at]
  IN  /\ s.end = "none" =>
          \/ /\ item.kind = "effect"
             /\ \/ s.todo = <<Auth(item.op), [kind |-> "call", op |-> item.op, input |-> item.input]>>
                \/ s.todo = <<[kind |-> "call", op |-> item.op, input |-> item.input]>>
          \/ /\ item.kind = "enter" /\ s.todo # <<>>
             /\ \A i \in 1..Len(s.todo) : s.todo[i].kind = "auth"
      /\ s.end = "exit" => item.kind = "exit"

Working == phase \in {"run", "record"}
AtCall == st.end = "none" /\ Head(st.todo).kind = "call"

\* Which phases a process of each kind goes through.
PhasesOK ==
  /\ phase # "idle" => kind # "none"
  /\ phase \in {"print", "header", "record"} => kind = "run"
  /\ phase \in {"print", "header"} => logging
  /\ phase = "record" => AtCall /\ answer.tag \in {"ok", "err"}
  /\ Working => Shape(st)
  /\ Replaying => ~logging

\* A run about to call the host has been granted the capability ...
Cleared == kind = "run" /\ Working /\ AtCall => CapOf[Head(st.todo).op] \in grants

\* ... and has just logged that it was.
ClearedInLog ==
  kind = "run" /\ Working /\ AtCall /\ logging =>
    /\ log # <<>>
    /\ log[Len(log)].request = Auth(Head(st.todo).op)
    /\ log[Len(log)].answer.tag = "allowed"

\* The log and the states of the run that wrote it.
Written ==
  /\ recorded = NoSource => log = <<>> /\ hist = <<>>
  /\ recorded # NoSource =>
       /\ Len(hist) = Len(log) + 1
       /\ \A k \in 1..Len(log) :
            /\ hist[k].end = "none"
            /\ log[k].seq = k - 1
            /\ log[k].request = Head(hist[k].todo)
            /\ hist[k + 1] = After(hist[k], log[k].answer)
       /\ hist[1] = Load(Start[recorded])
       /\ ended \in {"exit", "fault", "denied", "failed"} => hist[Len(hist)].end = ended

\* A recording run is where its log says it is.
Recording ==
  kind = "run" /\ logging =>
    /\ phase = "source" => recorded = NoSource /\ ended = "none" /\ seq = 0
    /\ Working =>
         /\ recorded = prog /\ ended = "none"
         /\ st.end # "replaylog" => st = hist[Len(hist)] /\ seq = Len(log)

\* A replay of the recorded program follows the recording.
Following ==
  Replaying /\ phase = "run" /\ prog = recorded =>
    /\ seq = taken
    /\ st.end # "replaylog" => st = hist[taken + 1]
    /\ st.end = "replaylog" => taken = Len(log) /\ hist[Len(hist)].end = "none"

Served(r, e) ==
  \/ r = e.request
  \/ /\ kind = "replay" /\ r.kind = "call" /\ e.request.kind = "call"
     /\ r.op = e.request.op /\ r.op \notin ReadOps

\* What a replay asked for is what it was served, event by event.
Serving ==
  /\ Replaying /\ phase \in {"source", "run"} => events = log
  /\ Replaying /\ phase = "source" => asked = <<>> /\ taken = 0 /\ seq = 0
  /\ Replaying /\ phase = "run" /\ st.end # "replaylog" =>
       Len(asked) = taken /\ \A i \in 1..Len(asked) : Served(asked[i], events[i])

IInv ==
  /\ TypeOK /\ PhasesOK /\ Cleared /\ ClearedInLog /\ Written /\ Recording
  /\ Following /\ Serving
  /\ Sandboxed /\ AuthorizedInLog /\ ReplayReachesSameEnd /\ SuccessfulReplayMatchesLog
-----------------------------------------------------------------------------
(* The interpreter *)

\* Appending an element changes a sequence.
LEMMA Grows ==
  ASSUME NEW S, NEW q \in Seq(S), NEW e
  PROVE  Append(q, e) # q /\ Append(q, e) # <<>>
<1>1. Len(Append(q, e)) = Len(q) + 1 /\ Len(q) \in Nat
  OBVIOUS
<1> QED
  BY <1>1

\* What is left of a todo list of more than one item once its head is taken.
LEMMA TailFacts ==
  ASSUME NEW S, NEW q \in Seq(S), Len(q) > 1
  PROVE  /\ Tail(q) \in Seq(S) /\ Tail(q) # <<>>
         /\ Len(Tail(q)) = Len(q) - 1
         /\ \A i \in 1..Len(Tail(q)) : Tail(q)[i] = q[i + 1]
<1>1. q # <<>> /\ Len(q) \in Nat /\ Len(q) >= 2
  OBVIOUS
<1>2. Tail(q) \in Seq(S) /\ Len(Tail(q)) = Len(q) - 1
  BY <1>1
<1>3. \A i \in 1..Len(Tail(q)) : Tail(q)[i] = q[i + 1]
  BY <1>1, <1>2
<1>4. Len(Tail(q)) # 0
  BY <1>1, <1>2
<1>5. Tail(q) # <<>>
  BY <1>2, <1>4
<1> QED
  BY <1>2, <1>3, <1>5

\* A point is loaded with the requests of its item, the first one a check.
LEMMA LoadShape ==
  ASSUME NEW x \in Points
  PROVE  /\ Load(x) \in States /\ Shape(Load(x))
         /\ Load(x).end # "replaylog"
         /\ Load(x).end = "none" => Head(Load(x).todo).kind = "auth"
<1> DEFINE item == ItemAt[x]
<1>1. item \in Items
  BY RuntimeAssumption
<1>2. CASE item.kind = "effect"
  <2>1. item.op \in Ops /\ item.input \in Texts
    BY <1>1, <1>2, Zenon DEF Items
  <2>2. Load(x) = [at |-> x, end |-> "none",
                   todo |-> <<Auth(item.op), [kind |-> "call", op |-> item.op, input |-> item.input]>>]
    BY <1>2 DEF Load, RequestsOf, Auth
  <2>3. Auth(item.op) \in Requests
    BY <2>1, RuntimeAssumption DEF Auth, Requests, AuthRequests
  <2>4. [kind |-> "call", op |-> item.op, input |-> item.input] \in Requests
    BY <2>1 DEF Requests, CallRequests
  <2> QED
    BY <1>2, <2>2, <2>3, <2>4 DEF States, Ends, Shape, Auth
<1>3. CASE item.kind = "enter"
  <2>1. item.caps \in Seq(Caps) /\ item.caps # <<>> /\ item.fn \in Fns
    BY <1>1, <1>3, Zenon DEF Items
  <2> DEFINE t == [i \in 1..Len(item.caps) |->
                     [kind |-> "auth", cap |-> item.caps[i], by |-> item.fn]]
  <2>2. t \in Seq(Requests) /\ t # <<>> /\ Len(t) = Len(item.caps)
    BY <2>1 DEF Requests, AuthRequests
  <2>3. \A i \in 1..Len(t) : t[i].kind = "auth"
    BY <2>1, <2>2
  <2>4. Load(x) = [at |-> x, end |-> "none", todo |-> t]
    BY <1>3 DEF Load, RequestsOf
  <2>5. Head(t).kind = "auth"
    BY <2>2, <2>3
  <2> HIDE DEF t
  <2> QED
    BY <1>3, <2>2, <2>3, <2>4, <2>5 DEF States, Ends, Shape
<1>4. CASE item.kind \in {"exit", "fault"}
  BY <1>4 DEF Load, RequestsOf, States, Ends, Shape
<1> QED
  BY <1>1, <1>2, <1>3, <1>4, Zenon DEF Items

\* An interpreter that still asks has a request to make.
LEMMA Requesting ==
  ASSUME NEW s \in States, Shape(s), s.end = "none"
  PROVE  s.todo # <<>> /\ Head(s.todo) \in Requests
BY DEF States, Shape

\* An answer leads to a well-formed interpreter; if that one is about to call
\* the host, the answer was to the builtin check of the operation.
LEMMA AfterShape ==
  ASSUME NEW s \in States, Shape(s), s.end = "none", NEW a \in Answers
  PROVE  LET n == After(s, a)
         IN  /\ n \in States /\ Shape(n) /\ n.end # "replaylog"
             /\ n.end = "none" /\ Head(n.todo).kind = "call" =>
                  /\ a.tag \notin {"denied", "err"}
                  /\ Head(s.todo) = Auth(Head(n.todo).op)
<1>1. CASE a.tag \in {"denied", "err"}
  BY <1>1, Zenon DEF After, States, Ends, Shape
<1>2. CASE a.tag \notin {"denied", "err"} /\ ~(Len(s.todo) > 1)
  <2>1. Goto[s.at][a] \in Points
    BY RuntimeAssumption DEF States
  <2>2. After(s, a) = Load(Goto[s.at][a])
    BY <1>2 DEF After
  <2> QED
    BY <2>1, <2>2, LoadShape
<1>3. CASE a.tag \notin {"denied", "err"} /\ Len(s.todo) > 1
  <2>1. After(s, a) = [s EXCEPT !.todo = Tail(s.todo)]
    BY <1>3 DEF After
  <2>2. s.todo \in Seq(Requests) /\ s.todo # <<>>
    BY <1>3 DEF States
  <2>5. /\ Tail(s.todo) \in Seq(Requests) /\ Tail(s.todo) # <<>>
        /\ Len(Tail(s.todo)) = Len(s.todo) - 1
        /\ \A i \in 1..Len(Tail(s.todo)) : Tail(s.todo)[i] = s.todo[i + 1]
    BY <1>3, <2>2, TailFacts
  <2>3. CASE ItemAt[s.at].kind = "effect"
    <3> DEFINE c == [kind |-> "call", op |-> ItemAt[s.at].op, input |-> ItemAt[s.at].input]
    <3>3. Len(<<c>>) = 1
      OBVIOUS
    <3>1. s.todo = <<Auth(ItemAt[s.at].op), c>>
      <4>1. s.todo = <<c>> \/ s.todo = <<Auth(ItemAt[s.at].op), c>>
        BY <2>3 DEF Shape
      <4>2. ASSUME s.todo = <<c>> PROVE FALSE
        <5>1. Len(s.todo) = 1
          BY <4>2, <3>3
        <5> QED
          BY <5>1, <1>3
      <4> QED
        BY <4>1, <4>2
    <3>2. Tail(s.todo) = <<c>> /\ Head(Tail(s.todo)) = c /\ Head(s.todo) = Auth(ItemAt[s.at].op)
      BY <3>1
    <3> QED
      BY <1>3, <2>1, <2>2, <2>5, <2>3, <3>2 DEF States, Shape
  <2>4. CASE ItemAt[s.at].kind = "enter"
    <3>1. \A i \in 1..Len(s.todo) : s.todo[i].kind = "auth"
      BY <2>4 DEF Shape
    <3>2. \A i \in 1..Len(Tail(s.todo)) : Tail(s.todo)[i].kind = "auth"
      BY <2>5, <3>1
    <3>3. Head(Tail(s.todo)).kind = "auth"
      BY <2>5, <3>2
    <3> QED
      BY <2>1, <2>2, <2>5, <2>4, <3>2, <3>3, ZenonT(40) DEF States, Shape
  <2> QED
    BY <2>3, <2>4 DEF Shape
<1> QED
  BY <1>1, <1>2, <1>3

-----------------------------------------------------------------------------
(* The invariant *)

\* The request an interpreter is about to make.
LEMMA RequestType ==
  ASSUME TypeOK, PhasesOK, Working, st.end = "none"
  PROVE  Request \in Requests /\ st \in States /\ Shape(st)
BY Requesting DEF TypeOK, PhasesOK, Request

\* One more line in the log, one more state in its history.
LEMMA AppendLine ==
  ASSUME TypeOK, PhasesOK, Written, Recording, AuthorizedInLog, ClearedInLog,
         Working, kind = "run", logging, st.end = "none", NEW a \in Answers,
         log' = Append(log, [seq |-> seq, request |-> Request, answer |-> a]),
         hist' = Append(hist, After(st, a)),
         UNCHANGED <<recorded, ended>>
  PROVE  /\ log' \in Seq(Events) /\ hist' \in Seq(States)
         /\ Len(log') = Len(log) + 1 /\ log'[Len(log')].request = Request
         /\ log'[Len(log')].answer = a
         /\ hist'[Len(hist')] = After(st, a)
         /\ Written' /\ AuthorizedInLog'
<1> DEFINE line == [seq |-> seq, request |-> Request, answer |-> a]
<1>1. Request \in Requests /\ st \in States /\ Shape(st)
  BY RequestType
<1>2. line \in Events /\ After(st, a) \in States
  BY <1>1, AfterShape DEF TypeOK, Events
<1>3. /\ recorded \in Programs /\ recorded # NoSource /\ ended = "none"
      /\ st = hist[Len(hist)] /\ seq = Len(log)
  BY RuntimeAssumption DEF Recording, TypeOK
<1>4. /\ Len(hist) = Len(log) + 1
      /\ \A k \in 1..Len(log) :
            /\ hist[k].end = "none"
            /\ log[k].seq = k - 1
            /\ log[k].request = Head(hist[k].todo)
            /\ hist[k + 1] = After(hist[k], log[k].answer)
      /\ hist[1] = Load(Start[recorded])
  BY <1>3 DEF Written
<1>5. log \in Seq(Events) /\ hist \in Seq(States)
  BY DEF TypeOK
<1> HIDE DEF line
<1>6. /\ log' \in Seq(Events) /\ Len(log') = Len(log) + 1
      /\ \A k \in 1..Len(log) : log'[k] = log[k]
      /\ log'[Len(log) + 1] = line
  BY <1>2, <1>5 DEF line
<1>7. /\ hist' \in Seq(States) /\ Len(hist') = Len(hist) + 1
      /\ \A k \in 1..Len(hist) : hist'[k] = hist[k]
      /\ hist'[Len(hist) + 1] = After(st, a)
  BY <1>2, <1>5
<1>8. line.seq = Len(log) /\ line.request = Head(st.todo) /\ line.answer = a
  BY <1>3 DEF line, Request
<1>9. Written'
  <2>1. \A k \in 1..Len(log') :
            /\ hist'[k].end = "none"
            /\ log'[k].seq = k - 1
            /\ log'[k].request = Head(hist'[k].todo)
            /\ hist'[k + 1] = After(hist'[k], log'[k].answer)
    <3> TAKE k \in 1..Len(log')
    <3>1. CASE k \in 1..Len(log)
      <4>1. k \in 1..Len(hist) /\ k + 1 \in 1..Len(hist)
        BY <3>1, <1>4, <1>5
      <4> QED
        BY <3>1, <4>1, <1>4, <1>6, <1>7
    <3>2. CASE k = Len(log) + 1
      <4>1. k = Len(hist) /\ k \in 1..Len(hist) /\ k + 1 = Len(hist) + 1
        BY <3>2, <1>4, <1>5
      <4>2. hist'[k] = st /\ log'[k] = line /\ hist'[k + 1] = After(st, a)
        BY <3>2, <4>1, <1>3, <1>6, <1>7
      <4> QED
        BY <3>2, <4>2, <1>5, <1>8
    <3>3. Len(log) \in Nat /\ (k \in 1..Len(log) \/ k = Len(log) + 1)
      BY <1>5, <1>6
    <3> QED
      BY <3>1, <3>2, <3>3, Zenon
  <2>2. Len(hist') = Len(log') + 1
    BY <1>4, <1>5, <1>6, <1>7
  <2>3. hist'[1] = Load(Start[recorded'])
    BY <1>4, <1>5, <1>7
  <2> QED
    BY <1>3, <2>1, <2>2, <2>3 DEF Written
<1>10. AuthorizedInLog'
  <2> SUFFICES ASSUME NEW i \in 1..Len(log'), log'[i].request.kind = "call"
               PROVE  /\ i > 1
                      /\ log'[i - 1].request = [kind |-> "auth", cap |-> CapOf[log'[i].request.op],
                                                 by |-> log'[i].request.op]
                      /\ log'[i - 1].answer.tag = "allowed"
    BY <1>6 DEF AuthorizedInLog
  <2>1. CASE i \in 1..Len(log)
    <3>3. log'[i] = log[i] /\ DOMAIN log = 1..Len(log)
      BY <2>1, <1>5, <1>6
    <3>4. i \in DOMAIN log /\ log[i].request.kind = "call"
      BY <2>1, <3>3
    <3>1. log'[i] = log[i] /\ i > 1 /\ log[i - 1].answer.tag = "allowed"
          /\ log[i - 1].request = [kind |-> "auth", cap |-> CapOf[log[i].request.op],
                                    by |-> log[i].request.op]
      BY <3>3, <3>4 DEF AuthorizedInLog
    <3>2. log'[i - 1] = log[i - 1]
      BY <2>1, <3>1, <1>5, <1>6
    <3> QED
      BY <3>1, <3>2
  <2>2. CASE i = Len(log) + 1
    <3>1. log'[i].request = Request /\ AtCall
      BY <2>2, <1>6, <1>8 DEF AtCall, Request
    <3>2. /\ log # <<>>
          /\ log[Len(log)].request = Auth(Request.op)
          /\ log[Len(log)].answer.tag = "allowed"
      BY <3>1 DEF ClearedInLog, Request
    <3>3. Len(log) \in 1..Len(log) /\ i - 1 = Len(log) /\ i > 1
      BY <2>2, <3>2, <1>5
    <3>4. log'[i - 1] = log[Len(log)]
      BY <3>3, <1>6
    <3> QED
      BY <3>1, <3>2, <3>3, <3>4 DEF Auth
  <2>3. i \in 1..Len(log) \/ i = Len(log) + 1
    BY <1>5, <1>6
  <2> QED
    BY <2>1, <2>2, <2>3
<1> QED
  BY <1>5, <1>6, <1>7, <1>8, <1>9, <1>10 DEF Request

\* What a step that leaves the log alone, empties it, or is not working on
\* the program cannot disturb.
LEMMA LogFrame ==
  ASSUME Written, AuthorizedInLog, UNCHANGED <<log, hist, recorded>>,
         ended' \in {ended, "killed", "compile"}
  PROVE  Written' /\ AuthorizedInLog'
<1>1. Written'
  BY DEF Written
<1>2. AuthorizedInLog'
  BY Zenon DEF AuthorizedInLog
<1> QED
  BY <1>1, <1>2

LEMMA LogReset ==
  ASSUME log' = <<>>, hist' = <<>>, recorded' = NoSource
  PROVE  Written' /\ AuthorizedInLog'
<1>1. DOMAIN log' = {}
  OBVIOUS
<1> QED
  BY <1>1 DEF Written, AuthorizedInLog

LEMMA HostFrame ==
  ASSUME Sandboxed, UNCHANGED <<host, grants>>
  PROVE  Sandboxed'
BY Zenon DEF Sandboxed

\* What authorize and call record keeps the invariant.
LEMMA RecordStep ==
  ASSUME TypeOK, PhasesOK, Cleared, ClearedInLog, Written, Recording, Following, Serving,
         Sandboxed, AuthorizedInLog, ReplayReachesSameEnd, SuccessfulReplayMatchesLog,
         Working, kind = "run", st.end = "none", NEW a \in Answers, Record(a),
         Request.kind = "auth" =>
           a.tag = IF Request.cap \in grants THEN "allowed" ELSE "denied",
         phase' = "run",
         UNCHANGED <<source, header, kind, grants, logging, print, prog, answer, events,
                     taken, outcome, sessions, edits, host, recorded, ended, asked>>
  PROVE  IInv'
<1>1. Request \in Requests /\ st \in States /\ Shape(st)
  BY RequestType
<1>2. /\ After(st, a) \in States /\ Shape(After(st, a)) /\ After(st, a).end # "replaylog"
      /\ After(st, a).end = "none" /\ Head(After(st, a).todo).kind = "call" =>
           /\ a.tag \notin {"denied", "err"}
           /\ Request = Auth(Head(After(st, a).todo).op)
  BY <1>1, AfterShape DEF Request
<1>3. \/ st' = After(st, a)
      \/ st' = [st EXCEPT !.end = "replaylog"]
  BY DEF Record
<1>4. st' \in States /\ Shape(st')
  BY <1>1, <1>2, <1>3, Zenon DEF States, Ends, Shape
<1>5. AtCall' => /\ st' = After(st, a) /\ a.tag = "allowed"
                 /\ Request = Auth(Head(st'.todo).op)
                 /\ CapOf[Head(st'.todo).op] \in grants
  <2> SUFFICES ASSUME AtCall'
               PROVE  /\ st' = After(st, a) /\ a.tag = "allowed"
                      /\ Request = Auth(Head(st'.todo).op)
                      /\ CapOf[Head(st'.todo).op] \in grants
    OBVIOUS
  <2>1. st' = After(st, a)
    BY <1>1, <1>3 DEF AtCall, States
  <2>2. a.tag \notin {"denied", "err"} /\ Request = Auth(Head(st'.todo).op)
    BY <2>1, <1>2 DEF AtCall
  <2> QED
    BY <2>1, <2>2 DEF Auth
<1>6. \/ UNCHANGED <<log, hist>>
      \/ /\ logging
         /\ log' = Append(log, [seq |-> seq, request |-> Request, answer |-> a])
         /\ hist' = Append(hist, After(st, a))
  BY DEF Record
<1>7. logging /\ ~UNCHANGED <<log, hist>> =>
        /\ log' \in Seq(Events) /\ hist' \in Seq(States)
        /\ Len(log') = Len(log) + 1 /\ log'[Len(log')].request = Request
        /\ log'[Len(log')].answer = a
        /\ hist'[Len(hist')] = After(st, a)
        /\ Written' /\ AuthorizedInLog'
  BY <1>6, AppendLine
<1>8. TypeOK'
  <2>1. log' \in Seq(Events) /\ hist' \in Seq(States)
    BY <1>6, <1>7 DEF TypeOK
  <2>2. seq' \in Nat /\ torn' \in BOOLEAN
    BY DEF Record, TypeOK
  <2> QED
    BY <2>1, <2>2, <1>4 DEF TypeOK
<1>9. PhasesOK'
  BY <1>4 DEF PhasesOK, Working, Replaying
<1>10. Cleared'
  BY <1>5 DEF Cleared
<1>11. Written' /\ AuthorizedInLog'
  BY <1>6, <1>7, ZenonT(40) DEF Written, AuthorizedInLog
<1>12. ClearedInLog'
  <2> SUFFICES ASSUME logging, AtCall'
               PROVE  /\ log' # <<>>
                      /\ log'[Len(log')].request = Auth(Head(st'.todo).op)
                      /\ log'[Len(log')].answer.tag = "allowed"
    BY DEF ClearedInLog
  <2>1. st' = After(st, a)
    BY <1>5
  <2>2. st' # [st EXCEPT !.end = "replaylog"]
    BY <2>1, <1>1, <1>2 DEF States
  <2>3. log' = Append(log, [seq |-> seq, request |-> Request, answer |-> a])
        /\ hist' = Append(hist, After(st, a))
    BY <2>2 DEF Record
  <2>4. log' # log /\ log' # <<>>
    BY <2>3, Grows, Zenon DEF TypeOK
  <2>5. log' # <<>> /\ log'[Len(log')].request = Request /\ log'[Len(log')].answer = a
    BY <2>4, <1>7
  <2> QED
    BY <2>5, <1>5
<1>13. Recording'
  <2> SUFFICES ASSUME logging
               PROVE  /\ recorded' = prog' /\ ended' = "none"
                      /\ st'.end # "replaylog" =>
                           st' = hist'[Len(hist')] /\ seq' = Len(log')
    BY DEF Recording
  <2>1. recorded' = prog' /\ ended' = "none" /\ seq = Len(log)
    BY DEF Recording
  <2>2. ASSUME st'.end # "replaylog"
        PROVE  st' = hist'[Len(hist')] /\ seq' = Len(log')
    <3>1. st' # [st EXCEPT !.end = "replaylog"]
      BY <2>2, <1>1 DEF States
    <3>2. /\ log' = Append(log, [seq |-> seq, request |-> Request, answer |-> a])
          /\ hist' = Append(hist, After(st, a)) /\ st' = After(st, a) /\ seq' = seq + 1
      BY <3>1 DEF Record
    <3>3. log' # log
      BY <3>2, Grows, Zenon DEF TypeOK
    <3> QED
      BY <3>2, <3>3, <2>1, <1>7
  <2> QED
    BY <2>1, <2>2
<1>14. Following' /\ Serving' /\ ReplayReachesSameEnd' /\ SuccessfulReplayMatchesLog'
  BY DEF Following, Serving, ReplayReachesSameEnd, SuccessfulReplayMatchesLog, Replaying
<1>15. Sandboxed'
  BY Zenon DEF Sandboxed
<1> QED
  BY <1>8, <1>9, <1>10, <1>11, <1>12, <1>13, <1>14, <1>15, Zenon DEF IInv

LEMMA InitIInv == Init => IInv
<1> SUFFICES ASSUME Init PROVE IInv
  OBVIOUS
<1>1. Start[source] \in Points
  BY RuntimeAssumption DEF Init
<1>2. TypeOK
  <2>1. st \in States /\ answer \in Answers
    BY <1>1, LoadShape DEF Init, Answers
  <2>2. /\ log \in Seq(Events) /\ events \in Seq(Events) /\ hist \in Seq(States)
        /\ host \in Seq(CallRequests) /\ asked \in Seq(Requests)
    BY DEF Init
  <2>3. sessions \in 0..MaxSessions /\ edits \in 0..MaxEdits /\ taken \in 0..Len(events)
    BY RuntimeAssumption DEF Init
  <2> QED
    BY <2>1, <2>2, <2>3, Zenon DEF Init, TypeOK, Ends
<1>3. PhasesOK
  BY DEF Init, PhasesOK, Working, Replaying
<1>4. Cleared /\ ClearedInLog /\ Recording
  BY DEF Init, Cleared, ClearedInLog, Recording, Working
<1>5. Written /\ Sandboxed /\ AuthorizedInLog
  BY DEF Init, Written, Sandboxed, AuthorizedInLog
<1>6. Following /\ Serving /\ ReplayReachesSameEnd /\ SuccessfulReplayMatchesLog
  BY DEF Init, Following, Serving, ReplayReachesSameEnd, SuccessfulReplayMatchesLog, Replaying
<1> QED
  BY <1>2, <1>3, <1>4, <1>5, <1>6, Zenon DEF IInv

LEMMA ReadSourceStep ==
  ASSUME TypeOK, PhasesOK, Cleared, ClearedInLog, Written, Recording, Following, Serving,
         Sandboxed, AuthorizedInLog, ReplayReachesSameEnd, SuccessfulReplayMatchesLog,
         ReadSource
  PROVE  IInv'
<1>1. source \in Programs /\ Start[source] \in Points
  BY RuntimeAssumption DEF TypeOK
<1>2. /\ Load(Start[source]) \in States /\ Shape(Load(Start[source]))
      /\ Load(Start[source]).end # "replaylog"
      /\ Load(Start[source]).end = "none" => Head(Load(Start[source]).todo).kind = "auth"
  BY <1>1, LoadShape
<1>3. CASE source \in Broken
  <2>1. TypeOK'
    BY <1>1, <1>3 DEF ReadSource, TypeOK, disk, Ends
  <2>2. PhasesOK' /\ Cleared' /\ ClearedInLog' /\ Recording' /\ Following' /\ Serving'
    BY <1>3 DEF ReadSource, PhasesOK, Cleared, ClearedInLog, Recording, Following, Serving,
       Working, Replaying
  <2>3. Written' /\ AuthorizedInLog' /\ Sandboxed'
    BY <1>3, LogFrame, HostFrame DEF ReadSource, disk
  <2>4. ReplayReachesSameEnd' /\ SuccessfulReplayMatchesLog'
    BY <1>3 DEF ReadSource, ReplayReachesSameEnd, SuccessfulReplayMatchesLog
  <2> QED
    BY <2>1, <2>2, <2>3, <2>4, Zenon DEF IInv
<1>4. CASE source \notin Broken
  <2>1. st' = Load(Start[source]) /\ phase' = "run" /\ prog' = source
    BY <1>4 DEF ReadSource
  <2>2. TypeOK'
    <3>1. hist' \in Seq(States) /\ recorded' \in Programs \cup {NoSource}
      <4>1. <<Load(Start[source])>> \in Seq(States)
        BY <1>2
      <4> QED
        BY <4>1, <2>1, <1>1, <1>4, Zenon DEF ReadSource, TypeOK
    <3> QED
      BY <1>1, <1>2, <1>4, <3>1 DEF ReadSource, TypeOK, disk
  <2>3. ~AtCall'
    BY <2>1, <1>2 DEF AtCall
  <2>4. PhasesOK' /\ Cleared' /\ ClearedInLog'
    BY <2>1, <2>3, <1>2, <1>4, Zenon DEF ReadSource, PhasesOK, Cleared, ClearedInLog, Working, Replaying
  <2>5. CASE kind = "run" /\ logging
    <3>1. recorded = NoSource /\ ended = "none" /\ seq = 0 /\ log = <<>>
      BY <2>5, Zenon DEF ReadSource, Recording, Written
    <3>2. recorded' = source /\ hist' = <<st'>> /\ log' = <<>> /\ seq' = 0 /\ ended' = "none"
      BY <2>5, <1>4, <3>1 DEF ReadSource, disk
    <3>3. Len(hist') = 1 /\ hist'[1] = st' /\ Len(log') = 0
      BY <3>2
    <3>4. source # NoSource
      BY <1>1, RuntimeAssumption
    <3>5. Written' /\ Recording'
      BY <2>1, <3>2, <3>3, <3>4 DEF Written, Recording
    <3>6. ~Replaying' /\ phase' = "run"
      BY <2>1, <2>5 DEF ReadSource, Replaying
    <3>7. Following' /\ Serving' /\ ReplayReachesSameEnd' /\ SuccessfulReplayMatchesLog'
      BY <3>6, Zenon DEF Following, Serving, ReplayReachesSameEnd, SuccessfulReplayMatchesLog
    <3>8. AuthorizedInLog'
      BY <3>1, <3>2, Zenon DEF AuthorizedInLog
    <3>9. Sandboxed'
      BY HostFrame DEF ReadSource
    <3> QED
      BY <2>2, <2>4, <3>5, <3>7, <3>8, <3>9, Zenon DEF IInv
  <2>6. CASE ~(kind = "run" /\ logging)
    <3>1. Written' /\ AuthorizedInLog' /\ Recording'
      <4>1. UNCHANGED <<log, hist, recorded, ended, kind, logging>>
        BY <2>6, <1>4 DEF ReadSource, disk
      <4>2. Written' /\ AuthorizedInLog'
        BY <4>1, LogFrame
      <4>3. Recording'
        BY <4>1, <2>6, Zenon DEF Recording
      <4> QED
        BY <4>2, <4>3
    <3>2. Following'
      <4> SUFFICES ASSUME Replaying, source = recorded
                   PROVE  seq = 0 /\ taken = 0 /\ Load(Start[source]) = hist[1]
        BY <2>1, <2>6, <1>2, <1>4 DEF ReadSource, disk, Following, Replaying
      <4>1. recorded # NoSource
        BY <1>1, RuntimeAssumption
      <4> QED
        BY <4>1 DEF ReadSource, Serving, Written
    <3>3. Serving'
      BY <1>4 DEF ReadSource, disk, Serving, Replaying
    <3>4. Sandboxed'
      BY HostFrame DEF ReadSource
    <3>5. ReplayReachesSameEnd' /\ SuccessfulReplayMatchesLog'
      BY <2>1 DEF ReplayReachesSameEnd, SuccessfulReplayMatchesLog
    <3> QED
      BY <2>2, <2>4, <3>1, <3>2, <3>3, <3>4, <3>5, Zenon DEF IInv
  <2> QED
    BY <2>5, <2>6
<1> QED
  BY <1>3, <1>4

LEMMA ReplayRequestStep ==
  ASSUME TypeOK, PhasesOK, Cleared, ClearedInLog, Written, Recording, Following, Serving,
         Sandboxed, AuthorizedInLog, ReplayReachesSameEnd, SuccessfulReplayMatchesLog,
         ReplayRequest
  PROVE  IInv'
<1>1. /\ Replaying /\ phase = "run" /\ phase' = "run" /\ kind' = kind /\ st.end = "none"
      /\ UNCHANGED <<disk, kind, phase, grants, logging, print, prog, answer, events,
                     outcome, sessions, edits, host, recorded, hist, ended>>
      /\ asked' = Append(asked, Request)
  BY DEF ReplayRequest, Replaying, Asking
<1>2. Request \in Requests /\ st \in States /\ Shape(st)
  BY <1>1, RequestType DEF Working
<1>3. /\ events = log /\ log \in Seq(Events) /\ taken \in 0..Len(log) /\ seq \in Nat
      /\ Len(asked) = taken /\ asked \in Seq(Requests)
      /\ \A i \in 1..Len(asked) : Served(asked[i], log[i])
  BY <1>1 DEF TypeOK, Serving
<1>6. Written' /\ AuthorizedInLog' /\ Sandboxed'
  BY <1>1, LogFrame, HostFrame DEF disk
<1>7. Cleared' /\ ClearedInLog' /\ Recording' /\ ReplayReachesSameEnd' /\ SuccessfulReplayMatchesLog'
  BY <1>1 DEF Cleared, ClearedInLog, Recording, ReplayReachesSameEnd, SuccessfulReplayMatchesLog,
     Replaying
<1> DEFINE e == log[taken + 1]
<1>4. CASE taken = Len(log)
  <2>1. st' = [st EXCEPT !.end = "replaylog"] /\ taken' = taken /\ seq' = seq
    BY <1>3, <1>4 DEF ReplayRequest
  <2>2. st' \in States /\ Shape(st') /\ st'.end = "replaylog"
    BY <2>1, <1>2 DEF States, Ends, Shape
  <2>3. Following'
    <3> SUFFICES ASSUME prog = recorded
                 PROVE  seq = taken /\ hist[Len(hist)].end = "none"
      BY <1>1, <1>4, <2>1, <2>2 DEF Following, disk
    <3>1. seq = taken /\ st = hist[taken + 1]
      BY <1>1, Zenon DEF Following
    <3>2. Len(hist) = Len(log) + 1
      BY RuntimeAssumption DEF Written, TypeOK
    <3> QED
      BY <1>1, <1>4, <3>1, <3>2
  <2>4. Serving'
    BY <1>1, <2>2, <1>3 DEF Serving, disk, Replaying
  <2>5. TypeOK'
    BY <1>1, <1>2, <2>1, <2>2 DEF TypeOK, disk
  <2>6. PhasesOK'
    BY <1>1, <2>2, Zenon DEF PhasesOK, Replaying
  <2> QED
    BY <2>6, <2>3, <2>4, <2>5, <1>6, <1>7, Zenon DEF IInv
<1>5. CASE taken # Len(log)
  <2>1. /\ taken' = taken + 1
        /\ seq' = IF e.request.kind = Request.kind /\ e.seq = seq THEN seq + 1 ELSE seq
        /\ st' = IF Agrees(Request, e) THEN After(st, e.answer)
                                      ELSE [st EXCEPT !.end = "replaylog"]
    BY <1>3, <1>5 DEF ReplayRequest
  <2>2. taken + 1 \in 1..Len(log) /\ e \in Events /\ e.answer \in Answers
    <3>1. taken + 1 \in 1..Len(log)
      BY <1>3, <1>5
    <3>2. e \in Events
      BY <1>3, <3>1
    <3> QED
      BY <3>1, <3>2 DEF Events
  <2> HIDE DEF e
  <2>3. After(st, e.answer) \in States /\ Shape(After(st, e.answer))
        /\ After(st, e.answer).end # "replaylog"
    BY <1>1, <1>2, <2>2, AfterShape
  <2>4. st' \in States /\ Shape(st')
    BY <1>2, <2>1, <2>3 DEF States, Ends, Shape
  <2>5. Following'
    <3> SUFFICES ASSUME prog = recorded
                 PROVE  seq' = taken' /\ st' = hist[taken' + 1] /\ st'.end # "replaylog"
      BY <1>1 DEF Following, disk
    <3>1. seq = taken /\ st = hist[taken + 1]
      BY <1>1 DEF Following
    <3>2. /\ e.seq = taken /\ e.request = Head(hist[taken + 1].todo)
          /\ hist[taken + 1 + 1] = After(hist[taken + 1], e.answer)
      <4>1. recorded # NoSource
        BY RuntimeAssumption DEF TypeOK
      <4>2. log[taken + 1].seq = (taken + 1) - 1
            /\ log[taken + 1].request = Head(hist[taken + 1].todo)
            /\ hist[taken + 1 + 1] = After(hist[taken + 1], log[taken + 1].answer)
        BY <2>2, <4>1, Zenon DEF Written
      <4> QED
        BY <4>2, <1>3 DEF e
    <3>3. e.request = Request /\ Agrees(Request, e)
      BY <3>1, <3>2 DEF Request, Agrees
    <3> QED
      BY <2>1, <2>3, <3>1, <3>2, <3>3
  <2>6. Serving'
    <3> SUFFICES ASSUME st'.end # "replaylog"
                 PROVE  /\ Len(asked') = taken'
                        /\ \A i \in 1..Len(asked') : Served(asked'[i], log[i])
      BY <1>1, <1>3 DEF Serving, disk, Replaying, Served
    <3>1. Agrees(Request, e)
      BY <2>1, <1>2 DEF States
    <3>2. Served(Request, log[taken + 1])
      BY <3>1 DEF Agrees, Served, e
    <3>3. /\ Len(asked') = Len(asked) + 1 /\ asked'[Len(asked) + 1] = Request
          /\ \A i \in 1..Len(asked) : asked'[i] = asked[i]
      BY <1>1, <1>2, <1>3, SMTT(40)
    <3>4. \A i \in 1..Len(asked') : i \in 1..Len(asked) \/ i = Len(asked) + 1
      BY <1>3, <3>3
    <3> QED
      BY <1>3, <2>1, <3>2, <3>3, <3>4
  <2>7. TypeOK'
    <3>1. asked' \in Seq(Requests) /\ taken' \in 0..Len(events') /\ seq' \in Nat
      BY <1>1, <1>2, <1>3, <2>1, <2>2
    <3> QED
      BY <1>1, <2>4, <3>1, SMTT(40) DEF TypeOK, disk
  <2>8. PhasesOK'
    BY <1>1, <2>4, Zenon DEF PhasesOK, Replaying
  <2> QED
    BY <2>5, <2>6, <2>7, <2>8, <1>6, <1>7, Zenon DEF IInv
<1> QED
  BY <1>4, <1>5

LEMMA FinishStep ==
  ASSUME TypeOK, PhasesOK, Cleared, ClearedInLog, Written, Recording, Following, Serving,
         Sandboxed, AuthorizedInLog, ReplayReachesSameEnd, SuccessfulReplayMatchesLog,
         Finish
  PROVE  IInv'
<1>1. /\ phase = "run" /\ st.end # "none" /\ phase' = "idle"
      /\ UNCHANGED <<disk, kind, grants, logging, print, prog, st, answer, seq, events,
                     taken, sessions, edits, host, recorded, hist, asked>>
      /\ outcome' = IF kind # "run" /\ taken < Len(events) /\ ~ItemAt[st.at].lets
                    THEN "replaylog" ELSE st.end
      /\ ended' = IF logging THEN st.end ELSE ended
  BY DEF Finish
<1>2. st \in States /\ Shape(st) /\ st.end \in Ends
  BY <1>1, Zenon DEF TypeOK, PhasesOK, Working, States
<1>3. TypeOK'
  BY <1>1, <1>2 DEF TypeOK, disk, Ends
<1>4. Written'
  <2>1. CASE logging
    <3>1. kind = "run" /\ recorded = prog
      BY <1>1, <2>1 DEF PhasesOK, Recording, Working, Replaying, TypeOK
    <3>2. st.end # "replaylog" => st = hist[Len(hist)]
      BY <1>1, <2>1, <3>1 DEF Recording, Working
    <3> QED
      BY <1>1, <2>1, <3>2, Zenon DEF Written, disk
  <2>2. CASE ~logging
    BY <1>1, <2>2 DEF Written, disk
  <2> QED
    BY <2>1, <2>2
<1>5. ReplayReachesSameEnd'
  <2> SUFFICES ASSUME Replaying, prog = recorded, ended' \in {"exit", "fault", "denied", "failed"}
               PROVE  outcome' = ended'
    BY <1>1 DEF ReplayReachesSameEnd, Replaying
  <2>1. ended' = ended /\ recorded # NoSource /\ kind # "run"
    BY <1>1, RuntimeAssumption DEF PhasesOK, TypeOK, Replaying
  <2>2. /\ Len(hist) = Len(log) + 1 /\ hist[Len(hist)].end = ended
        /\ \A k \in 1..Len(log) : hist[k].end = "none"
    BY <2>1 DEF Written
  <2>3. events = log /\ taken \in 0..Len(log) /\ log \in Seq(Events)
    BY <1>1, Zenon DEF Serving, TypeOK
  <2>4. st = hist[taken + 1]
    BY <1>1, <2>1, <2>2 DEF Following
  <2>5. taken = Len(log)
    <3>1. taken + 1 \notin 1..Len(log)
      BY <1>1, <2>2, <2>4
    <3> QED
      BY <2>3, <3>1
  <2>6. taken + 1 = Len(hist)
    BY <2>2, <2>5
  <2>7. st.end = ended
    BY <2>2, <2>4, <2>6, Zenon
  <2>8. ~(taken < Len(events))
    BY <2>3, <2>5
  <2>9. outcome' = st.end
    BY <1>1, <2>8, Zenon
  <2> QED
    BY <2>1, <2>7, <2>9, Zenon
<1>6. SuccessfulReplayMatchesLog'
  <2> SUFFICES ASSUME Replaying, outcome' = "exit"
               PROVE  /\ Len(asked) = Len(events)
                      /\ \A i \in 1..Len(asked) : Served(asked[i], events[i])
    <3>1. DOMAIN asked = 1..Len(asked)
      BY DEF TypeOK
    <3> QED
      BY <1>1, <3>1, Zenon DEF SuccessfulReplayMatchesLog, Replaying, Served
  <2>1. st.end = "exit" /\ kind # "run"
    BY <1>1 DEF Replaying
  <2>2. ItemAt[st.at] \in Items /\ ItemAt[st.at].kind = "exit"
    BY <1>2, <2>1, RuntimeAssumption DEF States, Shape
  <2>3. ~ItemAt[st.at].lets
    BY <2>2, Zenon DEF Items
  <2>4. taken = Len(events)
    <3>1. ~(kind # "run" /\ taken < Len(events) /\ ~ItemAt[st.at].lets)
      BY <1>1, Zenon
    <3>2. ~(taken < Len(events))
      BY <2>1, <2>3, <3>1, Zenon
    <3>3. taken \in 0..Len(events) /\ Len(events) \in Nat
      BY DEF TypeOK
    <3> QED
      BY <3>2, <3>3
  <2> QED
    BY <1>1, <2>1, <2>4 DEF Serving
<1>7. ~Working' /\ phase' = "idle" /\ Replaying' = Replaying
  BY <1>1, Zenon DEF Working, Replaying
<1>8. PhasesOK'
  BY <1>1, <1>7, Zenon DEF PhasesOK
<1>9. Cleared' /\ ClearedInLog' /\ Recording' /\ Following' /\ Serving'
  BY <1>7 DEF Cleared, ClearedInLog, Recording, Following, Serving
<1>10. AuthorizedInLog' /\ Sandboxed'
  BY <1>1, HostFrame, Zenon DEF AuthorizedInLog, disk
<1> QED
  BY <1>3, <1>4, <1>5, <1>6, <1>8, <1>9, <1>10, Zenon DEF IInv

\* Everything but the types ignores the source on disk and the bounds.
LEMMA Stutter ==
  ASSUME IInv, TypeOK', UNCHANGED <<header, log, torn, process, ghost>>
  PROVE  IInv'
<1>1. PhasesOK' /\ Cleared' /\ ClearedInLog'
  BY Zenon DEF IInv, process, ghost, PhasesOK, Cleared, ClearedInLog, Working, Replaying, AtCall
<1>2. Written' /\ Recording'
  BY Zenon DEF IInv, process, ghost, Written, Recording, Working
<1>3. Following' /\ Serving'
  BY DEF IInv, process, ghost, Following, Serving, Served, Replaying
<1>4. Sandboxed' /\ AuthorizedInLog'
  BY Zenon DEF IInv, process, ghost, Sandboxed, AuthorizedInLog
<1>5. ReplayReachesSameEnd' /\ SuccessfulReplayMatchesLog'
  BY Zenon DEF IInv, process, ghost, ReplayReachesSameEnd, SuccessfulReplayMatchesLog, Replaying
<1> QED
  BY <1>1, <1>2, <1>3, <1>4, <1>5 DEF IInv

\* What the invariant says of the process itself.
ProcessOK ==
  /\ PhasesOK /\ Cleared /\ ClearedInLog /\ Recording /\ Following /\ Serving
  /\ ReplayReachesSameEnd /\ SuccessfulReplayMatchesLog

LEMMA NotWorking ==
  ASSUME kind' = "run", phase' \notin {"run", "record"},
         phase' \in {"print", "header"} => logging',
         phase' = "source" /\ logging' => recorded' = NoSource /\ ended' = "none" /\ seq' = 0
  PROVE  ProcessOK'
<1>1. ~Working' /\ ~Replaying'
  BY DEF Working, Replaying
<1>2. PhasesOK'
  BY <1>1, Zenon DEF PhasesOK
<1>3. Cleared' /\ ClearedInLog' /\ Recording'
  BY <1>1, Zenon DEF Cleared, ClearedInLog, Recording
<1>4. Following' /\ Serving' /\ ReplayReachesSameEnd' /\ SuccessfulReplayMatchesLog'
  BY <1>1, Zenon DEF Following, Serving, ReplayReachesSameEnd, SuccessfulReplayMatchesLog
<1> QED
  BY <1>2, <1>3, <1>4, Zenon DEF ProcessOK

LEMMA NextIInv == IInv /\ [Next]_vars => IInv'
<1> SUFFICES ASSUME IInv, [Next]_vars PROVE IInv'
  OBVIOUS
<1>16. /\ <<>> \in Seq(Events) /\ <<>> \in Seq(States) /\ <<>> \in Seq(Requests)
       /\ <<>> \in Seq(CallRequests) /\ 0 \in Nat /\ 0 \in 0..Len(<<>>)
       /\ log \in Seq(Events) => 0 \in 0..Len(log)
  OBVIOUS
<1>18. /\ TypeOK /\ PhasesOK /\ Cleared /\ ClearedInLog /\ Written /\ Recording
       /\ Following /\ Serving /\ Sandboxed /\ AuthorizedInLog
       /\ ReplayReachesSameEnd /\ SuccessfulReplayMatchesLog
  BY Zenon DEF IInv
<1>17. sessions < MaxSessions => sessions + 1 \in 0..MaxSessions
  BY <1>18, RuntimeAssumption DEF TypeOK
<1>1. CASE Edit
  <2>1. edits' \in 0..MaxEdits
    BY <1>1, <1>18, RuntimeAssumption DEF Edit, TypeOK
  <2>2. TypeOK'
    <3>1. (source \in Programs /\ prog \in Programs /\ print \in Programs)'
      BY <1>1, <1>18, Zenon DEF Edit, TypeOK, process, ghost
    <3>2. (header \in Programs \cup {NoSource} /\ recorded \in Programs \cup {NoSource})'
      BY <1>1, <1>18, Zenon DEF Edit, TypeOK, process, ghost
    <3>3. (/\ log \in Seq(Events) /\ events \in Seq(Events) /\ hist \in Seq(States)
           /\ host \in Seq(CallRequests) /\ asked \in Seq(Requests))'
      BY <1>1, <1>18, Zenon DEF Edit, TypeOK, process, ghost
    <3>4. (torn \in BOOLEAN /\ logging \in BOOLEAN)'
      BY <1>1, <1>18, Zenon DEF Edit, TypeOK, process, ghost
    <3>5. (/\ kind \in {"none", "run", "replay", "verify"}
           /\ phase \in {"idle", "print", "header", "source", "run", "record"})'
      BY <1>1, <1>18, Zenon DEF Edit, TypeOK, process, ghost
    <3>6. (grants \in SUBSET Caps /\ st \in States /\ answer \in Answers)'
      BY <1>1, <1>18, Zenon DEF Edit, TypeOK, process, ghost
    <3>7. (seq \in Nat /\ taken \in 0..Len(events))'
      BY <1>1, <1>18, Zenon DEF Edit, TypeOK, process, ghost
    <3>8. (/\ outcome \in Ends \cup {"manifest", "compile", "killed", "unreadable"}
           /\ ended \in Ends \cup {"compile", "killed"})'
      BY <1>1, <1>18, Zenon DEF Edit, TypeOK, process, ghost
    <3>9. (sessions \in 0..MaxSessions /\ edits \in 0..MaxEdits)'
      BY <1>1, <1>18, <2>1, Zenon DEF Edit, TypeOK, process, ghost
    <3> QED
      BY <3>1, <3>2, <3>3, <3>4, <3>5, <3>6, <3>7, <3>8, <3>9, Zenon DEF TypeOK
  <2> QED
    BY <1>1, <2>2, Stutter, Zenon DEF Edit, process, ghost
<1>2. CASE RejectManifest
  <2>1. TypeOK'
    BY <1>2, <1>17, <1>18, Zenon DEF RejectManifest, TypeOK, disk, ghost
  <2>2. Written' /\ AuthorizedInLog' /\ Sandboxed'
    BY <1>2, <1>18, LogFrame, HostFrame DEF RejectManifest, disk, ghost
  <2>3. ProcessOK'
    BY <1>2, NotWorking DEF RejectManifest
  <2> QED
    BY <2>1, <2>2, <2>3, Zenon DEF IInv, ProcessOK
<1>3. ASSUME NEW g \in SUBSET Caps, NEW l \in BOOLEAN, StartRun(g, l) PROVE IInv'
  <2>1. TypeOK'
    BY <1>3, <1>16, <1>17, <1>18, Zenon DEF StartRun, TypeOK, disk, Ends
  <2>2. Written' /\ AuthorizedInLog'
    BY <1>3, <1>18, LogFrame DEF StartRun, disk
  <2>3. Sandboxed'
    <3>1. DOMAIN host' = {}
      BY <1>3 DEF StartRun
    <3> QED
      BY <3>1 DEF Sandboxed
  <2>4. ProcessOK'
    BY <1>3, NotWorking DEF StartRun
  <2> QED
    BY <2>1, <2>2, <2>3, <2>4, Zenon DEF IInv, ProcessOK
<1>4. ASSUME NEW k \in {"replay", "verify"}, StartReplay(k) PROVE IInv'
  <2>1. phase' \in {"source", "idle"} /\ kind' = k /\ kind' # "run" /\ ~logging'
    BY <1>4 DEF StartReplay
  <2>2. TypeOK'
    <3>1. events' \in Seq(Events) /\ taken' \in 0..Len(events')
      <4>1. taken' = 0 /\ events' \in {log, <<>>}
        BY <1>4 DEF StartReplay
      <4>2. log \in Seq(Events)
        BY <1>18 DEF TypeOK
      <4> QED
        BY <4>1, <4>2, <1>16, Zenon
    <3> QED
      BY <1>4, <1>16, <1>17, <1>18, <3>1, Zenon DEF StartReplay, TypeOK, disk, Ends
  <2>3. Written' /\ AuthorizedInLog' /\ Sandboxed'
    BY <1>4, <1>18, LogFrame, HostFrame DEF StartReplay, disk
  <2>4. Serving'
    BY <1>4 DEF StartReplay, disk, Serving
  <2>5. ReplayReachesSameEnd' /\ SuccessfulReplayMatchesLog'
    BY <1>4 DEF StartReplay, ReplayReachesSameEnd, SuccessfulReplayMatchesLog
  <2>6. ~Working' /\ phase' # "run" /\ phase' \notin {"print", "header", "record"} /\ kind' # "none"
    BY <2>1 DEF Working
  <2>7. PhasesOK' /\ Cleared' /\ ClearedInLog' /\ Recording' /\ Following'
    BY <2>1, <2>6, Zenon DEF PhasesOK, Cleared, ClearedInLog, Recording, Following
  <2> QED
    BY <2>2, <2>3, <2>4, <2>5, <2>7, Zenon DEF IInv
<1>5. CASE Kill
  <2>1. TypeOK'
    BY <1>5, <1>16, <1>18, Zenon DEF Kill, TypeOK, Ends
  <2>2. phase' = "idle" /\ kind' = "run" /\ ended' \in {ended, "killed"}
    BY <1>5 DEF Kill
  <2>3. \/ UNCHANGED <<log, hist, recorded>>
        \/ log' = <<>> /\ hist' = <<>> /\ recorded' = NoSource
    BY <1>5, Zenon DEF Kill
  <2>4. Written' /\ AuthorizedInLog'
    BY <2>2, <2>3, <1>18, LogFrame, LogReset
  <2>5. Sandboxed'
    BY <1>5, <1>18, HostFrame DEF Kill
  <2>6. ProcessOK'
    BY <2>2, NotWorking
  <2> QED
    BY <2>1, <2>4, <2>5, <2>6, Zenon DEF IInv, ProcessOK
<1>6. CASE BuildHeader
  <2>1. TypeOK'
    BY <1>6, <1>18, Zenon DEF BuildHeader, disk, ghost, TypeOK
  <2>2. kind' = "run" /\ phase' \in {"header", "idle"} /\ logging'
    BY <1>6, <1>18 DEF BuildHeader, PhasesOK
  <2>3. Written' /\ AuthorizedInLog' /\ Sandboxed'
    BY <1>6, <1>18, LogFrame, HostFrame DEF BuildHeader, disk, ghost
  <2>4. ProcessOK'
    BY <2>2, NotWorking
  <2> QED
    BY <2>1, <2>3, <2>4, Zenon DEF IInv, ProcessOK
<1>7. CASE OpenLog
  <2>1. TypeOK'
    BY <1>7, <1>16, <1>18, Zenon DEF OpenLog, TypeOK, Ends
  <2>2. Written' /\ AuthorizedInLog'
    BY <1>7, LogReset DEF OpenLog
  <2>3. Sandboxed'
    BY <1>7, <1>18, HostFrame DEF OpenLog
  <2>4. ProcessOK'
    BY <1>7, <1>18, NotWorking DEF OpenLog, PhasesOK
  <2> QED
    BY <2>1, <2>2, <2>3, <2>4, Zenon DEF IInv, ProcessOK
<1>8. CASE OpenLogFails
  <2>1. TypeOK'
    BY <1>8, <1>16, <1>18, Zenon DEF OpenLogFails, TypeOK, Ends
  <2>2. Written' /\ AuthorizedInLog'
    BY <1>8, <1>18, LogFrame, LogReset DEF OpenLogFails
  <2>3. Sandboxed'
    BY <1>8, <1>18, HostFrame DEF OpenLogFails
  <2>4. ProcessOK'
    BY <1>8, <1>18, NotWorking DEF OpenLogFails, PhasesOK
  <2> QED
    BY <2>1, <2>2, <2>3, <2>4, Zenon DEF IInv, ProcessOK
<1>9. CASE ReadSource
  BY <1>9, <1>18, ReadSourceStep
<1>10. CASE LiveAuthorize
  <2> DEFINE a == [tag |-> IF Request.cap \in grants THEN "allowed" ELSE "denied",
                   text |-> NoText]
  <2>1. a \in Answers /\ a.tag = IF Request.cap \in grants THEN "allowed" ELSE "denied"
    BY DEF Answers
  <2>2. Record(a)
    BY <1>10 DEF LiveAuthorize
  <2> HIDE DEF a
  <2> QED
    BY <1>10, <1>18, <2>1, <2>2, RecordStep DEF LiveAuthorize, Asking, Working
<1>11. CASE LiveHost
  <2>1. /\ kind = "run" /\ phase = "run" /\ st.end = "none" /\ Request.kind = "call"
        /\ phase' = "record" /\ host' = Append(host, Request)
        /\ UNCHANGED <<disk, kind, grants, logging, print, prog, st, seq, events, taken,
                       outcome, sessions, edits, recorded, hist, ended, asked>>
    BY <1>11 DEF LiveHost, Asking
  <2>2. AtCall /\ AtCall' /\ Working /\ Working'
    BY <2>1 DEF AtCall, Request, Working
  <2>3. Request \in CallRequests
    BY <1>18, <2>1, <2>2, RequestType DEF Requests, AuthRequests
  <2>4. answer' \in Answers /\ answer'.tag \in {"ok", "err"}
    BY <1>11 DEF LiveHost, Answers
  <2>5. host \in Seq(CallRequests) /\ host' \in Seq(CallRequests)
    BY <1>18, <2>1, <2>3 DEF TypeOK
  <2>6. TypeOK'
    BY <1>18, <2>1, <2>4, <2>5, Zenon DEF TypeOK, disk
  <2>7. Sandboxed'
    <3>1. CapOf[Request.op] \in grants
      BY <2>1, <2>2, Zenon DEF IInv, Cleared, Request
    <3>2. \A i \in DOMAIN host' : host'[i] = Request \/ (i \in DOMAIN host /\ host'[i] = host[i])
      <4>1. host' = Append(host, Request)
        BY <2>1
      <4> HIDE DEF Request
      <4> QED  BY <2>3, <2>5, <4>1
    <3> QED
      BY <1>18, <2>1, <3>1, <3>2, Zenon DEF Sandboxed
  <2>8. Written' /\ AuthorizedInLog'
    BY <1>18, <2>1, LogFrame DEF disk
  <2>9. ~Replaying' /\ phase' # "source" /\ phase' # "idle"
    BY <2>1 DEF Replaying
  <2>10. PhasesOK'
    BY <1>18, <2>1, <2>2, <2>4, <2>9, Zenon DEF PhasesOK
  <2>11. Cleared' /\ ClearedInLog'
    BY <2>1, <2>2, Zenon DEF IInv, Cleared, ClearedInLog, disk
  <2>12. Recording'
    BY <2>1, <2>2, <2>9, Zenon DEF IInv, Recording, disk
  <2>13. Following' /\ Serving' /\ ReplayReachesSameEnd' /\ SuccessfulReplayMatchesLog'
    BY <2>9, Zenon DEF Following, Serving, ReplayReachesSameEnd, SuccessfulReplayMatchesLog
  <2> QED
    BY <2>6, <2>7, <2>8, <2>10, <2>11, <2>12, <2>13, Zenon DEF IInv
<1>12. CASE LiveRecord
  <2>1. kind = "run" /\ st.end = "none" /\ Request.kind = "call" /\ answer \in Answers
    BY <1>12, <1>18 DEF LiveRecord, PhasesOK, AtCall, Request, TypeOK
  <2> QED
    BY <1>12, <1>18, <2>1, RecordStep DEF LiveRecord, Working
<1>13. CASE ReplayRequest
  BY <1>13, <1>18, ReplayRequestStep
<1>14. CASE Finish
  BY <1>14, <1>18, FinishStep
<1>15. CASE UNCHANGED vars
  <2>1. TypeOK'
    <3>1. /\ source' = source /\ header' = header /\ log' = log /\ torn' = torn
          /\ kind' = kind /\ phase' = phase /\ grants' = grants /\ logging' = logging
          /\ print' = print /\ prog' = prog /\ st' = st /\ answer' = answer
      BY <1>15, Zenon DEF vars, disk, process
    <3>2. /\ seq' = seq /\ events' = events /\ taken' = taken /\ outcome' = outcome
          /\ sessions' = sessions /\ edits' = edits /\ host' = host
          /\ recorded' = recorded /\ hist' = hist /\ ended' = ended /\ asked' = asked
      BY <1>15, Zenon DEF vars, process, ghost
    <3>3. (source \in Programs /\ prog \in Programs /\ print \in Programs)'
      BY <1>18, <3>1, <3>2, Zenon DEF TypeOK
    <3>4. (header \in Programs \cup {NoSource} /\ recorded \in Programs \cup {NoSource})'
      BY <1>18, <3>1, <3>2, Zenon DEF TypeOK
    <3>5. (/\ log \in Seq(Events) /\ events \in Seq(Events) /\ hist \in Seq(States)
           /\ host \in Seq(CallRequests) /\ asked \in Seq(Requests))'
      BY <1>18, <3>1, <3>2, Zenon DEF TypeOK
    <3>6. (torn \in BOOLEAN /\ logging \in BOOLEAN)'
      BY <1>18, <3>1, <3>2, Zenon DEF TypeOK
    <3>7. (/\ kind \in {"none", "run", "replay", "verify"}
           /\ phase \in {"idle", "print", "header", "source", "run", "record"})'
      BY <1>18, <3>1, <3>2, Zenon DEF TypeOK
    <3>8. (grants \in SUBSET Caps /\ st \in States /\ answer \in Answers)'
      BY <1>18, <3>1, <3>2, Zenon DEF TypeOK
    <3>9. (seq \in Nat /\ taken \in 0..Len(events))'
      BY <1>18, <3>1, <3>2, Zenon DEF TypeOK
    <3>10. (/\ outcome \in Ends \cup {"manifest", "compile", "killed", "unreadable"}
           /\ ended \in Ends \cup {"compile", "killed"})'
      BY <1>18, <3>1, <3>2, Zenon DEF TypeOK
    <3>11. (sessions \in 0..MaxSessions /\ edits \in 0..MaxEdits)'
      BY <1>18, <3>1, <3>2, Zenon DEF TypeOK
    <3> QED
      BY <3>3, <3>4, <3>5, <3>6, <3>7, <3>8, <3>9, <3>10, <3>11, Zenon DEF TypeOK
  <2> QED
    BY <1>15, <2>1, Stutter, Zenon DEF vars, disk, process, ghost
<1> QED
  BY <1>1, <1>2, <1>3, <1>4, <1>5, <1>6, <1>7, <1>8, <1>9, <1>10, <1>11, <1>12, <1>13,
     <1>14, <1>15, Zenon DEF Next, Step

-----------------------------------------------------------------------------
(* The theorems *)

\* The inductive invariant holds in every state.
THEOREM Invariance == Spec => []IInv
BY InitIInv, NextIInv, PTL DEF Spec

\* Types, and a replay never pops more events than its log has.
THEOREM TypeCorrect == Spec => []TypeOK
<1>1. IInv => TypeOK
  BY DEF IInv
<1> QED
  BY <1>1, Invariance, PTL

\* LiveRuntime::authorize and the interpreter's order of checks: no run
\* carries out an operation its manifest does not grant.
THEOREM SandboxHolds == Spec => []Sandboxed
<1>1. IInv => Sandboxed
  BY DEF IInv
<1> QED
  BY <1>1, Invariance, PTL

\* Every effect in a log stands right after the allowed check that let it
\* happen, whatever killed the run or failed to be written.
THEOREM LogIsAudited == Spec => []AuthorizedInLog
<1>1. IInv => AuthorizedInLog
  BY DEF IInv
<1> QED
  BY <1>1, Invariance, PTL

\* A replay of the recorded program is, event by event, the recorded run.
THEOREM ReplayIsDeterministic == Spec => []ReplayTracksRecording
<1>1. IInv => ReplayTracksRecording
  <2> SUFFICES ASSUME IInv, Replaying, phase = "run", prog = recorded, st.end # "replaylog"
               PROVE  taken + 1 \in DOMAIN hist /\ st = hist[taken + 1]
    BY DEF ReplayTracksRecording
  <2>1. st = hist[taken + 1]
    BY DEF IInv, Following
  <2>2. TypeOK /\ Written /\ Serving
    BY Zenon DEF IInv
  <2>4. Len(hist) = Len(log) + 1 /\ hist \in Seq(States)
    BY <2>2, RuntimeAssumption, Zenon DEF TypeOK, Written
  <2>3. taken \in 0..Len(log) /\ log \in Seq(Events)
    BY <2>2, Zenon DEF TypeOK, Serving
  <2> QED
    BY <2>1, <2>3, <2>4
<1> QED
  BY <1>1, Invariance, PTL

\* A complete recording replays to the end it had.
THEOREM ReplayReproduces == Spec => []ReplayReachesSameEnd
<1>1. IInv => ReplayReachesSameEnd
  BY DEF IInv
<1> QED
  BY <1>1, Invariance, PTL

\* A replay that reports success asked for exactly what the log holds.
THEOREM SuccessMeansAgreement == Spec => []SuccessfulReplayMatchesLog
<1>1. IInv => SuccessfulReplayMatchesLog
  BY DEF IInv
<1> QED
  BY <1>1, Invariance, PTL

-----------------------------------------------------------------------------
(***************************************************************************)
(* What happened and what the log says happened.  Between the host's part  *)
(* of a call and the log's part the effect is there and its line is not.   *)
(***************************************************************************)
Hosted ==
  kind = "run" /\ logging =>
    /\ phase \in {"print", "header", "source"} => host = <<>>
    /\ phase = "record" => host # <<>> /\ host[Len(host)] = Request

Calls(q, n) == Cardinality({i \in 1..n : q[i].request.kind = "call"})

\* Counting the calls among the lines of a log, line by line.
LEMMA CallsCount ==
  ASSUME NEW q, NEW n \in Nat
  PROVE  /\ Calls(q, 0) = 0 /\ Calls(q, n) \in Nat
         /\ Calls(q, n + 1) = IF q[n + 1].request.kind = "call" THEN Calls(q, n) + 1 ELSE Calls(q, n)
<1> DEFINE A(k) == {i \in 1..k : q[i].request.kind = "call"}
<1>1. A(0) = {} /\ Cardinality({}) = 0
  BY FS_EmptySet
<1>2. IsFiniteSet(A(n)) /\ Cardinality(A(n)) \in Nat
  <2>1. IsFiniteSet(1..n) /\ A(n) \subseteq 1..n
    BY FS_Interval
  <2> QED  BY <2>1, FS_Subset, FS_CardinalityType
<1>3. CASE q[n + 1].request.kind = "call"
  <2>1. A(n + 1) = A(n) \cup {n + 1} /\ n + 1 \notin A(n)
    BY <1>3
  <2>2. Cardinality(A(n + 1)) = Cardinality(A(n)) + 1
    <3> HIDE DEF A
    <3> QED  BY <1>2, <2>1, FS_AddElement
  <2> QED  BY <1>1, <1>2, <1>3, <2>2 DEF Calls
<1>4. CASE q[n + 1].request.kind # "call"
  <2>1. A(n + 1) = A(n)
    BY <1>4
  <2> QED  BY <1>1, <1>2, <1>4, <2>1 DEF Calls
<1> QED  BY <1>3, <1>4

\* A line that is appended changes no count up to an earlier line.
LEMMA CallsBefore ==
  ASSUME NEW q, NEW r, NEW n \in Nat, \A i \in 1..n : q[i] = r[i]
  PROVE  Calls(q, n) = Calls(r, n)
<1>1. {i \in 1..n : q[i].request.kind = "call"} = {i \in 1..n : r[i].request.kind = "call"}
  OBVIOUS
<1> QED  BY <1>1 DEF Calls

\* The calls of the log are those of the host, which may be ahead by some.
Mirrors(behind) ==
  /\ \A i \in DOMAIN log : log[i].request.kind = "call" =>
       Calls(log, i) \in DOMAIN host /\ log[i].request = host[Calls(log, i)]
  /\ Len(host) - Calls(log, Len(log)) \in behind

LEMMA UnloggedMirrors ==
  AtMostOneUnlogged <=>
    (phase \in {"run", "record"} /\ logging =>
       Mirrors(IF phase = "record" THEN {1} ELSE IF st.end = "replaylog" THEN {0, 1} ELSE {0}))
BY DEF AtMostOneUnlogged, Mirrors, LoggedCalls, Calls

\* A line for a check, and a line for the call that just happened.
LEMMA MirrorsLine ==
  ASSUME log \in Seq(Events), host \in Seq(CallRequests), NEW line \in Events,
         log' = Append(log, line), host' = host,
         \/ line.request.kind # "call" /\ Mirrors({0})
         \/ line.request.kind = "call" /\ Mirrors({1}) /\ line.request = host[Len(host)]
  PROVE  Mirrors({0})'
<1>1. /\ Len(log) \in Nat /\ log' \in Seq(Events) /\ Len(log') = Len(log) + 1
      /\ \A k \in 1..Len(log) : log'[k] = log[k]
      /\ log'[Len(log) + 1] = line
      /\ DOMAIN log = 1..Len(log) /\ DOMAIN log' = 1..(Len(log) + 1)
      /\ DOMAIN host = 1..Len(host) /\ Len(host) \in Nat
  OBVIOUS
<1>2. ASSUME NEW i \in 0..Len(log)
      PROVE  Calls(log', i) = Calls(log, i)
  <2>1. i \in Nat /\ \A k \in 1..i : log'[k] = log[k]
    BY <1>1
  <2> QED  BY <2>1, CallsBefore
<1>3. /\ Calls(log', Len(log) + 1) =
           IF line.request.kind = "call" THEN Calls(log, Len(log)) + 1 ELSE Calls(log, Len(log))
      /\ Calls(log, Len(log)) \in Nat
  <2>1. /\ Calls(log, Len(log)) \in Nat
        /\ Calls(log', Len(log) + 1) = IF log'[Len(log) + 1].request.kind = "call"
                                       THEN Calls(log', Len(log)) + 1 ELSE Calls(log', Len(log))
    BY <1>1, CallsCount
  <2>2. Calls(log', Len(log)) = Calls(log, Len(log))
    BY <1>1, <1>2
  <2> QED  BY <1>1, <2>1, <2>2
<1>4. \A i \in DOMAIN log : log[i].request.kind = "call" =>
        Calls(log, i) \in DOMAIN host /\ log[i].request = host[Calls(log, i)]
  BY DEF Mirrors
<1>5. Len(host) - Calls(log, Len(log)) = IF line.request.kind = "call" THEN 1 ELSE 0
  BY DEF Mirrors
<1>6. Calls(log', Len(log) + 1) = Len(host)
  <2>1. CASE line.request.kind = "call"
    <3>1. Calls(log', Len(log) + 1) = Calls(log, Len(log)) + 1
      BY <1>3, <2>1
    <3>2. Len(host) - Calls(log, Len(log)) = 1
      BY <1>5, <2>1
    <3>3. Len(host) \in Nat /\ Calls(log, Len(log)) \in Nat
      BY <1>1, <1>3
    <3> QED  BY <3>1, <3>2, <3>3
  <2>2. CASE line.request.kind # "call"
    <3>1. Calls(log', Len(log) + 1) = Calls(log, Len(log))
      BY <1>3, <2>2
    <3>2. Len(host) - Calls(log, Len(log)) = 0
      BY <1>5, <2>2
    <3>3. Len(host) \in Nat /\ Calls(log, Len(log)) \in Nat
      BY <1>1, <1>3
    <3> QED  BY <3>1, <3>2, <3>3
  <2> QED  BY <2>1, <2>2
<1>7. Len(host') - Calls(log', Len(log')) = 0
  <2>1. Len(host') = Len(host) /\ Len(log') = Len(log) + 1 /\ Len(host) \in Nat
    BY <1>1
  <2> QED  BY <1>6, <2>1
<1>8. ASSUME NEW i \in DOMAIN log', log'[i].request.kind = "call"
      PROVE  Calls(log', i) \in DOMAIN host /\ log'[i].request = host[Calls(log', i)]
  <2>1. CASE i \in DOMAIN log
    <3>1. log'[i] = log[i] /\ i \in 0..Len(log)
      BY <1>1, <2>1
    <3>2. Calls(log', i) = Calls(log, i)
      BY <1>2, <3>1
    <3> QED  BY <1>8, <1>4, <2>1, <3>1, <3>2
  <2>2. CASE i = Len(log) + 1
    <3>1. log'[i] = line /\ line.request.kind = "call" /\ Calls(log', i) = Len(host)
      BY <1>1, <1>8, <1>6, <2>2
    <3>2. line.request = host[Len(host)]
      BY <3>1
    <3>3. Len(host) - Calls(log, Len(log)) = 1
      BY <1>5, <3>1
    <3>4. Len(host) \in 1..Len(host)
      BY <1>1, <1>3, <3>3
    <3> QED  BY <1>1, <3>1, <3>2, <3>4
  <2> QED  BY <1>1, <2>1, <2>2
<1> QED  BY <1>7, <1>8 DEF Mirrors

\* authorize and call, when they record.
LEMMA RecordUnlogged ==
  ASSUME IInv, Hosted, AtMostOneUnlogged, Working, kind = "run", st.end = "none",
         NEW a \in Answers, Record(a), Request.kind = "call" <=> phase = "record",
         phase' = "run", UNCHANGED <<kind, logging, host>>
  PROVE  Hosted' /\ AtMostOneUnlogged'
<1>1. Hosted'
  BY DEF Hosted
<1>2. SUFFICES ASSUME logging
               PROVE  Mirrors(IF st.end = "replaylog" THEN {0, 1} ELSE {0})'
  BY <1>1 DEF AtMostOneUnlogged, Mirrors, LoggedCalls, Calls
<1> DEFINE line == [seq |-> seq, request |-> Request, answer |-> a]
<1>3. Request \in Requests /\ line \in Events /\ log \in Seq(Events) /\ host \in Seq(CallRequests)
  BY RequestType DEF IInv, TypeOK, Events
<1>4. Mirrors(IF phase = "record" THEN {1} ELSE {0})
  BY <1>2, UnloggedMirrors DEF Working
<1>5. phase = "record" => Request = host[Len(host)]
  BY <1>2 DEF Hosted
<1>6. CASE log' = Append(log, line)
  <2>1. line.request = Request
    BY SMTT(20)
  <2> HIDE DEF line
  <2>2. Mirrors({0})'
    BY <1>3, <1>4, <1>5, <1>6, <2>1, MirrorsLine
  <2> QED  BY <2>2 DEF Mirrors
<1>7. CASE UNCHANGED log /\ st'.end = "replaylog"
  BY <1>4, <1>7 DEF Mirrors
<1>8. \/ log' = Append(log, line)
      \/ UNCHANGED log /\ st' = [st EXCEPT !.end = "replaylog"]
  BY <1>2 DEF Record
<1>9. st \in States
  BY DEF IInv, TypeOK
<1> QED  BY <1>6, <1>7, <1>8, <1>9 DEF States

\* Whatever else happens to a process.
LEMMA NextUnlogged == IInv /\ Hosted /\ AtMostOneUnlogged /\ [Next]_vars => Hosted' /\ AtMostOneUnlogged'
<1> SUFFICES ASSUME IInv, Hosted, AtMostOneUnlogged, [Next]_vars
             PROVE  Hosted' /\ AtMostOneUnlogged'
  OBVIOUS
<1>1. CASE UNCHANGED <<process, log, host>>
  BY <1>1 DEF process, Hosted, AtMostOneUnlogged, LoggedCalls, Request
<1>2. CASE phase' \notin {"run", "record"} /\ host' = <<>>
  BY <1>2 DEF Hosted, AtMostOneUnlogged
<1>3. CASE phase' = "idle"
  BY <1>3 DEF Hosted, AtMostOneUnlogged
<1>4. CASE RejectManifest
  BY <1>4 DEF RejectManifest, Hosted, AtMostOneUnlogged
<1>5. ASSUME NEW g \in SUBSET Caps, NEW l \in BOOLEAN, StartRun(g, l)
      PROVE  Hosted' /\ AtMostOneUnlogged'
  BY <1>2, <1>5 DEF StartRun
<1>6. ASSUME NEW k \in {"replay", "verify"}, StartReplay(k)
      PROVE  Hosted' /\ AtMostOneUnlogged'
  BY <1>6 DEF StartReplay, Hosted, AtMostOneUnlogged
<1>7. CASE BuildHeader \/ OpenLog \/ OpenLogFails
  <2>1. phase \in {"print", "header"} /\ phase' \in {"header", "source", "idle"}
    BY <1>7 DEF BuildHeader, OpenLog, OpenLogFails
  <2>2. UNCHANGED <<kind, logging, host>>
    BY <1>7 DEF BuildHeader, OpenLog, OpenLogFails, ghost
  <2> QED  BY <2>1, <2>2 DEF Hosted, AtMostOneUnlogged
<1>8. CASE ReadSource
  <2>1. CASE phase' = "idle"
    BY <2>1, <1>3
  <2>2. CASE phase' = "run"
    <3>1. Hosted'
      BY <2>2 DEF Hosted
    <3>2. SUFFICES ASSUME logging
                   PROVE  AtMostOneUnlogged'
      BY <1>8, <3>1 DEF ReadSource, AtMostOneUnlogged
    <3>3. kind = "run" /\ host' = <<>> /\ log' = <<>> /\ st'.end # "replaylog"
      <4>1. kind = "run"
        BY <1>8, <3>2 DEF ReadSource, IInv, PhasesOK, TypeOK, Replaying
      <4>2. host = <<>> /\ log = <<>>
        BY <1>8, <3>2, <4>1 DEF ReadSource, Hosted, IInv, Recording, Written
      <4>3. st' = Load(Start[source]) /\ Start[source] \in Points
        BY <1>8, <2>2, RuntimeAssumption DEF ReadSource, IInv, TypeOK
      <4>4. st'.end # "replaylog"
        BY <4>3, LoadShape
      <4>5. host' = host /\ log' = log
        BY <1>8 DEF ReadSource, disk
      <4> QED  BY <4>1, <4>2, <4>4, <4>5
    <3>4. Len(host') = 0 /\ Len(log') = 0 /\ DOMAIN log' = {}
      BY <3>3
    <3>5. Calls(log', 0) = 0
      BY CallsCount, 0 \in Nat
    <3>6. LoggedCalls(Len(log))' = Calls(log', 0)
      BY <3>4 DEF LoggedCalls, Calls
    <3>7. Len(host') - LoggedCalls(Len(log))' = 0
      BY <3>4, <3>5, <3>6
    <3> QED  BY <2>2, <3>3, <3>4, <3>7 DEF AtMostOneUnlogged
  <2> QED  BY <1>8, <2>1, <2>2 DEF ReadSource
<1>9. CASE LiveAuthorize
  <2> DEFINE a == [tag |-> IF Request.cap \in grants THEN "allowed" ELSE "denied", text |-> NoText]
  <2>1. a \in Answers
    BY DEF Answers
  <2>2. /\ Record(a) /\ Working /\ kind = "run" /\ st.end = "none" /\ phase' = "run"
        /\ phase = "run" /\ Request.kind = "auth" /\ UNCHANGED <<kind, logging, host>>
    BY <1>9 DEF LiveAuthorize, Asking, Working
  <2> HIDE DEF a
  <2> QED  BY <2>1, <2>2, RecordUnlogged
<1>10. CASE LiveRecord
  <2>1. answer \in Answers /\ kind = "run" /\ st.end = "none" /\ Request.kind = "call"
    BY <1>10 DEF LiveRecord, IInv, TypeOK, PhasesOK, AtCall, Request
  <2>2. Record(answer) /\ Working /\ phase' = "run" /\ phase = "record" /\ UNCHANGED <<kind, logging, host>>
    BY <1>10 DEF LiveRecord, Working
  <2> QED  BY <2>1, <2>2, RecordUnlogged
<1>11. CASE LiveHost
  <2>1. /\ phase = "run" /\ phase' = "record" /\ st.end = "none" /\ kind = "run"
        /\ host' = Append(host, Request) /\ UNCHANGED <<log, st, kind, logging>>
    BY <1>11 DEF LiveHost, Asking, disk
  <2>2. Request \in CallRequests /\ host \in Seq(CallRequests) /\ Request' = Request
    <3>1. Request \in Requests
      BY <2>1, RequestType DEF IInv, Working
    <3> QED  BY <1>11, <2>1, <3>1 DEF LiveHost, Requests, AuthRequests, IInv, TypeOK, Request
  <2>3. /\ Len(host') = Len(host) + 1 /\ Len(host) \in Nat /\ host' # <<>>
        /\ host'[Len(host) + 1] = Request /\ \A i \in 1..Len(host) : host'[i] = host[i]
        /\ DOMAIN host = 1..Len(host) /\ DOMAIN host' = 1..(Len(host) + 1)
    BY <2>1, <2>2
  <2>4. Hosted'
    BY <2>1, <2>2, <2>3 DEF Hosted
  <2>5. SUFFICES ASSUME logging
                 PROVE  Mirrors({1})'
    BY <2>1, <2>4 DEF AtMostOneUnlogged, Mirrors, LoggedCalls, Calls
  <2>6. Mirrors({0})
    BY <2>1, <2>5, UnloggedMirrors
  <2>7. Calls(log, Len(log)) \in Nat
    <3>1. Len(log) \in Nat
      BY DEF IInv, TypeOK
    <3> QED  BY <3>1, CallsCount
  <2>8. log' = log
    BY <2>1
  <2>9. Len(host) - Calls(log, Len(log)) = 0
    BY <2>6 DEF Mirrors
  <2>10. Len(host') - Calls(log', Len(log')) \in {1}
    BY <2>3, <2>7, <2>8, <2>9
  <2>11. ASSUME NEW i \in DOMAIN log, log[i].request.kind = "call"
         PROVE  Calls(log, i) \in DOMAIN host' /\ log[i].request = host'[Calls(log, i)]
    <3>1. Calls(log, i) \in DOMAIN host /\ log[i].request = host[Calls(log, i)]
      BY <2>6, <2>11 DEF Mirrors
    <3> QED  BY <2>3, <3>1
  <2>12. \A i \in DOMAIN log' : log'[i].request.kind = "call" =>
           Calls(log', i) \in DOMAIN host' /\ log'[i].request = host'[Calls(log', i)]
    BY <2>8, <2>11
  <2> QED  BY <2>10, <2>12 DEF Mirrors
<1>12. CASE ReplayRequest
  BY <1>12 DEF ReplayRequest, Asking, Hosted, AtMostOneUnlogged, IInv, PhasesOK, Replaying
<1>13. CASE Edit
  BY <1>1, <1>13 DEF Edit, ghost
<1> QED
  BY <1>1, <1>3, <1>4, <1>5, <1>6, <1>7, <1>8, <1>9, <1>10, <1>11, <1>12, <1>13
     DEF Next, Step, vars, disk, ghost, Kill, Finish

\* Whatever the program, the manifest and the failures of the log, and at
\* whichever step a run is killed: the log of a run holds the operations that
\* were carried out, in order, but for at most the last (LiveRuntime::call).
THEOREM LogMissesAtMostOne == Spec => []AtMostOneUnlogged
<1>1. Init => Hosted /\ AtMostOneUnlogged
  BY DEF Init, Hosted, AtMostOneUnlogged
<1> QED  BY <1>1, Invariance, NextUnlogged, PTL DEF Spec
=============================================================================
