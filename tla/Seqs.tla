-------------------------------- MODULE Seqs --------------------------------
(***************************************************************************)
(* Programs on a traversal: a source, adapters over it, and a consumer.    *)
(*                                                                         *)
(* Known to differ:                                                        *)
(*  - adapters of the compiled program run at once, so their calls come    *)
(*    before the consumer's and are made for items no one consumes         *)
(*    (func.rs:13177), and any and all go through every part of a split    *)
(*    (func.rs:22011, 22167);                                              *)
(*  - consumers of characters and parts read the string as if it were      *)
(*    flat (func.rs:15867, 16264, 22396, 22869, 23631, 24526);             *)
(*  - zip, chunks and windows of other kinds of Seq are unreachable code   *)
(*    (func.rs:13640, 13799, 13919);                                       *)
(*  - locals used twice: chunks and windows of a list inside a Seq         *)
(*    (func.rs:13773), zip with items that are pointers or characters on   *)
(*    the right (func.rs:14327), zip with a bit set on the left            *)
(*    (func.rs:13574), scan of Floats (func.rs:14698), fold of a bit set   *)
(*    to a String (func.rs:22646).                                         *)
(***************************************************************************)
EXTENDS Backends, WasmSeqs
LOCAL INSTANCE SequencesExt
LOCAL INSTANCE FiniteSetsExt

(***************************************************************************)
(* Lazy traversals of the interpreter (crates/eval/src/value.rs,           *)
(* interpreter.rs).                                                        *)
(*                                                                         *)
(* A Seq is a plan: a source or an adapter over plans.  Two engines run    *)
(* one: seq_for_each_control pushes the items into a consumer, and         *)
(* seq_iter_next pulls one item at a time.  Each is modelled by the events *)
(* it causes, in order: the calls of the program's functions and the items *)
(* handed on.  A consumer that breaks cuts the events after an item.       *)
(***************************************************************************)

(***************************************************************************)
(* Plans.  type is that of the items.                                      *)
(***************************************************************************)
RangeSource(a, b) == [op |-> "range", type |-> Whole, at |-> a, end |-> b]
ListSource(type, items) == [op |-> "items", type |-> type, items |-> items, at |-> 0]
CharsSource(s) == [op |-> "chars", type |-> Char, s |-> s, at |-> 0]
LinesSource(s) == [op |-> "lines", type |-> Text, s |-> s, at |-> 0]
SplitSource(s, delim) ==
  [op |-> "split", type |-> Text, s |-> s, delim |-> delim, at |-> 0,
   leading |-> FALSE, trailing |-> FALSE]
BitsSource(size, bits) == [op |-> "bits", type |-> Whole, size |-> size, bits |-> bits, at |-> 0]

MapPlan(input) == [op |-> "map", type |-> Whole, input |-> input]
FlatMapPlan(input) == [op |-> "flat_map", type |-> Whole, input |-> input, inner |-> << >>]
FilterPlan(input) == [op |-> "filter", type |-> input.type, input |-> input]
ScanPlan(input) ==
  [op |-> "scan", type |-> IF input.type = Real THEN Real ELSE Whole,
   input |-> input, acc |-> 1, started |-> FALSE]
UnfoldPlan(seed) == [op |-> "unfold", type |-> Whole, state |-> << seed >>]
EnumeratePlan(input) ==
  [op |-> "enumerate", type |-> PairOf(Whole, input.type), input |-> input, idx |-> 0]
ZipPlan(left, right) ==
  [op |-> "zip", type |-> PairOf(left.type, right.type), left |-> left, right |-> right]
ChunksPlan(input, n) == [op |-> "chunks", type |-> ListOf(input.type), input |-> input, n |-> n]
WindowsPlan(input, n) ==
  [op |-> "windows", type |-> ListOf(input.type), input |-> input, n |-> n, window |-> << >>,
   primed |-> FALSE]

(* Whether running the plan calls a function of the program. *)
RECURSIVE CallsBack(_)
CallsBack(plan) ==
  CASE plan.op \in {"map", "flat_map", "filter", "scan", "unfold"} -> TRUE
    [] plan.op \in {"enumerate", "chunks", "windows"} -> CallsBack(plan.input)
    [] plan.op = "zip" -> CallsBack(plan.left) \/ CallsBack(plan.right)
    [] OTHER -> FALSE

(***************************************************************************)
(* seq_for_each_control: the events of a plan pushed to the end.           *)
(***************************************************************************)
(* str::split and str::lines *)
RECURSIVE StdSplit(_, _)
StdSplit(s, delim) ==
  IF ~TextContains(s, delim) THEN << s >>
  ELSE << Chars(s, 0, Find(s, delim)) >>
         \o StdSplit(Chars(s, Find(s, delim) + Len(delim), Len(s)), delim)
StdChars(s) == [i \in DOMAIN s |-> << s[i] >>]
Unreturned(line) == IF IsSuffix(<< Return >>, line) THEN Front(line) ELSE line
StdLines(s) ==
  LET ended == Front(StdSplit(s, << Newline >>))
      last  == Last(StdSplit(s, << Newline >>))
  IN  [i \in DOMAIN ended |-> Unreturned(ended[i])] \o (IF last = << >> THEN << >> ELSE << last >>)

PushedItems(source) ==
  CASE source.op = "range" ->
         IF source.end <= source.at THEN << >>
         ELSE [i \in 1 .. source.end - source.at |-> source.at + i - 1]
    [] source.op = "items" -> source.items
    [] source.op = "chars" -> source.s
    [] source.op = "lines" -> StdLines(source.s)
    [] source.op = "split" ->
         IF source.delim = << >> THEN << << >> >> \o StdChars(source.s) \o << << >> >>
         ELSE StdSplit(source.s, source.delim)
    [] OTHER -> SelectSeq([i \in 1 .. source.size |-> i - 1], LAMBDA i : i \in source.bits)

PushSource(source) ==
  LET items == PushedItems(source) IN [i \in DOMAIN items |-> Emit(items[i])]

(* What an adapter does with one event of its input. *)
PushMap(type, e) == << Call("map", Weight(type, e.item)), Emit(MapTo(type, e.item)) >>
PushFilter(type, e) ==
  << Call("filter", Weight(type, e.item)) >> \o (IF Likes(type, e.item) THEN << e >> ELSE << >>)
PushFlatMap(type, e) ==
  << Call("flat_map", Weight(type, e.item)) >> \o PushSource(ListSource(Whole, Spread(type, e.item)))
PushThrough(plan, e) ==
  CASE e.event = "call" -> << e >>
    [] e.event = "emit" /\ plan.op = "map" -> PushMap(plan.input.type, e)
    [] e.event = "emit" /\ plan.op = "filter" -> PushFilter(plan.input.type, e)
    [] OTHER -> PushFlatMap(plan.input.type, e)

(* Scan, enumerate, chunks and windows carry what they saw to the next item. *)
PushScan(type, carried, e) ==
  [acc |-> Accumulate(type, carried.acc, e.item),
   events |-> carried.events \o << Call("scan", Weight(type, e.item)),
                                   Emit(Accumulate(type, carried.acc, e.item)) >>]
PushEnumerate(carried, e) ==
  [acc |-> carried.acc + 1, events |-> Append(carried.events, Emit(<< carried.acc, e.item >>))]
PushChunk(n, carried, e) ==
  IF Len(carried.acc) + 1 = n
  THEN [acc |-> << >>, events |-> Append(carried.events, Emit(Append(carried.acc, e.item)))]
  ELSE [carried EXCEPT !.acc = Append(@, e.item)]
PushWindow(n, carried, e) ==
  IF Len(carried.acc) + 1 < n THEN [carried EXCEPT !.acc = Append(@, e.item)]
  ELSE [acc |-> Tail(Append(carried.acc, e.item)),
        events |-> Append(carried.events, Emit(Append(carried.acc, e.item)))]
PushCarrying(plan, carried, e) ==
  CASE e.event = "call" -> [carried EXCEPT !.events = Append(@, e)]
    [] e.event = "emit" /\ plan.op = "scan" -> PushScan(plan.input.type, carried, e)
    [] e.event = "emit" /\ plan.op = "enumerate" -> PushEnumerate(carried, e)
    [] e.event = "emit" /\ plan.op = "chunks" -> PushChunk(plan.n, carried, e)
    [] OTHER -> PushWindow(plan.n, carried, e)

\* Mutant: the last chunk is handed on only if it is full.
PushLastFull(plan, carried) == carried.events

(* A chunk that is not full is handed on at the end. *)
PushLast(plan, carried) ==
  IF plan.op = "chunks" /\ carried.acc # << >> THEN Append(carried.events, Emit(carried.acc))
  ELSE carried.events
PushStart(plan) ==
  CASE plan.op = "scan" -> [acc |-> plan.acc, events |-> << Emit(plan.acc) >>]
    [] plan.op = "enumerate" -> [acc |-> 0, events |-> << >>]
    [] OTHER -> [acc |-> << >>, events |-> << >>]

RECURSIVE PushUnfold(_)
PushUnfold(state) ==
  << Call("unfold", state) >>
    \o (IF state >= StepLimit THEN << >>
        ELSE << Emit(StepValue(state)) >> \o PushUnfold(state + 1))

(***************************************************************************)
(* seq_iter_next: a plan is also the state of its iterator.  A pull leaves *)
(* the iterator, the item if there is one, and the calls it made.          *)
(***************************************************************************)
Pulled(it, item, calls) == [it |-> it, item |-> item, calls |-> calls]
PulledSome(it, x) == Pulled(it, << x >>, << >>)
PulledNone(it) == Pulled(it, << >>, << >>)

PullPart(it, pull) ==
  IF pull.parts = << >> THEN PulledNone(it) ELSE PulledSome([it EXCEPT !.at = pull.next], pull.parts[1])
PullSplitChars(it) ==
  CASE ~it.leading -> PulledSome([it EXCEPT !.leading = TRUE], << >>)
    [] it.leading /\ it.at < Len(it.s) -> PulledSome([it EXCEPT !.at = @ + 1], << it.s[it.at + 1] >>)
    [] it.leading /\ it.at >= Len(it.s) /\ ~it.trailing ->
         PulledSome([it EXCEPT !.trailing = TRUE], << >>)
    [] OTHER -> PulledNone(it)
PullBit(it) ==
  LET left == {i \in it.bits : i >= it.at /\ i < it.size}
  IN  IF left = {} THEN PulledNone(it) ELSE PulledSome([it EXCEPT !.at = Min(left) + 1], Min(left))
SeqSourceIterNext(it) ==
  CASE it.op = "range" ->
         IF it.at >= it.end THEN PulledNone(it) ELSE PulledSome([it EXCEPT !.at = @ + 1], it.at)
    [] it.op = "items" ->
         IF it.at >= Len(it.items) THEN PulledNone(it)
         ELSE PulledSome([it EXCEPT !.at = @ + 1], it.items[it.at + 1])
    [] it.op = "chars" -> PullPart(it, NextStringChar(it.s, it.at))
    [] it.op = "lines" -> PullPart(it, NextStringLine(it.s, it.at))
    [] it.op = "split" -> IF it.delim = << >> THEN PullSplitChars(it)
                          ELSE PullPart(it, NextStringSplitPart(it.s, it.delim, it.at))
    [] OTHER -> PullBit(it)

(* The next state of an adapter whose input was pulled. *)
Passed(it, pulled, item, calls) ==
  Pulled([it EXCEPT !.input = pulled.it], item, pulled.calls \o calls)
PullMap(it, pulled) ==
  IF pulled.item = << >> THEN Passed(it, pulled, << >>, << >>)
  ELSE Passed(it, pulled, << MapTo(it.input.type, pulled.item[1]) >>,
              << Call("map", Weight(it.input.type, pulled.item[1])) >>)
PullEnumerate(it, pulled) ==
  IF pulled.item = << >> THEN Passed(it, pulled, << >>, << >>)
  ELSE Passed([it EXCEPT !.idx = @ + 1], pulled, << << it.idx, pulled.item[1] >> >>, << >>)
PullScanned(it, acc, pulled) ==
  Passed([it EXCEPT !.acc = acc], pulled, << acc >>,
         << Call("scan", Weight(it.input.type, pulled.item[1])) >>)
PullScan(it, pulled) ==
  IF pulled.item = << >> THEN Passed(it, pulled, << >>, << >>)
  ELSE PullScanned(it, Accumulate(it.input.type, it.acc, pulled.item[1]), pulled)
PullUnfold(it) ==
  CASE it.state = << >> -> PulledNone(it)
    [] it.state # << >> /\ it.state[1] >= StepLimit ->
         Pulled([it EXCEPT !.state = << >>], << >>, << Call("unfold", it.state[1]) >>)
    [] OTHER -> Pulled([it EXCEPT !.state[1] = @ + 1], << StepValue(it.state[1]) >>,
                       << Call("unfold", it.state[1]) >>)

RECURSIVE SeqIterNext(_)
RECURSIVE PullWindow(_, _, _)
RECURSIVE PullChunk(_, _, _, _)

After(calls, pulled) == [pulled EXCEPT !.calls = calls \o @]
Asked(fn, it, pulled) == Append(pulled.calls, Call(fn, Weight(it.input.type, pulled.item[1])))

(* A refused item is passed over, and the input pulled again. *)
PullFilter(it, pulled) ==
  CASE pulled.item = << >> -> Passed(it, pulled, << >>, << >>)
    [] pulled.item # << >> /\ Likes(it.input.type, pulled.item[1]) ->
         Pulled([it EXCEPT !.input = pulled.it], pulled.item, Asked("filter", it, pulled))
    [] OTHER -> After(Asked("filter", it, pulled), SeqIterNext([it EXCEPT !.input = pulled.it]))

(* When the inner traversal is at its end the next outer item makes another. *)
PullFlatMap(it, pulled) ==
  IF pulled.item = << >> THEN Passed(it, pulled, << >>, << >>)
  ELSE After(Asked("flat_map", it, pulled),
             SeqIterNext([it EXCEPT !.input = pulled.it,
                                    !.inner = Spread(it.input.type, pulled.item[1])]))
PullZip(it, left, right) ==
  Pulled([it EXCEPT !.left = left.it, !.right = right.it],
         IF right.item = << >> THEN << >> ELSE << << left.item[1], right.item[1] >> >>,
         left.calls \o right.calls)
PullZipLeft(it, left) ==
  IF left.item = << >> THEN Pulled([it EXCEPT !.left = left.it], << >>, left.calls)
  ELSE PullZip(it, left, SeqIterNext(it.right))
PullChunk(it, chunk, calls, pulled) ==
  CASE pulled.item = << >> ->
         Pulled([it EXCEPT !.input = pulled.it], IF chunk = << >> THEN << >> ELSE << chunk >>,
                calls \o pulled.calls)
    [] pulled.item # << >> /\ Len(chunk) + 1 = it.n ->
         Pulled([it EXCEPT !.input = pulled.it], << chunk \o pulled.item >>, calls \o pulled.calls)
    [] OTHER -> PullChunk([it EXCEPT !.input = pulled.it], chunk \o pulled.item,
                          calls \o pulled.calls, SeqIterNext(pulled.it))
NextWindow(it, window, calls) ==
  Pulled([it EXCEPT !.window = window, !.primed = TRUE], << window >>, calls)
PullWindow(it, calls, pulled) ==
  LET seen == [it EXCEPT !.input = pulled.it]
  IN  CASE pulled.item = << >> -> Pulled(seen, << >>, calls \o pulled.calls)
        [] pulled.item # << >> /\ it.primed ->
             NextWindow(seen, Tail(it.window) \o pulled.item, calls \o pulled.calls)
        [] pulled.item # << >> /\ ~it.primed /\ Len(it.window) + 1 = it.n ->
             NextWindow(seen, it.window \o pulled.item, calls \o pulled.calls)
        [] OTHER -> PullWindow([seen EXCEPT !.window = @ \o pulled.item], calls \o pulled.calls,
                               SeqIterNext(pulled.it))

SeqIterNext(it) ==
  CASE it.op = "map" -> PullMap(it, SeqIterNext(it.input))
    [] it.op = "filter" -> PullFilter(it, SeqIterNext(it.input))
    [] it.op = "flat_map" ->
         IF it.inner # << >> THEN PulledSome([it EXCEPT !.inner = Tail(@)], Head(it.inner))
         ELSE PullFlatMap(it, SeqIterNext(it.input))
    [] it.op = "scan" ->
         IF ~it.started THEN PulledSome([it EXCEPT !.started = TRUE], it.acc)
         ELSE PullScan(it, SeqIterNext(it.input))
    [] it.op = "unfold" -> PullUnfold(it)
    [] it.op = "enumerate" -> PullEnumerate(it, SeqIterNext(it.input))
    [] it.op = "zip" -> PullZipLeft(it, SeqIterNext(it.left))
    [] it.op = "chunks" -> PullChunk(it, << >>, << >>, SeqIterNext(it.input))
    [] it.op = "windows" -> PullWindow(it, << >>, SeqIterNext(it.input))
    [] OTHER -> SeqSourceIterNext(it)

(* Pulls until there is no item. *)
RECURSIVE PullAll(_)
PullAll(pulled) ==
  IF pulled.item = << >> THEN pulled.calls
  ELSE pulled.calls \o << Emit(pulled.item[1]) >> \o PullAll(SeqIterNext(pulled.it))
PullEvents(plan) == PullAll(SeqIterNext(plan))

(***************************************************************************)
(* A zip is pushed by pulling both of its sides.                           *)
(***************************************************************************)
RECURSIVE Push(_)
PushEach(plan, events) == FlattenSeq([i \in DOMAIN events |-> PushThrough(plan, events[i])])
PushAlong(plan, events) ==
  PushLast(plan, FoldLeft(LAMBDA carried, e : PushCarrying(plan, carried, e),
                          PushStart(plan), events))
Push(plan) ==
  CASE plan.op \in {"map", "filter", "flat_map"} -> PushEach(plan, Push(plan.input))
    [] plan.op \in {"scan", "enumerate", "chunks", "windows"} -> PushAlong(plan, Push(plan.input))
    [] plan.op = "unfold" -> PushUnfold(plan.state[1])
    [] plan.op = "zip" -> PullEvents(plan)
    [] OTHER -> PushSource(plan)

(***************************************************************************)
(* The consumers: what they answer and the calls they cause.               *)
(***************************************************************************)
EvalSeqToVec(plan) == EmittedItems(Push(plan))
SeqCountOf(plan) == Len(EvalSeqToVec(plan))
SeqCountByOf(plan) == Len(SelectSeq(EvalSeqToVec(plan), LAMBDA x : Likes(plan.type, x)))
SeqAnyOf(plan) == \E i \in DOMAIN EvalSeqToVec(plan) : Likes(plan.type, EvalSeqToVec(plan)[i])
SeqAllOf(plan) == \A i \in DOMAIN EvalSeqToVec(plan) : Likes(plan.type, EvalSeqToVec(plan)[i])
SeqFindOf(plan) ==
  LET liked == SelectSeq(EvalSeqToVec(plan), LAMBDA x : Likes(plan.type, x))
  IN  IF liked = << >> THEN None ELSE Some(liked[1])
SeqContainsOf(plan, needle) == needle \in ToSet(EvalSeqToVec(plan))
SeqFoldOf(plan) ==
  FoldLeft(LAMBDA acc, x : Accumulate(plan.type, acc, x), 0, EvalSeqToVec(plan))
SeqFoldTextOf(plan) ==
  LET items == EvalSeqToVec(plan) IN [i \in DOMAIN items |-> Weight(plan.type, items[i])]

(* The item at which a consumer breaks: the first liked one for any and    *)
(* find, the first other one for all.                                      *)
Breaks(query, type, x) ==
  \/ query \in {"any", "find"} /\ Likes(type, x)
  \/ query = "all" /\ ~Likes(type, x)
CutAt(query, type, events) ==
  LET at == {i \in DOMAIN events : events[i].event = "emit" /\ Breaks(query, type, events[i].item)}
  IN  IF at = {} THEN events ELSE SubSeq(events, 1, Min(at))
Consumer(query, type, e) ==
  IF e.event = "call" THEN e ELSE Call(query, Weight(type, e.item))
ConsumerCalls(query, plan) ==
  LET events == CutAt(query, plan.type, Push(plan))
  IN  [i \in DOMAIN events |-> Consumer(query, plan.type, events[i])]

(***************************************************************************)
(* The programs                                                            *)
(***************************************************************************)
CONSTANTS
  SeqTexts,     \* the texts a program traverses
  SeqDelims,    \* the delimiters it splits them at
  SeqSizes      \* the sizes of chunks and windows

Scalars == {Whole, Char, Real, Text}

(* A traversal: the plan, and whether it is a List traversed as it is. *)
Traversal(plan, linear) == [plan |-> plan, linear |-> linear]

(* A text as a literal, or as a concatenation that is still pending. *)
Literal(m, text) == Alloc(m, Flat(Encode(text), Len(text)))
Joined(left, right) == Alloc(right.memory, Rope(right.memory, left.out, right.out))
JoinTo(left, text) == Joined(left, Literal(left.memory, text))
Pending(text) == JoinTo(Literal(<< >>, << Head(text) >>), Tail(text))
MadeTexts(text) ==
  {Literal(<< >>, text)} \cup (IF Len(text) > 1 THEN {Pending(text)} ELSE {})

(* The other operand of zip. *)
Others(m) ==
  {<< RangeSource(5, 7), FALSE, SeqRange(m, 5, 7) >>,
   << ListSource(Char, << 99 >>), TRUE, FreshList(m, << 99 >>) >>}

StartSeqs(plan, linear, made) ==
  \E other \in Others(made.memory) :
    /\ Starting("seqs")
    /\ refs = [seq |-> Traversal(plan, linear), other |-> Traversal(other[1], other[2])]
    /\ objects = << >>
    /\ memory = other[3].memory
    /\ pointers = [seq |-> made.out, other |-> other[3].out]

MadeBits(n, bits) ==
  FoldLeft(LAMBDA made, i : Answer(BitsetUpdateInPlace(made.memory, made.out, "set", i), made.out),
           AllocZeroedBitset(<< >>, n), bits)
ValuesOf(made) == SeqBitsetValues(made.memory, made.out)

SeqsInit ==
  \/ \E a \in {0, 2}, b \in {0, 3} : StartSeqs(RangeSource(a, b), FALSE, SeqRange(<< >>, a, b))
  \/ \E items \in {<< >>, << 2 >>, << 4, 1, 3 >>}, type \in {Whole, Char, Real} :
       StartSeqs(ListSource(type, items), TRUE, FreshList(<< >>, items))
  \/ \E bits \in {<< >>, << 0, 3 >>} :
       StartSeqs(BitsSource(4, ToSet(bits)), FALSE, ValuesOf(MadeBits(4, bits)))
  \/ StartSeqs(UnfoldPlan(0), FALSE, SeqUnfold(<< >>, 0))
  \/ \E text \in SeqTexts : \E made \in MadeTexts(text) :
       \/ StartSeqs(CharsSource(text), FALSE, SeqChars(made.memory, made.out))
       \/ StartSeqs(LinesSource(text), FALSE, SeqLines(made.memory, made.out))
       \/ \E delim \in SeqDelims :
            LET by == Literal(made.memory, delim)
            IN  StartSeqs(SplitSource(text, delim), FALSE, SeqSplit(by.memory, made.out, by.out))

(***************************************************************************)
(* Adapters                                                                *)
(***************************************************************************)
Plan == refs.seq.plan
Linear == refs.seq.linear
Adapt(plan, made) == Store("seq", Traversal(plan, FALSE), WrapList(made))

(* What the adapter makes, asked for at once. *)
Differ(query, plan, made) ==
  Ask(query, TRUE, Ok(EvalSeqToVec(plan)),
      {Ok(ListContents(made.memory, plan.type, made.out))}, memory)
Unreachable(query, plan) == Ask(query, TRUE, Ok(EvalSeqToVec(plan)), {Fails}, memory)

MapSeq == Plan.type \in Scalars /\ Adapt(MapPlan(Plan), SeqMap(memory, Linear, Plan.type, pointers.seq))
FilterSeq ==
  Plan.type \in Scalars /\ Adapt(FilterPlan(Plan), SeqFilter(memory, Linear, Plan.type, pointers.seq))
FlatMapSeq ==
  Plan.type \in Scalars /\ Adapt(FlatMapPlan(Plan), SeqFlatMap(memory, Linear, Plan.type, pointers.seq))
ScanSeq ==
  /\ Plan.type \in Scalars
  /\ LET made == SeqScan(memory, Linear, Plan.type, pointers.seq)
     IN  IF Plan.type = Real THEN Differ("scan", ScanPlan(Plan), made) ELSE Adapt(ScanPlan(Plan), made)
EnumerateSeq == Adapt(EnumeratePlan(Plan), SeqEnumerate(memory, Linear, pointers.seq))

ZipWith(plan) ==
  LET other == refs.other
      made  == SeqZip(memory, Linear, pointers.seq, other.linear, pointers.other)
  IN  CASE ~Listed(memory, Linear, pointers.seq)
             \/ ClobbersZip(memory, Linear, pointers.seq, other.plan.type, EvalSeqToVec(other.plan)) ->
             Unreachable("zip", plan)
        [] OTHER -> IF ClobbersRight(memory, Linear, pointers.seq) THEN Differ("zip", plan, made)
                    ELSE Adapt(plan, made)
ZipSeq == ZipWith(ZipPlan(Plan, refs.other.plan))

(* The list inside a Seq has items that the chunk or window is made of. *)
ReadsItself(n) ==
  ~Linear /\ memory[pointers.seq].kind = "list" /\ memory[memory[pointers.seq].source].len >= n
Grouped(query, plan, n, most, made) ==
  CASE n <= 0 -> Refused(query)
    [] n > 0 /\ ~Chunkable(memory, Linear, pointers.seq) -> Unreachable(query, plan)
    [] OTHER -> IF ReadsItself(most) THEN Differ(query, plan, made) ELSE Adapt(plan, made)
ChunksSeq(n) ==
  /\ Plan.type \in Scalars
  /\ Grouped("chunks", ChunksPlan(Plan, n), n, 1, SeqChunks(memory, Linear, pointers.seq, n))
WindowsSeq(n) ==
  /\ Plan.type \in Scalars
  /\ Grouped("windows", WindowsPlan(Plan, n), n, n, SeqWindows(memory, Linear, pointers.seq, n))

(***************************************************************************)
(* Consumers                                                               *)
(***************************************************************************)
Raw == IsRaw(memory, Linear, pointers.seq)
IsSplit == ~Linear /\ memory[pointers.seq].kind = "split"

(* A question, whose answer on a string that is not flat is another one. *)
AskSeq(query, expected, value) ==
  IF Raw THEN Ask(query, TRUE, Ok(expected), RawOutcomes(query), memory)
  ELSE Ask(query, FALSE, Ok(expected), {Ok(value)}, memory)

AskList(list) ==
  Ask("to_list", FALSE, Ok(EvalSeqToVec(Plan)),
      {Ok(ListContents(list.memory, Plan.type, list.out))}, list.memory)
ListSeq == AskList(SeqToList(memory, Linear, pointers.seq))

(* The number of characters is in the header of any string. *)
CountSeq ==
  IF IsSplit THEN AskSeq("count", SeqCountOf(Plan), SeqCount(memory, Linear, pointers.seq))
  ELSE Ask("count", FALSE, Ok(SeqCountOf(Plan)), {Ok(SeqCount(memory, Linear, pointers.seq))}, memory)
Expected(query) ==
  CASE query = "count_by" -> SeqCountByOf(Plan)
    [] query = "any" -> SeqAnyOf(Plan)
    [] query = "all" -> SeqAllOf(Plan)
    [] query = "find" -> SeqFindOf(Plan)
    [] OTHER -> SeqFoldOf(Plan)
Consume(query) ==
  CASE query = "count_by" -> SeqCountBy(memory, Linear, Plan.type, pointers.seq)
    [] query = "any" -> SeqAny(memory, Linear, Plan.type, pointers.seq)
    [] query = "all" -> SeqAll(memory, Linear, Plan.type, pointers.seq)
    [] query = "find" -> SeqFind(memory, Linear, Plan.type, pointers.seq)
    [] OTHER -> SeqFold(memory, Linear, Plan.type, pointers.seq)
ConsumerQueries == {"count_by", "any", "all", "find", "fold"}
ConsumeSeq(query) ==
  Plan.type \in Scalars /\ AskSeq(query, Expected(query), Consume(query).value)

(* The calls that a program sees the operation make. *)
CallsSeq(query) ==
  /\ Plan.type \in Scalars /\ ~Raw
  /\ Ask("calls", CallsBack(Plan) \/ (IsSplit /\ query \in {"any", "all"}),
         Ok(ConsumerCalls(query, Plan)), {Ok(Consume(query).calls)}, memory)

(* An item of the traversal, and one that may not be in it. *)
Needles(type) == IF type = Text THEN {<< >>, << 97 >>} ELSE {1, 97}
ContainsSeq ==
  /\ Plan.type \in Scalars
  /\ \E needle \in Needles(Plan.type) :
       AskSeq("contains", SeqContainsOf(Plan, needle),
              SeqContains(memory, Linear, Plan.type, pointers.seq, needle))

TextAt(made) == Content(made.memory, Text, made.out)
FoldTextSeq ==
  /\ Plan.type \in Scalars
  /\ CASE ClobbersFold(memory, Linear, pointers.seq) ->
            Ask("fold text", TRUE, Ok(SeqFoldTextOf(Plan)), {Fails}, memory)
       [] IsSplit /\ Raw ->
            Ask("fold text", TRUE, Ok(SeqFoldTextOf(Plan)), RawOutcomes("fold text"), memory)
       [] OTHER -> Ask("fold text", FALSE, Ok(SeqFoldTextOf(Plan)),
                       {Ok(TextAt(SeqFoldText(memory, Linear, Plan.type, pointers.seq)))}, memory)

SeqsNext ==
  /\ surface = "seqs"
  /\ \/ MapSeq \/ FilterSeq \/ FlatMapSeq \/ ScanSeq \/ EnumerateSeq \/ ZipSeq
     \/ \E n \in SeqSizes : ChunksSeq(n) \/ WindowsSeq(n)
     \/ ListSeq \/ CountSeq \/ ContainsSeq \/ FoldTextSeq
     \/ \E query \in ConsumerQueries : ConsumeSeq(query) \/ CallsSeq(query)

-----------------------------------------------------------------------------
(* The interpreter has two engines for a plan, and which one runs it       *)
(* depends on the operation (zip and frequencies pull, the others push).   *)
(* Both hand on the same items and call the program's functions on the     *)
(* same values in the same order (interpreter.rs:5230, 5375).              *)
EnginesAgree == surface = "seqs" => PullEvents(Plan) = Push(Plan)
=============================================================================
