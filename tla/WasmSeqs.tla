------------------------------ MODULE WasmSeqs ------------------------------
(***************************************************************************)
(* Traversals in a compiled program (crates/codegen/src/wasm/func.rs).     *)
(*                                                                         *)
(* A Seq is a cell: a range, the characters or the parts of a string, the  *)
(* values of a bit set, or a list.  A List or Deque is traversed as it is. *)
(* Adapters run at once and make a list.  A consumer has its value and the *)
(* calls it made.                                                          *)
(***************************************************************************)
EXTENDS WasmStrings, WasmLists
LOCAL INSTANCE SequencesExt
LOCAL INSTANCE FiniteSetsExt

Consumed(value, calls) == [value |-> value, calls |-> calls]
CallsOn(fn, type, items) == [i \in DOMAIN items |-> Call(fn, Weight(type, items[i]))]

(* The value that a slot holds.  What no routine wrote reads as zero: no text. *)
RECURSIVE Content(_, _, _)
Content(memory, type, slot) ==
  CASE type[1] = "text" -> IF slot = 0 THEN << >> ELSE DecodeFrom(FlattenInto(memory, slot), 0)
    [] type[1] = "list" ->
         [i \in 1 .. memory[slot].len |-> Content(memory, type[2], Slot(memory, slot, i - 1))]
    [] type[1] = "pair" -> << Content(memory, type[2], memory[slot].left),
                              Content(memory, type[3], memory[slot].right) >>
    [] OTHER -> slot
ListContents(memory, type, p) == Content(memory, ListOf(type), p)

(***************************************************************************)
(* Sources                                                                 *)
(***************************************************************************)
SeqRange(memory, a, b) == Alloc(memory, [kind |-> "range", start |-> a, end |-> b])
SeqChars(memory, s) == Alloc(memory, [kind |-> "chars", source |-> s])
SeqSplit(memory, s, delim) == Alloc(memory, [kind |-> "split", source |-> s, delim |-> delim])
SeqBitsetValues(memory, bits) == Alloc(memory, [kind |-> "bits", source |-> bits])
WrapList(made) == Alloc(made.memory, [kind |-> "list", source |-> made.out])

(* The strings are stored, and then a list of them. *)
StringsList(memory, nodes) ==
  FreshList(memory \o nodes, [i \in DOMAIN nodes |-> Len(memory) + i])
SeqLines(memory, s) ==
  LET lines == SeqLinesToList(memory, s) IN WrapList(StringsList(lines.memory, lines.out))

RECURSIVE UnfoldFrom(_)
UnfoldFrom(state) ==
  IF state >= StepLimit THEN << >> ELSE << StepValue(state) >> \o UnfoldFrom(state + 1)
SeqUnfold(memory, seed) == WrapList(FreshList(memory, UnfoldFrom(seed)))

LoadRangeBounds(memory, p) == [start |-> memory[p].start, end |-> memory[p].end]
RangeLen(bounds) == IF bounds.end <= bounds.start THEN 0 ELSE bounds.end - bounds.start
RangeItems(bounds) == [i \in 1 .. RangeLen(bounds) |-> bounds.start + i - 1]
RangeAt(memory, p) == RangeItems(LoadRangeBounds(memory, p))

(***************************************************************************)
(* A Seq as a list                                                         *)
(***************************************************************************)
MaterializeRange(memory, p) == FreshList(memory, RangeAt(memory, p))
ToListChars(memory, p) ==
  LET chars == SeqCharsToList(memory, memory[p].source) IN FreshList(chars.memory, chars.out)
ToListSplit(memory, p) ==
  LET parts == SeqSplitToList(memory, memory[p].source, memory[p].delim)
  IN  StringsList(parts.memory, parts.out)
MaterializeCore(memory, p) ==
  CASE memory[p].kind = "list" -> Answer(memory, memory[p].source)
    [] memory[p].kind = "range" -> MaterializeRange(memory, p)
    [] memory[p].kind = "bits" -> SeqToListBitsetValues(memory, memory[p].source)
    [] memory[p].kind = "chars" -> ToListChars(memory, p)
    [] OTHER -> ToListSplit(memory, p)

(* seq_to_list; a List is one already. *)
SeqToList(memory, linear, p) == IF linear THEN Answer(memory, p) ELSE MaterializeCore(memory, p)

(* zip takes ranges, bit sets and lists; another kind is unreachable code. *)
Listed(memory, linear, p) == linear \/ memory[p].kind \in {"list", "range", "bits"}
SeqSourceToList(memory, linear, p) ==
  CASE linear -> Answer(memory, p)
    [] ~linear /\ memory[p].kind = "list" -> Answer(memory, memory[p].source)
    [] ~linear /\ memory[p].kind = "range" -> MaterializeRange(memory, p)
    [] OTHER -> SeqToListBitsetValues(memory, memory[p].source)

(***************************************************************************)
(* map, filter, flat_map and scan: over a range as it is, over a list.     *)
(***************************************************************************)
MapOver(memory, type, items) ==
  FreshList(memory, [i \in DOMAIN items |-> MapTo(type, items[i])])
MapRange(memory, p) == MapOver(memory, Whole, RangeAt(memory, p))
MapList(list, type) == MapOver(list.memory, type, ListContents(list.memory, type, list.out))

FilterList(list, type) ==
  FreshList(list.memory, SelectSeq(Items(list.memory, list.out),
                                   LAMBDA slot : Likes(type, Content(list.memory, type, slot))))

(* The mapper allocates a list, whose items are pushed behind the others. *)
AppendLinearCollection(memory, out, p) ==
  FoldLeft(LAMBDA m, item : ListLikePushBack(m, out, item), memory, Items(memory, p))
AppendSpread(memory, out, produced) == AppendLinearCollection(produced.memory, out, produced.out)
FlatMapOver(list, type, items) ==
  Answer(FoldLeft(LAMBDA m, x : AppendSpread(m, list.out, FreshList(m, Spread(type, x))),
                  list.memory, items),
         list.out)
FlatMapRange(memory, p) == FlatMapOver(EmptyList(memory), Whole, RangeAt(memory, p))
FlatMapList(list, type) ==
  FlatMapOver(EmptyList(list.memory), type, ListContents(list.memory, type, list.out))

(* With Float items and a Float accumulator both are kept in one local:    *)
(* the folder is given the item twice.                                     *)
ScanStep(type, acc, x) == Accumulate(type, IF type = Real THEN x ELSE acc, x)
ScanOver(memory, type, items) ==
  FreshList(memory, FoldLeft(LAMBDA accs, x : Append(accs, ScanStep(type, Last(accs), x)),
                             << 1 >>, items))
ScanRange(memory, p) == ScanOver(memory, Whole, RangeAt(memory, p))
ScanList(list, type) == ScanOver(list.memory, type, ListContents(list.memory, type, list.out))

IsRange(memory, linear, p) == ~linear /\ memory[p].kind = "range"
SeqMap(memory, linear, type, p) ==
  IF IsRange(memory, linear, p) THEN MapRange(memory, p)
  ELSE MapList(SeqToList(memory, linear, p), type)
SeqFilter(memory, linear, type, p) == FilterList(SeqToList(memory, linear, p), type)
SeqFlatMap(memory, linear, type, p) ==
  IF IsRange(memory, linear, p) THEN FlatMapRange(memory, p)
  ELSE FlatMapList(SeqToList(memory, linear, p), type)
SeqScan(memory, linear, type, p) ==
  IF IsRange(memory, linear, p) THEN ScanRange(memory, p)
  ELSE ScanList(SeqToList(memory, linear, p), type)

(***************************************************************************)
(* enumerate, zip, chunks and windows                                      *)
(***************************************************************************)
(* Records are stored one by one, and then a list of them. *)
Paired(left, right) == [left |-> left, right |-> right]
RecordsList(memory, records) ==
  FreshList(memory \o records, [i \in DOMAIN records |-> Len(memory) + i])

EnumerateOver(memory, items) ==
  RecordsList(memory, [i \in DOMAIN items |-> Paired(i - 1, items[i])])
EnumerateRange(memory, p) == EnumerateOver(memory, RangeAt(memory, p))
EnumerateList(list) == EnumerateOver(list.memory, Items(list.memory, list.out))
SeqEnumerate(memory, linear, p) ==
  IF IsRange(memory, linear, p) THEN EnumerateRange(memory, p)
  ELSE EnumerateList(SeqToList(memory, linear, p))

Shorter(a, b) == IF Len(a) < Len(b) THEN Len(a) ELSE Len(b)
ZipItems(memory, left, right) ==
  RecordsList(memory, [i \in 1 .. Shorter(left, right) |-> Paired(left[i], right[i])])
ZipRangeAndList(list, p) == ZipItems(list.memory, RangeAt(list.memory, p), Items(list.memory, list.out))
ZipLists(memory, left, right) == ZipItems(memory, Items(memory, left), Items(memory, right))

(* The right receiver is in a local that listing a bit set on the left     *)
(* overwrites: it is then read where nothing was written.                  *)
ClobbersRight(memory, linear, p) ==
  ~linear /\ memory[p].kind = "bits" /\ BitsetCount(memory, memory[p].source) > 0
ZipNormalized(left, rightList) == ZipLists(rightList.memory, left.out, rightList.out)
ZipViaNormalization(memory, linear, p, rightLinear, q) ==
  IF ClobbersRight(memory, linear, p) THEN EmptyList(SeqSourceToList(memory, linear, p).memory)
  ELSE LET left == SeqSourceToList(memory, linear, p)
       IN  ZipNormalized(left, SeqSourceToList(left.memory, rightLinear, q))
SeqZip(memory, linear, p, rightLinear, q) ==
  IF IsRange(memory, linear, p) THEN ZipRangeAndList(SeqSourceToList(memory, rightLinear, q), p)
  ELSE ZipViaNormalization(memory, linear, p, rightLinear, q)

(* Without a range on the left, the local of the list made so far is also  *)
(* the one of right items that are pointers or characters.                 *)
ClobbersZip(memory, linear, p, rightType, rightItems) ==
  /\ ~IsRange(memory, linear, p)
  /\ rightType \notin {Whole, Real}
  /\ rightItems # << >>

(* The lists of n items, and a list of these lists. *)
ListsList(memory, lists) ==
  LET Grown(made, items) ==
        LET list == FreshList(made.memory, items)
        IN  Answer(list.memory, Append(made.out, list.out))
      all == FoldLeft(Grown, Answer(memory, << >>), lists)
  IN  FreshList(all.memory, all.out)
ChunkCount(items, n) == (Len(items) + n - 1) \div n
ChunkAt(items, n, k) ==
  SubSeq(items, (k - 1) * n + 1, IF k * n > Len(items) THEN Len(items) ELSE k * n)
ChunksOf(items, n) == [k \in 1 .. ChunkCount(items, n) |-> ChunkAt(items, n, k)]
WindowsOf(items, n) ==
  IF Len(items) < n THEN << >> ELSE [k \in 1 .. Len(items) - n + 1 |-> SubSeq(items, k, k + n - 1)]

ChunksList(memory, p, n) == ListsList(memory, ChunksOf(Items(memory, p), n))
ChunksRange(memory, p, n) == ListsList(memory, ChunksOf(RangeAt(memory, p), n))
WindowsList(memory, p, n) == ListsList(memory, WindowsOf(Items(memory, p), n))
WindowsRange(memory, p, n) == ListsList(memory, WindowsOf(RangeAt(memory, p), n))

(* A list inside a Seq is in the local of the chunk being made: the first  *)
(* chunk reads its own slots, which hold zero, and ends the loop.          *)
OwnChunks(memory, p, n) ==
  ListsList(memory, [k \in 1 .. 1 |-> [i \in 1 .. Len(ChunkAt(Items(memory, p), n, 1)) |-> 0]])
ChunksMaterialized(memory, p, n) ==
  IF memory[p].len = 0 THEN ListsList(memory, << >>) ELSE OwnChunks(memory, p, n)
WindowsMaterialized(memory, p, n) ==
  IF memory[p].len < n THEN ListsList(memory, << >>)
  ELSE ListsList(memory, << [i \in 1 .. n |-> 0] >>)

(* Other kinds than lists and ranges are unreachable code. *)
Chunkable(memory, linear, p) == linear \/ memory[p].kind \in {"list", "range"}
SeqChunks(memory, linear, p, n) ==
  CASE linear -> ChunksList(memory, p, n)
    [] ~linear /\ memory[p].kind = "range" -> ChunksRange(memory, p, n)
    [] OTHER -> ChunksMaterialized(memory, memory[p].source, n)
SeqWindows(memory, linear, p, n) ==
  CASE linear -> WindowsList(memory, p, n)
    [] ~linear /\ memory[p].kind = "range" -> WindowsRange(memory, p, n)
    [] OTHER -> WindowsMaterialized(memory, memory[p].source, n)

(***************************************************************************)
(* Consumers.  Over the characters or the parts of a string they read the  *)
(* string where it is, without flattening it.                              *)
(***************************************************************************)
RawChars(memory, p) == DecodeFrom(memory[memory[p].source].bytes, 0)
RawParts(s, delim) ==
  IF delim.len = 0 THEN << Flat(<< >>, 0) >> \o SplitChars(s.bytes, 0) \o << Flat(<< >>, 0) >>
  ELSE SplitOf(s.bytes, delim.bytes, 0, 0)
RawSplit(memory, p) ==
  LET parts == RawParts(memory[memory[p].source], memory[memory[p].delim])
  IN  [i \in DOMAIN parts |-> DecodeFrom(parts[i].bytes, 0)]
IsRaw(memory, linear, p) ==
  ~linear /\ memory[p].kind \in {"chars", "split"} /\ ~IsFlat(memory, memory[p].source)

(* On a string that is not flat the length has its sign bit set: the loop  *)
(* runs on, over the bytes behind the node, to the end of the memory,      *)
(* unless what it reads there ends it.                                     *)
RawOutcomes(query) ==
  CASE query \in {"any", "contains"} -> {Ok(TRUE), Fails}
    [] query = "all" -> {Ok(FALSE), Fails}
    [] OTHER -> {Fails}

SeqCountRange(memory, p) == RangeLen(LoadRangeBounds(memory, p))
SeqCountChars(memory, p) == memory[memory[p].source].chars
SeqCountEmptyDelim(memory, p) == memory[memory[p].source].chars + 2
SeqCountNonemptyDelim(memory, p) ==
  Len(SplitOf(memory[memory[p].source].bytes, memory[memory[p].delim].bytes, 0, 0))
SeqCountSplit(memory, p) ==
  IF memory[memory[p].delim].len = 0 THEN SeqCountEmptyDelim(memory, p)
  ELSE SeqCountNonemptyDelim(memory, p)
SeqCount(memory, linear, p) ==
  CASE linear -> memory[p].len
    [] ~linear /\ memory[p].kind = "list" -> memory[memory[p].source].len
    [] ~linear /\ memory[p].kind = "range" -> SeqCountRange(memory, p)
    [] ~linear /\ memory[p].kind = "chars" -> SeqCountChars(memory, p)
    [] ~linear /\ memory[p].kind = "split" -> SeqCountSplit(memory, p)
    [] OTHER -> BitsetCount(memory, memory[p].source)

(* The items of a list, and those up to the first one a consumer stops at. *)
ItemsOfBits(memory, p) ==
  LET list == SeqToListBitsetValues(memory, memory[p].source)
  IN  ListContents(list.memory, Whole, list.out)
UpTo(type, items, liked) ==
  LET at == {i \in DOMAIN items : Likes(type, items[i]) = liked}
  IN  IF at = {} THEN items ELSE SubSeq(items, 1, Min(at))

CountLiked(type, items) ==
  Consumed(Len(SelectSeq(items, LAMBDA x : Likes(type, x))), CallsOn("count_by", type, items))
CountByList(memory, type, p) == CountLiked(type, ListContents(memory, type, p))
CountByRange(memory, p) == CountLiked(Whole, RangeAt(memory, p))
CountByChars(memory, p) == CountLiked(Char, RawChars(memory, p))
CountBySplit(memory, p) == CountLiked(Text, RawSplit(memory, p))
SeqCountBy(memory, linear, type, p) ==
  CASE linear -> CountByList(memory, type, p)
    [] ~linear /\ memory[p].kind = "list" -> CountByList(memory, type, memory[p].source)
    [] ~linear /\ memory[p].kind = "range" -> CountByRange(memory, p)
    [] ~linear /\ memory[p].kind = "chars" -> CountByChars(memory, p)
    [] ~linear /\ memory[p].kind = "split" -> CountBySplit(memory, p)
    [] OTHER -> CountLiked(Whole, ItemsOfBits(memory, p))

AnyLiked(type, seen) ==
  Consumed(\E i \in DOMAIN seen : Likes(type, seen[i]), CallsOn("any", type, seen))
AnyList(memory, type, p) == AnyLiked(type, UpTo(type, ListContents(memory, type, p), TRUE))
AnyRange(memory, p) == AnyLiked(Whole, UpTo(Whole, RangeAt(memory, p), TRUE))
AnyChars(memory, p) == AnyLiked(Char, UpTo(Char, RawChars(memory, p), TRUE))

(* any over the parts of a string counts all the liked ones. *)
AnySplit(memory, p) ==
  Consumed(CountBySplit(memory, p).value # 0, CallsOn("any", Text, RawSplit(memory, p)))
SeqAny(memory, linear, type, p) ==
  CASE linear -> AnyList(memory, type, p)
    [] ~linear /\ memory[p].kind = "list" -> AnyList(memory, type, memory[p].source)
    [] ~linear /\ memory[p].kind = "range" -> AnyRange(memory, p)
    [] ~linear /\ memory[p].kind = "chars" -> AnyChars(memory, p)
    [] ~linear /\ memory[p].kind = "split" -> AnySplit(memory, p)
    [] OTHER -> AnyLiked(Whole, UpTo(Whole, ItemsOfBits(memory, p), TRUE))

AllLiked(type, seen) ==
  Consumed(\A i \in DOMAIN seen : Likes(type, seen[i]), CallsOn("all", type, seen))
AllList(memory, type, p) == AllLiked(type, UpTo(type, ListContents(memory, type, p), FALSE))
AllRange(memory, p) == AllLiked(Whole, UpTo(Whole, RangeAt(memory, p), FALSE))
AllChars(memory, p) == AllLiked(Char, UpTo(Char, RawChars(memory, p), FALSE))
AllSplit(memory, p) ==
  Consumed(SeqCountSplit(memory, p) = CountBySplit(memory, p).value,
           CallsOn("all", Text, RawSplit(memory, p)))
SeqAll(memory, linear, type, p) ==
  CASE linear -> AllList(memory, type, p)
    [] ~linear /\ memory[p].kind = "list" -> AllList(memory, type, memory[p].source)
    [] ~linear /\ memory[p].kind = "range" -> AllRange(memory, p)
    [] ~linear /\ memory[p].kind = "chars" -> AllChars(memory, p)
    [] ~linear /\ memory[p].kind = "split" -> AllSplit(memory, p)
    [] OTHER -> AllLiked(Whole, UpTo(Whole, ItemsOfBits(memory, p), FALSE))

FoundIn(type, seen) ==
  Consumed(IF seen # << >> /\ Likes(type, Last(seen)) THEN Some(Last(seen)) ELSE None,
           CallsOn("find", type, seen))
FindList(memory, type, p) == FoundIn(type, UpTo(type, ListContents(memory, type, p), TRUE))
FindRange(memory, p) == FoundIn(Whole, UpTo(Whole, RangeAt(memory, p), TRUE))
FindChars(memory, p) == FoundIn(Char, UpTo(Char, RawChars(memory, p), TRUE))
FindSplit(memory, p) == FoundIn(Text, UpTo(Text, RawSplit(memory, p), TRUE))
SeqFind(memory, linear, type, p) ==
  CASE linear -> FindList(memory, type, p)
    [] ~linear /\ memory[p].kind = "list" -> FindList(memory, type, memory[p].source)
    [] ~linear /\ memory[p].kind = "range" -> FindRange(memory, p)
    [] ~linear /\ memory[p].kind = "chars" -> FindChars(memory, p)
    [] ~linear /\ memory[p].kind = "split" -> FindSplit(memory, p)
    [] OTHER -> FoundIn(Whole, UpTo(Whole, ItemsOfBits(memory, p), TRUE))

ContainsList(memory, type, p, needle) == needle \in ToSet(ListContents(memory, type, p))
ContainsRange(memory, p, needle) == needle \in ToSet(RangeAt(memory, p))
ContainsChars(memory, p, needle) == needle \in ToSet(RawChars(memory, p))
SliceEquals(part, text) == part.len = Len(Encode(text)) /\ part.bytes = Encode(text)
ContainsSplit(memory, p, needle) ==
  LET parts == RawParts(memory[memory[p].source], memory[memory[p].delim])
  IN  \E i \in DOMAIN parts : SliceEquals(parts[i], needle)
SeqContains(memory, linear, type, p, needle) ==
  CASE linear -> ContainsList(memory, type, p, needle)
    [] ~linear /\ memory[p].kind = "list" -> ContainsList(memory, type, memory[p].source, needle)
    [] ~linear /\ memory[p].kind = "range" -> ContainsRange(memory, p, needle)
    [] ~linear /\ memory[p].kind = "chars" -> ContainsChars(memory, p, needle)
    [] ~linear /\ memory[p].kind = "split" -> ContainsSplit(memory, p, needle)
    [] OTHER -> needle \in ToSet(ItemsOfBits(memory, p))

(* fold with an Int accumulator *)
FoldOver(type, items) ==
  Consumed(FoldLeft(LAMBDA acc, x : Accumulate(type, acc, x), 0, items), CallsOn("fold", type, items))
FoldList(memory, type, p) == FoldOver(type, ListContents(memory, type, p))
FoldRange(memory, p) == FoldOver(Whole, RangeAt(memory, p))
FoldChars(memory, p) == FoldOver(Char, RawChars(memory, p))
FoldSplit(memory, p) == FoldOver(Text, RawSplit(memory, p))
SeqFold(memory, linear, type, p) ==
  CASE linear -> FoldList(memory, type, p)
    [] ~linear /\ memory[p].kind = "list" -> FoldList(memory, type, memory[p].source)
    [] ~linear /\ memory[p].kind = "range" -> FoldRange(memory, p)
    [] ~linear /\ memory[p].kind = "chars" -> FoldChars(memory, p)
    [] ~linear /\ memory[p].kind = "split" -> FoldSplit(memory, p)
    [] OTHER -> FoldOver(Whole, ItemsOfBits(memory, p))

(* fold with a String accumulator, from the empty string, that appends a   *)
(* character.  Over characters it is the string itself, or the string made *)
(* of the list.  Over the values of a bit set the accumulator is saved in  *)
(* the local of the Seq (func.rs:22646): what is then read as a bit set    *)
(* is not one.                                                             *)
ConcatChar(memory, acc, made) == StringConcat(made.memory, acc, made.out)
FoldText(start, type, items) ==
  FoldLeft(LAMBDA made, x : ConcatChar(made.memory, made.out,
                                       CharToString(made.memory, Weight(type, x))),
           start, items)
ClobbersFold(memory, linear, p) == ~linear /\ memory[p].kind = "bits"
SeqFoldText(memory, linear, type, p) ==
  CASE type = Char /\ linear -> StringFromCharList(memory, Items(memory, p))
    [] type = Char /\ ~linear /\ memory[p].kind = "list" ->
         StringFromCharList(memory, Items(memory, memory[p].source))
    [] type = Char /\ ~linear /\ memory[p].kind = "chars" -> Answer(memory, memory[p].source)
    [] type # Char /\ linear -> FoldText(EmptyString(memory), type, ListContents(memory, type, p))
    [] type # Char /\ ~linear /\ memory[p].kind = "list" ->
         FoldText(EmptyString(memory), type, ListContents(memory, type, memory[p].source))
    [] type # Char /\ ~linear /\ memory[p].kind = "range" ->
         FoldText(EmptyString(memory), type, RangeAt(memory, p))
    [] OTHER -> FoldText(EmptyString(memory), Text, RawSplit(memory, p))
=============================================================================
