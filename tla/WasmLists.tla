------------------------------ MODULE WasmLists -----------------------------
(***************************************************************************)
(* Lists, deques and bit sets in the memory of a compiled program, and the *)
(* routines on them (crates/codegen/src/wasm/func.rs, list.rs, alloc.rs).  *)
(*                                                                         *)
(* memory is a sequence of cells: a header (length, capacity and where the *)
(* data starts, 0 if there is none) or one slot of a buffer.  A list is    *)
(* the index of its header.  Nothing is ever freed; what was allocated     *)
(* last is at the tip of the heap.                                         *)
(***************************************************************************)
EXTENDS Outcomes, FiniteSets
LOCAL INSTANCE SequencesExt

(* alloc: the next cells, which are zero. *)
AllocCells(memory, n) == memory \o [i \in 1 .. n |-> 0]
Write(memory, at, items) ==
  IF items = << >> THEN memory
  ELSE SubSeq(memory, 1, at - 1) \o items \o SubSeq(memory, at + Len(items), Len(memory))

Header(len, cap, data) == [len |-> len, cap |-> cap, data |-> data]
Items(memory, p) ==
  SubSeq(memory, memory[p].data, memory[p].data + memory[p].len - 1)
Slot(memory, p, i) == memory[memory[p].data + i]

(* A fresh buffer for the items, of their length: none for no items. *)
DataFor(memory, items) == IF items = << >> THEN 0 ELSE Len(memory) + 1
ListDataForLen(memory, items) == Write(AllocCells(memory, Len(items)), Len(memory) + 1, items)

UpdateListHeader(memory, p, len, data) == [memory EXCEPT ![p] = Header(len, len, data)]
UpdateMutableListHeader(memory, p, len, cap, data) ==
  [memory EXCEPT ![p].len = len, ![p].cap = cap, ![p].data = data]

(* The list at p gets a fresh buffer with these items. *)
Refill(memory, p, items) ==
  UpdateListHeader(ListDataForLen(memory, items), p, Len(items), DataFor(memory, items))

EmptyList(memory) == Alloc(memory, Header(0, 0, 0))
FreshList(memory, items) ==
  Answer(Refill(EmptyList(memory).memory, Len(memory) + 1, items), Len(memory) + 1)

(***************************************************************************)
(* Persistent lists and deques                                             *)
(***************************************************************************)
CloneList(memory, p) == FreshList(memory, Items(memory, p))
ReverseList(memory, p) == FreshList(memory, Reverse(Items(memory, p)))
TailList(memory, p) ==
  FreshList(memory, IF memory[p].len = 0 THEN << >> ELSE Tail(Items(memory, p)))
ConcatLists(memory, p, q) == FreshList(memory, Items(memory, p) \o Items(memory, q))

(* The rest of a deque is a header into the buffer of that deque. *)
SharedTailList(memory, p) ==
  LET h == memory[p]
  IN  Alloc(memory, IF h.len <= 1 THEN Header(0, 0, 0)
                    ELSE Header(h.len - 1, h.len - 1, h.data + 1))
SharedPrefixList(memory, p) ==
  LET h == memory[p]
  IN  Alloc(memory, IF h.len <= 1 THEN Header(0, 0, 0) ELSE Header(h.len - 1, h.len - 1, h.data))

ListLikePushFront(memory, p, value) == Refill(memory, p, << value >> \o Items(memory, p))
ListLikePushBack(memory, p, value) == Refill(memory, p, Append(Items(memory, p), value))

PushFrontOf(clone, value) == Answer(ListLikePushFront(clone.memory, clone.out, value), clone.out)
PushBackOf(clone, value) == Answer(ListLikePushBack(clone.memory, clone.out, value), clone.out)
DequePushFrontRoutine(memory, p, value) == PushFrontOf(CloneList(memory, p), value)
\* Mutant: the deque is not copied.
DequePushBackShared(memory, p, value) == Answer(ListLikePushBack(memory, p, value), p)

DequePushBackRoutine(memory, p, value) == PushBackOf(CloneList(memory, p), value)

(***************************************************************************)
(* Questions                                                               *)
(***************************************************************************)
ListGet(memory, p, i) ==
  IF i < 0 \/ i >= memory[p].len THEN None ELSE Some(Slot(memory, p, i))
ListIndex(memory, p, i) ==
  IF i < 0 \/ i >= memory[p].len THEN Fails ELSE Ok(Slot(memory, p, i))
ListHead(memory, p) == IF memory[p].len = 0 THEN None ELSE Some(Slot(memory, p, 0))
ListLast(memory, p) == IF memory[p].len = 0 THEN None ELSE Some(Slot(memory, p, memory[p].len - 1))

(* The order as -1, 0 or 1; a comparator answers as it likes. *)
OrderCompare(a, b) == IF a < b THEN -1 ELSE IF a > b THEN 1 ELSE 0
ComparedBy(by, a, b) == IF by = "own" THEN OrderCompare(a, b) ELSE (a \div 10) - (b \div 10)

(* The lowest index whose item is not below the needle. *)
RECURSIVE LowerBound(_, _, _, _)
LowerBound(items, needle, low, high) ==
  LET mid == low + ((high - low) \div 2)
  IN  CASE low >= high -> low
        [] low < high /\ OrderCompare(items[mid + 1], needle) < 0 ->
             LowerBound(items, needle, mid + 1, high)
        [] OTHER -> LowerBound(items, needle, low, mid)

BinarySearchList(memory, p, needle) ==
  LET items == Items(memory, p)
      low   == LowerBound(items, needle, 0, Len(items))
  IN  IF low < Len(items) /\ OrderCompare(items[low + 1], needle) = 0 THEN low ELSE -(low + 1)

(***************************************************************************)
(* Mutable lists and deques                                                *)
(***************************************************************************)
GrownCapacity(h) == IF h.cap = 0 THEN 1 ELSE IF 2 * h.cap < h.len + 1 THEN h.len + 1 ELSE 2 * h.cap
AtHeapTip(memory, h) == h.data + h.cap = Len(memory) + 1

(* Room for one more item: in the buffer, by growing it where it is if it  *)
(* is at the tip of the heap, else in a larger copy of it.                 *)
WithRoom(memory, p) ==
  LET h   == memory[p]
      cap == GrownCapacity(h)
  IN  CASE h.len < h.cap -> memory
        [] h.len >= h.cap /\ AtHeapTip(memory, h) ->
             [AllocCells(memory, cap - h.cap) EXCEPT ![p].cap = cap]
        [] OTHER -> UpdateMutableListHeader(
                      Write(AllocCells(memory, cap), Len(memory) + 1, Items(memory, p)),
                      p, h.len, cap, Len(memory) + 1)

Append1(memory, p, value) ==
  LET h == memory[p]
  IN  [Write(memory, h.data + h.len, << value >>) EXCEPT ![p].len = h.len + 1]
MutableListPush(memory, p, value) == Append1(WithRoom(memory, p), p, value)

MutableListInsert(memory, p, i, value) ==
  LET items == Items(memory, p)
  IN  Refill(memory, p, SubSeq(items, 1, i) \o << value >> \o SubSeq(items, i + 1, Len(items)))
MutableListExtend(memory, p, q) == Refill(memory, p, Items(memory, p) \o Items(memory, q))
MutableListSet(memory, p, i, value) == Write(memory, memory[p].data + i, << value >>)
MutableListDeleteAt(memory, p, i) ==
  LET items == Items(memory, p)
  IN  Refill(memory, p, SubSeq(items, 1, i) \o SubSeq(items, i + 2, Len(items)))

(* The items behind a slot move one slot down; the buffer stays. *)
RemoveSlotInPlace(memory, p, i) ==
  LET h == memory[p]
  IN  UpdateMutableListHeader(Write(memory, h.data + i, SubSeq(Items(memory, p), i + 2, h.len)),
                              p, h.len - 1, h.cap, h.data)
MutableListRemoveAt(memory, p, i) == Answer(RemoveSlotInPlace(memory, p, i), Slot(memory, p, i))
MutableListPop(memory, p) == [memory EXCEPT ![p].len = @ - 1]
ListLikePopFront(memory, p) ==
  LET h == memory[p]
  IN  UpdateMutableListHeader(Write(memory, h.data, Tail(Items(memory, p))),
                              p, h.len - 1, h.cap, h.data)
ListLikePopBack(memory, p) ==
  UpdateMutableListHeader(memory, p, memory[p].len - 1, memory[p].cap, memory[p].data)

ReverseInPlace(memory, p) == Write(memory, memory[p].data, Reverse(Items(memory, p)))

(* Every item is exchanged with each later one that is below it. *)
Exchange(items, i, j) == [items EXCEPT ![i] = items[j], ![j] = items[i]]
RECURSIVE ExchangeSort(_, _, _, _)
ExchangeSort(by, items, i, j) ==
  CASE i > Len(items) -> items
    [] i <= Len(items) /\ j > Len(items) -> ExchangeSort(by, items, i + 1, i + 2)
    [] OTHER -> ExchangeSort(by, IF ComparedBy(by, items[i], items[j]) > 0
                                 THEN Exchange(items, i, j) ELSE items, i, j + 1)
SortInPlace(memory, p, by) ==
  Write(memory, memory[p].data, ExchangeSort(by, Items(memory, p), 1, 2))
SortOf(clone, by) == Answer(SortInPlace(clone.memory, clone.out, by), clone.out)
ListSortBy(memory, p, by) == SortOf(CloneList(memory, p), by)

(***************************************************************************)
(* Bit sets in the memory of a compiled program: a header (the size in     *)
(* bits, the number of words, where they are) and the words, sets of bits. *)
(***************************************************************************)

Word(memory, p, w) == memory[memory[p].data + w - 1]
BitsData(memory, words) == IF words = 0 THEN 0 ELSE Len(memory) + 2
AllocZeroedBitset(memory, size) ==
  Answer(Append(memory, Header(size, WordsFor(size), BitsData(memory, WordsFor(size))))
           \o [w \in 1 .. WordsFor(size) |-> {}], Len(memory) + 1)
CloneBitset(memory, p) ==
  Answer(Append(memory, Header(memory[p].len, memory[p].cap, BitsData(memory, memory[p].cap)))
           \o [w \in 1 .. memory[p].cap |-> Word(memory, p, w)], Len(memory) + 1)

(* The index is negative or not below the size: a trap. *)
ResolvesIndex(memory, p, i) == i >= 0 /\ i < memory[p].len
BitsetTest(memory, p, i) ==
  IF ResolvesIndex(memory, p, i) THEN Ok(BitOf(i) \in Word(memory, p, WordOf(i))) ELSE Fails

UpdatedWord(change, word, bit) ==
  CASE change = "set" -> word \cup {bit}
    [] change = "reset" -> word \cap ((1 .. WordBits) \ {bit})
    [] OTHER -> IF bit \in word THEN word \ {bit} ELSE word \cup {bit}
BitsetUpdateInPlace(memory, p, change, i) ==
  Write(memory, memory[p].data + WordOf(i) - 1,
        << UpdatedWord(change, Word(memory, p, WordOf(i)), BitOf(i)) >>)
UpdateOf(made, change, i) == Answer(BitsetUpdateInPlace(made.memory, made.out, change, i), made.out)
\* Mutant: the set is changed where it is.
BitsetUpdateShared(memory, p, change, i) == UpdateOf(Answer(memory, p), change, i)

BitsetUpdate(memory, p, change, i) == UpdateOf(CloneBitset(memory, p), change, i)

(* Not masked: neither operand has a bit past the size. *)
CombinedWord(op, a, b) ==
  CASE op = "union" -> a \cup b
    [] op = "intersection" -> a \cap b
    [] op = "difference" -> a \cap ((1 .. WordBits) \ b)
    [] OTHER -> (a \cup b) \ (a \cap b)
BitsetBinaryInPlace(memory, p, q, op) ==
  Write(memory, memory[p].data,
        [w \in 1 .. memory[p].cap |-> CombinedWord(op, Word(memory, p, w), Word(memory, q, w))])
BinaryOf(made, q, op) == Answer(BitsetBinaryInPlace(made.memory, made.out, q, op), made.out)
BitsetBinaryOp(memory, p, q, op) == BinaryOf(CloneBitset(memory, p), q, op)

RECURSIVE PopcountFrom(_, _, _)
PopcountFrom(memory, p, w) ==
  IF w > memory[p].cap THEN 0
  ELSE Cardinality(Word(memory, p, w)) + PopcountFrom(memory, p, w + 1)
BitsetCount(memory, p) == PopcountFrom(memory, p, 1)

RECURSIVE PushBits(_, _, _, _)
PushBits(memory, p, out, i) ==
  IF i >= memory[p].len THEN memory
  ELSE PushBits(IF Value(BitsetTest(memory, p, i)) THEN ListLikePushBack(memory, out, i) ELSE memory,
                p, out, i + 1)
ListBitsInto(made, p) == Answer(PushBits(made.memory, p, made.out, 0), made.out)
SeqToListBitsetValues(memory, p) == ListBitsInto(EmptyList(memory), p)
=============================================================================
