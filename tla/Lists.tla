-------------------------------- MODULE Lists -------------------------------
(***************************************************************************)
(* Programs on lists and deques: a List xs, two Deque variables and two    *)
(* MutableList variables (that may be the same value) and a MutableDeque.  *)
(*                                                                         *)
(* Known to differ: sort_by where different items compare equal (a stable  *)
(* merge sort against exchanges, func.rs:9892), binary_search with several *)
(* matches or on items out of order (func.rs:10008), and update with an    *)
(* updater that changes the list it updates (func.rs:11405).               *)
(***************************************************************************)
EXTENDS Backends, WasmLists
LOCAL INSTANCE SequencesExt

(***************************************************************************)
(* The lists and deques of the interpreter (crates/eval/src/value.rs,      *)
(* intrinsics.rs, interpreter.rs).                                         *)
(*                                                                         *)
(* A List or Deque is a sequence.  A MutableList is stored as a vector, or *)
(* packed in words of WordBits bits when its items are booleans (0 and 1   *)
(* here; Bools says whether the items are).  Indices count from 0.         *)
(***************************************************************************)

(***************************************************************************)
(* BoolListValue                                                           *)
(***************************************************************************)
Zeros == [bit \in 1 .. WordBits |-> 0]
NoBools == [rep |-> "bool", len |-> 0, words |-> << >>]

BoolGet(list, i) == list.words[WordOf(i)][BitOf(i)]
BoolSet(list, i, value) == [list EXCEPT !.words[WordOf(i)][BitOf(i)] = value]

(* A push only ever sets a bit: it relies on the bits past the end being 0. *)
BoolPush(list, value) ==
  LET roomy == IF list.len % WordBits = 0 THEN [list EXCEPT !.words = Append(@, Zeros)] ELSE list
  IN  [(IF value = 1 THEN BoolSet(roomy, list.len, 1) ELSE roomy) EXCEPT !.len = @ + 1]

BoolPop(list) ==
  LET cleared == [BoolSet(list, list.len - 1, 0) EXCEPT !.len = @ - 1]
  IN  IF cleared.len % WordBits = 0 THEN [cleared EXCEPT !.words = Front(@)] ELSE cleared

BoolToValues(list) == [i \in 1 .. list.len |-> BoolGet(list, i - 1)]
BoolFromValues(items) == FoldLeft(BoolPush, NoBools, items)

(***************************************************************************)
(* MutableListStorage and MutableListValue                                 *)
(***************************************************************************)
Generic(items) == [rep |-> "generic", items |-> items]

FromItems(bools, items) ==
  IF bools \/ items = << >> THEN BoolFromValues(items) ELSE Generic(items)

Snapshot(list) == IF list.rep = "bool" THEN BoolToValues(list) ELSE list.items

ListPush(bools, list, value) ==
  IF list.rep = "bool" /\ bools THEN BoolPush(list, value)
  ELSE Generic(Append(Snapshot(list), value))

ListInsert(list, i, value) == Generic(InsertAt(Snapshot(list), i + 1, value))

ListPop(list) == IF list.rep = "bool" THEN BoolPop(list) ELSE Generic(Front(list.items))

ListExtend(bools, list, values) ==
  CASE values = << >> -> list
    [] values # << >> /\ list.rep = "bool" /\ bools -> FoldLeft(BoolPush, list, values)
    [] OTHER -> Generic(Snapshot(list) \o values)

ListSet(bools, list, i, value) ==
  IF list.rep = "bool" /\ bools THEN BoolSet(list, i, value)
  ELSE Generic(ReplaceAt(Snapshot(list), i + 1, value))

ListDeleteAt(list, i) == Generic(RemoveAt(Snapshot(list), i + 1))
ListRemoveAt(list, i) == Answer(ListDeleteAt(list, i), Snapshot(list)[i + 1])

ListReplaceAll(bools, items) == FromItems(bools, items)
ListReverseInPlace(bools, list) == ListReplaceAll(bools, Reverse(Snapshot(list)))

(***************************************************************************)
(* MutableDequeValue: a VecDeque                                           *)
(***************************************************************************)
DequeStorage(items) == [rep |-> "deque", items |-> items]
DequePushFront(deque, value) == DequeStorage(<< value >> \o deque.items)
DequePushBack(deque, value) == DequeStorage(Append(deque.items, value))
DequePopFront(deque) == DequeStorage(Tail(deque.items))
DequePopBack(deque) == DequeStorage(Front(deque.items))

(***************************************************************************)
(* Intrinsics                                                              *)
(***************************************************************************)
InRange(items, i) == i >= 0 /\ i < Len(items)
ItemAt(items, i) == IF InRange(items, i) THEN Some(items[i + 1]) ELSE None
FirstItem(items) == ItemAt(items, 0)
LastItem(items) == ItemAt(items, Len(items) - 1)
Rest(items) == IF items = << >> THEN << >> ELSE Tail(items)

(* The order of the elements: their own (sort), or a comparator that only  *)
(* looks at the tens (sort_by), under which different elements are equal.  *)
Orders == {"own", "tens"}
Key(by, value) == IF by = "own" THEN value ELSE value \div 10
Compared(by, a, b) == Key(by, a) - Key(by, b)

RECURSIVE MergeSortedRuns(_, _, _)
MergeSortedRuns(by, left, right) ==
  CASE left = << >> -> right
    [] left # << >> /\ right = << >> -> left
    [] OTHER -> IF Compared(by, Head(left), Head(right)) > 0
                THEN << Head(right) >> \o MergeSortedRuns(by, left, Tail(right))
                ELSE << Head(left) >> \o MergeSortedRuns(by, Tail(left), right)

RECURSIVE StableMergeSortBy(_, _)
StableMergeSortBy(by, items) ==
  LET mid == Len(items) \div 2
  IN  IF Len(items) <= 1 THEN items
      ELSE MergeSortedRuns(by, StableMergeSortBy(by, SubSeq(items, 1, mid)),
                               StableMergeSortBy(by, SubSeq(items, mid + 1, Len(items))))

(* The first probe that meets the needle; else where it would go. *)
RECURSIVE BinarySearch(_, _, _, _)
BinarySearch(items, needle, lo, hi) ==
  LET mid   == lo + ((hi - lo) \div 2)
      order == Compared("own", items[mid + 1], needle)
  IN  CASE lo >= hi -> -lo - 1
        [] lo < hi /\ order < 0 -> BinarySearch(items, needle, mid + 1, hi)
        [] lo < hi /\ order > 0 -> BinarySearch(items, needle, lo, mid)
        [] OTHER -> mid

(***************************************************************************)
(* The programs                                                            *)
(***************************************************************************)
CONSTANTS
  Elements,      \* the items a program of Int lists uses
  Indices,       \* the indices a program uses
  StartItems,    \* the items a program's lists start with
  MaxLen         \* bound: the length of a list

MutableLists == {"list", "alias"}
Bools == surface = "bool lists"
Values == IF Bools THEN {0, 1} ELSE Elements

(* The program made its lists and deques of the same items. *)
ListsFrom(items, xs, deque, list, mdeque) ==
  /\ refs = [xs |-> items, deque |-> items, kept |-> items, list |-> 1, alias |-> 1, mdeque |-> 2]
  /\ objects = << FromItems(Bools, items), DequeStorage(items) >>
  /\ memory = mdeque.memory
  /\ pointers = [xs |-> xs.out, deque |-> deque.out, kept |-> deque.out, list |-> list.out,
                 alias |-> list.out, mdeque |-> mdeque.out]
ListsInit ==
  /\ \E part \in {"lists", "bool lists"} : Starting(part)
  /\ \E items \in StartItems :
       LET xs     == FreshList(<< >>, items)
           deque  == FreshList(xs.memory, items)
           list   == FreshList(deque.memory, items)
       IN  ListsFrom(items, xs, deque, list, FreshList(list.memory, items))

Contents(v) == IF Object(v).rep = "deque" THEN Object(v).items ELSE Snapshot(Object(v))
Short(items) == Len(items) < MaxLen

(***************************************************************************)
(* List                                                                    *)
(***************************************************************************)
Tailed == Store("xs", Rest(refs.xs), TailList(memory, pointers.xs))
Reversed == Store("xs", Reverse(refs.xs), ReverseList(memory, pointers.xs))
Concatenated ==
  /\ 2 * Len(refs.xs) <= MaxLen
  /\ Store("xs", refs.xs \o refs.xs, ConcatLists(memory, pointers.xs, pointers.xs))

Ties(by, items) == \E a, b \in Range(items) : a # b /\ Compared(by, a, b) = 0

(* The sorted list, and its items. *)
Sorted(by) ==
  LET made == ListSortBy(memory, pointers.xs, by)
  IN  /\ Running
      /\ refs' = [refs EXCEPT !.xs = StableMergeSortBy(by, refs.xs)]
      /\ pointers' = [pointers EXCEPT !.xs = made.out]
      /\ memory' = made.memory
      /\ answer' = Reply("sort", Ties(by, refs.xs), Ok(StableMergeSortBy(by, refs.xs)),
                         {Ok(Items(made.memory, made.out))})
      /\ UNCHANGED objects

OutOfOrder(items) ==
  \E i \in 1 .. Len(items) - 1 : Compared("own", items[i], items[i + 1]) >= 0
Searched(needle) ==
  Ask("binary_search", OutOfOrder(refs.xs),
      Ok(BinarySearch(refs.xs, needle, 0, Len(refs.xs))),
      {Ok(BinarySearchList(memory, pointers.xs, needle))}, memory)

Got(v, items, i) ==
  Ask("get", FALSE, Ok(ItemAt(items, i)), {Ok(ListGet(memory, pointers[v], i))}, memory)
Indexed(v, items, i) ==
  Ask("index", FALSE, IF InRange(items, i) THEN Ok(items[i + 1]) ELSE Fails,
      {ListIndex(memory, pointers[v], i)}, memory)
Ends(v, items) ==
  Ask("ends", FALSE, Ok(<< FirstItem(items), LastItem(items), Len(items) >>),
      {Ok(<< ListHead(memory, pointers[v]), ListLast(memory, pointers[v]),
             memory[pointers[v]].len >>)}, memory)

(***************************************************************************)
(* Deque                                                                   *)
(***************************************************************************)
PushedFront(value) ==
  /\ Short(refs.deque)
  /\ Store("deque", << value >> \o refs.deque, DequePushFrontRoutine(memory, pointers.deque, value))
PushedBack(value) ==
  /\ Short(refs.deque)
  /\ Store("deque", Append(refs.deque, value), DequePushBackRoutine(memory, pointers.deque, value))

(* Some { value, rest }, and the program goes on with the rest. *)
PoppedDeque(rest, value, made, raw) ==
  /\ Running
  /\ refs.deque # << >>
  /\ refs' = [refs EXCEPT !.deque = rest]
  /\ pointers' = [pointers EXCEPT !.deque = made.out]
  /\ memory' = made.memory
  /\ answer' = Reply("pop", FALSE, Ok(value), {Ok(raw)})
  /\ UNCHANGED objects
PoppedFront ==
  PoppedDeque(Tail(refs.deque), Head(refs.deque), SharedTailList(memory, pointers.deque),
              Slot(memory, pointers.deque, 0))
PoppedBack ==
  PoppedDeque(Front(refs.deque), Last(refs.deque), SharedPrefixList(memory, pointers.deque),
              Slot(memory, pointers.deque, Len(refs.deque) - 1))

(***************************************************************************)
(* MutableList                                                             *)
(***************************************************************************)
New(v) == StoreObject(v, FromItems(Bools, << >>), EmptyList(memory))
FromList(v) == StoreObject(v, FromItems(Bools, refs.xs), CloneList(memory, pointers.xs))
ToList(v) == Store("xs", Snapshot(Object(v)), CloneList(memory, pointers[v]))

Pushed(v, value) ==
  /\ Short(Contents(v))
  /\ Edit(v, ListPush(Bools, Object(v), value), MutableListPush(memory, pointers[v], value))
Inserted(v, i, value) ==
  IF i < 0 \/ i > Len(Contents(v)) THEN Refused("insert")
  ELSE /\ Short(Contents(v))
       /\ Edit(v, ListInsert(Object(v), i, value), MutableListInsert(memory, pointers[v], i, value))
Extended(v) ==
  /\ Len(Contents(v)) + Len(refs.xs) <= MaxLen
  /\ Edit(v, ListExtend(Bools, Object(v), refs.xs),
          MutableListExtend(memory, pointers[v], pointers.xs))
SetItem(v, i, value) ==
  IF ~InRange(Contents(v), i) THEN Refused("set")
  ELSE Edit(v, ListSet(Bools, Object(v), i, value), MutableListSet(memory, pointers[v], i, value))
Deleted(v, i) ==
  IF ~InRange(Contents(v), i) THEN Refused("delete_at")
  ELSE Edit(v, ListDeleteAt(Object(v), i), MutableListDeleteAt(memory, pointers[v], i))
Removed(v, i) ==
  IF ~InRange(Contents(v), i) THEN Refused("remove_at")
  ELSE Change("remove_at", FALSE, v, ListRemoveAt(Object(v), i).memory,
              Ok(ListRemoveAt(Object(v), i).out),
              {Ok(MutableListRemoveAt(memory, pointers[v], i).out)},
              MutableListRemoveAt(memory, pointers[v], i).memory)
Popped(v) ==
  IF Contents(v) = << >> THEN Ask("pop", FALSE, Ok(None), {Ok(ListLast(memory, pointers[v]))}, memory)
  ELSE Change("pop", FALSE, v, ListPop(Object(v)), Ok(LastItem(Contents(v))),
              {Ok(ListLast(memory, pointers[v]))}, MutableListPop(memory, pointers[v]))
ReversedInPlace(v) ==
  Edit(v, ListReverseInPlace(Bools, Object(v)), ReverseInPlace(memory, pointers[v]))
SortedInPlace(v, by) ==
  Change("sort", Ties(by, Contents(v)), v,
         ListReplaceAll(Bools, StableMergeSortBy(by, Contents(v))),
         Ok(StableMergeSortBy(by, Contents(v))),
         {Ok(Items(SortInPlace(memory, pointers[v], by), pointers[v]))},
         SortInPlace(memory, pointers[v], by))

(***************************************************************************)
(* update: the updater gets the item and returns another; before that it   *)
(* may push to or pop from the very list.  The interpreter then sets the   *)
(* item by its index; the compiled program stores through the address it   *)
(* computed before the call.                                               *)
(***************************************************************************)
Updaters == {"pure", "pushes", "pops"}
Updated(value) == IF Bools THEN 1 - value ELSE value + 1

ObjectAfter(object, updater) ==
  CASE updater = "pure" -> object
    [] updater = "pushes" -> ListPush(Bools, object, 0)
    [] OTHER -> ListPop(object)
MemoryAfter(p, updater) ==
  CASE updater = "pure" -> memory
    [] updater = "pushes" -> MutableListPush(memory, p, 0)
    [] OTHER -> MutableListPop(memory, p)

(* Vec's index, or the word of the bit: a panic if it is out of range. *)
SetFails(object, i) ==
  IF object.rep = "bool" THEN WordOf(i) > Len(object.words) ELSE i >= Len(object.items)

UpdatedAt(v, i, updater, object, left) ==
  LET item  == Updated(Contents(v)[i + 1])
      after == ListSet(Bools, object, i, item)
      wrote == Write(left, memory[pointers[v]].data + i, << item >>)
  IN  IF SetFails(object, i) THEN Ask("update", TRUE, Fails, {Ok(Items(wrote, pointers[v]))}, wrote)
      ELSE Change("update", updater # "pure", v, after, Ok(Snapshot(after)),
                  {Ok(Items(wrote, pointers[v]))}, wrote)
UpdateItem(v, i, updater) ==
  /\ Short(Contents(v))
  /\ IF ~InRange(Contents(v), i) THEN Refused("update")
     ELSE UpdatedAt(v, i, updater, ObjectAfter(Object(v), updater), MemoryAfter(pointers[v], updater))

(***************************************************************************)
(* MutableDeque                                                            *)
(***************************************************************************)
FromDeque ==
  StoreObject("mdeque", DequeStorage(refs.deque), CloneList(memory, pointers.deque))
ToDeque == Store("deque", Contents("mdeque"), CloneList(memory, pointers.mdeque))
MutablePushedFront(value) ==
  /\ Short(Contents("mdeque"))
  /\ Edit("mdeque", DequePushFront(Object("mdeque"), value),
          ListLikePushFront(memory, pointers.mdeque, value))
MutablePushedBack(value) ==
  /\ Short(Contents("mdeque"))
  /\ Edit("mdeque", DequePushBack(Object("mdeque"), value),
          ListLikePushBack(memory, pointers.mdeque, value))
MutablePoppedFront ==
  /\ Contents("mdeque") # << >>
  /\ Change("pop", FALSE, "mdeque", DequePopFront(Object("mdeque")), Ok(FirstItem(Contents("mdeque"))),
            {Ok(ListHead(memory, pointers.mdeque))}, ListLikePopFront(memory, pointers.mdeque))
MutablePoppedBack ==
  /\ Contents("mdeque") # << >>
  /\ Change("pop", FALSE, "mdeque", DequePopBack(Object("mdeque")), Ok(LastItem(Contents("mdeque"))),
            {Ok(ListLast(memory, pointers.mdeque))}, ListLikePopBack(memory, pointers.mdeque))

ListsNext ==
  /\ surface \in {"lists", "bool lists"}
  /\ \/ Tailed \/ Reversed \/ Concatenated
     \/ \E by \in Orders : Sorted(by)
     \/ \E needle \in Values : Searched(needle)
     \/ \E i \in Indices : Got("xs", refs.xs, i) \/ Indexed("list", Contents("list"), i)
     \/ Ends("xs", refs.xs) \/ Ends("list", Contents("list"))
     \/ \E value \in Values : PushedFront(value) \/ PushedBack(value)
     \/ PoppedFront \/ PoppedBack
     \/ \E v \in MutableLists :
          \/ New(v) \/ FromList(v) \/ ToList(v) \/ Popped(v) \/ ReversedInPlace(v) \/ Extended(v)
          \/ \E value \in Values : Pushed(v, value)
          \/ \E i \in Indices : Deleted(v, i) \/ Removed(v, i)
          \/ \E i \in Indices, value \in Values : Inserted(v, i, value) \/ SetItem(v, i, value)
          \/ \E by \in Orders : SortedInPlace(v, by)
          \/ \E i \in Indices, updater \in Updaters : UpdateItem(v, i, updater)
     \/ Bind("alias", "list") \/ Bind("kept", "deque")
     \/ FromDeque \/ ToDeque \/ MutablePoppedFront \/ MutablePoppedBack
     \/ \E value \in Values : MutablePushedFront(value) \/ MutablePushedBack(value)

-----------------------------------------------------------------------------
(* Whatever is pushed, popped, inserted, sorted or aliased, and whichever  *)
(* buffers are shared or grown in place, every variable has the same items *)
(* in both: a persistent value never changes, and an alias sees every      *)
(* change (func.rs:10732, 12580; list.rs:20; value.rs:2073).               *)
ListsHoldItems ==
  (surface \in {"lists", "bool lists"} /\ ~answer.known) =>
    /\ Items(memory, pointers.xs) = refs.xs
    /\ \A v \in {"deque", "kept"} : Items(memory, pointers[v]) = refs[v]
    /\ \A v \in MutableLists \cup {"mdeque"} : Items(memory, pointers[v]) = Contents(v)
=============================================================================
