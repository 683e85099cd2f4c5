------------------------------- MODULE Tables -------------------------------
(***************************************************************************)
(* Programs on a MutableMap or MutableSet (table) and a Map or Set         *)
(* (frozen).  On the surface "unordered maps" nothing in the program can   *)
(* see the order of the map, and the compiled program does not keep it.    *)
(*                                                                         *)
(* Known to differ: an insertion when tombstones fill the index, which     *)
(* never ends (func.rs:19754); a MutableSet of other values than Int after *)
(* a removal, which leaves its index as it was (func.rs:8473); and         *)
(* get_or_insert_with whose function inserts the key (func.rs:7991).       *)
(***************************************************************************)
EXTENDS Backends, WasmLists, BucketTable, FiniteSets
LOCAL INSTANCE SequencesExt
LOCAL INSTANCE FiniteSetsExt

(***************************************************************************)
(* Maps and sets of the interpreter.  A Map or MutableMap is its entries   *)
(* in insertion order, which the tables of Maps implement.  A MutableSet   *)
(* of primitive values is PrimitiveMutableSetValue (value.rs): entries in  *)
(* insertion order, dead or alive, and slots, probed linearly, that point  *)
(* to them.  A Set is an IndexSet.                                         *)
(***************************************************************************)

CONSTANT
  MinSlots    \* the slots of the smallest table of a set: 8 in the code

(***************************************************************************)
(* Maps                                                                    *)
(***************************************************************************)
Entry(k, v) == [key |-> k, value |-> v]
EntriesOf(entries, k) == SelectSeq(entries, LAMBDA e : e.key = k)
MapContains(entries, k) == EntriesOf(entries, k) # << >>
MapGet(entries, k) ==
  IF MapContains(entries, k) THEN Some(EntriesOf(entries, k)[1].value) ELSE None
MapIndex(entries, k) ==
  IF MapContains(entries, k) THEN Ok(EntriesOf(entries, k)[1].value) ELSE Fails
MapPut(entries, k, v) ==
  IF MapContains(entries, k)
  THEN [i \in DOMAIN entries |-> IF entries[i].key = k THEN Entry(k, v) ELSE entries[i]]
  ELSE Append(entries, Entry(k, v))
MapWithout(entries, k) == SelectSeq(entries, LAMBDA e : e.key # k)
MapKeysOf(entries) == [i \in DOMAIN entries |-> entries[i].key]
MapValuesOf(entries) == [i \in DOMAIN entries |-> entries[i].value]

(* get_or_insert_with: made are the entries after the call of make, which  *)
(* returns value.  The key is looked up again.                             *)
GetOrInsertWith(entries, k, made, value) ==
  IF MapContains(entries, k) THEN Answer(entries, MapGet(entries, k)[1])
  ELSE IF MapContains(made, k) THEN Answer(made, MapGet(made, k)[1])
  ELSE Answer(MapPut(made, k, value), value)

(***************************************************************************)
(* PrimitiveMutableSetValue                                                *)
(***************************************************************************)
RECURSIVE PowerOfTwo(_, _)
PowerOfTwo(n, p) == IF p >= n THEN p ELSE PowerOfTwo(n, 2 * p)
SetSlotCount(live) == IF live = 0 THEN 0 ELSE PowerOfTwo(Max({(10 * live + 6) \div 7, MinSlots}), 1)

SlotsOf(s) == Len(s.slots)
Probe(n, k, d) == ((HashOf[k] + d) % n) + 1

SetWithCapacity(hint) ==
  [entries |-> << >>, slots |-> [i \in 1 .. SetSlotCount(hint) |-> 0], live |-> 0, tombs |-> 0]

SetMatches(s, e, k) == e > 0 /\ s.entries[e].live /\ s.entries[e].key = k
SetStop(s, k) ==
  Min({d \in 0 .. SlotsOf(s) - 1 :
         LET e == s.slots[Probe(SlotsOf(s), k, d)] IN e = 0 \/ SetMatches(s, e, k)})

(* lookup: the slot of k, or 0. *)
SetLookup(s, k) ==
  IF SlotsOf(s) = 0 THEN 0
  ELSE LET at == Probe(SlotsOf(s), k, SetStop(s, k)) IN IF s.slots[at] = 0 THEN 0 ELSE at
SetHas(s, k) == SetLookup(s, k) # 0

(* The slot that ends the lookup of an absent key, or the first tombstone before it. *)
SetSlotForInsert(s, k) ==
  LET stop  == SetStop(s, k)
      tombs == {d \in 0 .. stop : s.slots[Probe(SlotsOf(s), k, d)] = -1}
  IN  Probe(SlotsOf(s), k, IF tombs = {} THEN stop ELSE Min(tombs))

LiveEntries(s) == SelectSeq(s.entries, LAMBDA e : e.live)
SetSnapshot(s) == [i \in DOMAIN LiveEntries(s) |-> LiveEntries(s)[i].key]

RECURSIVE PlaceFrom(_, _, _)
PlaceFrom(slots, live, i) ==
  IF i > Len(live) THEN slots
  ELSE LET n == Len(slots)
           d == Min({c \in 0 .. n - 1 : slots[Probe(n, live[i].key, c)] = 0})
       IN  PlaceFrom([slots EXCEPT ![Probe(n, live[i].key, d)] = i], live, i + 1)
SetRehash(s, count) ==
  LET live == LiveEntries(s)
      n    == Max({count, SetSlotCount(Len(live)), IF live = << >> THEN 0 ELSE MinSlots})
  IN  [entries |-> live, slots |-> PlaceFrom([i \in 1 .. n |-> 0], live, 1),
       live |-> Len(live), tombs |-> 0]

SetShed(s) == IF s.tombs > s.live THEN SetRehash(s, SlotsOf(s)) ELSE s
SetGrown(s) ==
  IF (s.live + s.tombs) * 10 >= SlotsOf(s) * 7
  THEN SetRehash(s, Max({2 * SlotsOf(s), SetSlotCount(s.live + 1)})) ELSE s
EnsureReadyForInsert(s) ==
  IF SlotsOf(s) = 0 THEN SetRehash(s, SetSlotCount(1)) ELSE SetGrown(SetShed(s))

InsertReady(s, k) ==
  IF SetHas(s, k) THEN s
  ELSE LET at == SetSlotForInsert(s, k)
       IN  [entries |-> Append(s.entries, [key |-> k, live |-> TRUE]),
            slots   |-> [s.slots EXCEPT ![at] = Len(s.entries) + 1],
            live    |-> s.live + 1,
            tombs   |-> IF s.slots[at] = -1 THEN s.tombs - 1 ELSE s.tombs]
SetInsert(s, k) == InsertReady(EnsureReadyForInsert(s), k)

SetRemove(s, k) ==
  IF ~SetHas(s, k) THEN s
  ELSE LET at == SetLookup(s, k)
       IN  SetShed([s EXCEPT !.entries[s.slots[at]].live = FALSE, !.slots[at] = -1,
                             !.live = @ - 1, !.tombs = @ + 1])

(* from_indexset: one insertion after the other. *)
RECURSIVE SetFromKeys(_, _)
SetFromKeys(s, keys) ==
  IF keys = << >> THEN s ELSE SetFromKeys(SetInsert(s, Head(keys)), Tail(keys))
SetFromIndexSet(keys) == SetFromKeys(SetWithCapacity(Len(keys)), keys)

(***************************************************************************)
(* Maps and sets in the memory of a compiled program, and the routines on  *)
(* them (crates/codegen/src/wasm/func.rs).                                 *)
(*                                                                         *)
(* A MutableMap or MutableSet is a list of slots in insertion order with   *)
(* an index beside it: cells, probed linearly, that are 0 (empty), -1 (a   *)
(* tombstone) or one more than the position of a slot.  A Set is a list,   *)
(* a Map a list of pointers to entries.                                    *)
(***************************************************************************)

CONSTANT
  MinIndex    \* the capacity of the smallest index: 8 in the code

TableHeader(len, cap, data, index, icap) ==
  [len |-> len, cap |-> cap, data |-> data, index |-> index, icap |-> icap]
EmptyTable(mem) == Alloc(mem, TableHeader(0, 0, 0, 0, 0))
StoreIndexMetadata(mem, p, index, icap) == [mem EXCEPT ![p].index = index, ![p].icap = icap]

KeyAt(mem, p, i) == Slot(mem, p, i).key
TableKeys(mem, p) == [i \in 1 .. mem[p].len |-> KeyAt(mem, p, i - 1)]
TableValues(mem, p) == [i \in 1 .. mem[p].len |-> Slot(mem, p, i - 1).value]

(***************************************************************************)
(* The index                                                               *)
(***************************************************************************)
IndexCapacity(cap) == IF cap < MinIndex \div 2 THEN MinIndex ELSE 2 * cap
AllocIndex(mem, p, cap) ==
  StoreIndexMetadata(AllocCells(mem, IndexCapacity(cap)), p, Len(mem) + 1, IndexCapacity(cap))
ZeroIndex(mem, p) == Write(mem, mem[p].index, [i \in 1 .. mem[p].icap |-> 0])

HasIndex(mem, p) == mem[p].index # 0 /\ mem[p].icap # 0
Bucket(mem, p, k) == HashOf[k] % mem[p].icap
IndexCell(mem, p, k, d) == mem[p].index + ((Bucket(mem, p, k) + d) % mem[p].icap)
Probes(mem, p) == 0 .. mem[p].icap - 1
EmptyCells(mem, p, k) == {d \in Probes(mem, p) : mem[IndexCell(mem, p, k, d)] = 0}

(* The first tombstone before the first empty cell, or that cell.  Without *)
(* an empty cell the loop never ends.                                      *)
InsertIndex(mem, p, k, i) ==
  LET stop == Min(EmptyCells(mem, p, k))
      free == {d \in 0 .. stop : mem[IndexCell(mem, p, k, d)] \in {0, -1}}
  IN  [mem EXCEPT ![IndexCell(mem, p, k, Min(free))] = i + 1]

RECURSIVE IndexFrom(_, _, _)
IndexFrom(mem, p, i) ==
  IF i = mem[p].len THEN mem
  ELSE IndexFrom(InsertIndex(mem, p, KeyAt(mem, p, i), i), p, i + 1)

NeedsIndex(h, len) == h.index = 0 \/ h.icap <= len
RebuildIndex(mem, p) ==
  LET h == mem[p]
  IN  CASE h.len = 0 /\ h.index = 0 -> mem
        [] h.len = 0 /\ h.index # 0 -> ZeroIndex(mem, p)
        [] h.len > 0 /\ NeedsIndex(h, h.len) -> IndexFrom(AllocIndex(mem, p, h.cap), p, 0)
        [] OTHER -> IndexFrom(ZeroIndex(mem, p), p, 0)

(* Where the key is found, or -1: by the index if there is one, up to an   *)
(* empty cell and past tombstones, else one slot after the other.          *)
FoundAt(mem, p, k, d) ==
  LET e == mem[IndexCell(mem, p, k, d)] IN e > 0 /\ KeyAt(mem, p, e - 1) = k
FindIndexed(mem, p, k) ==
  LET stops == EmptyCells(mem, p, k)
      last  == IF stops = {} THEN mem[p].icap ELSE Min(stops)
      hits  == {d \in 0 .. last - 1 : FoundAt(mem, p, k, d)}
  IN  IF hits = {} THEN -1 ELSE mem[IndexCell(mem, p, k, Min(hits))] - 1
FindLinear(mem, p, k) ==
  LET hits == {i \in 0 .. mem[p].len - 1 : KeyAt(mem, p, i) = k}
  IN  IF hits = {} THEN -1 ELSE Min(hits)
FindEntry(mem, p, k) ==
  IF HasIndex(mem, p) THEN FindIndexed(mem, p, k) ELSE FindLinear(mem, p, k)

(***************************************************************************)
(* MutableMap                                                              *)
(***************************************************************************)
WithCapacityTable(mem, cap) ==
  LET made == EmptyTable(mem)
  IN  IF cap = 0 THEN made
      ELSE Answer(AllocIndex([AllocCells(made.memory, cap) EXCEPT
                                ![made.out].cap = cap, ![made.out].data = made.out + 1],
                             made.out, cap), made.out)

(* A new entry: the index is rebuilt if it is missing or full or if the    *)
(* buffer was, else the entry is added to it.                              *)
Rebuilds(h) == NeedsIndex(h, h.len + 1) \/ h.len >= h.cap
AppendEntry(mem, p, k, v) ==
  LET added == Append1(WithRoom(mem, p), p, [key |-> k, value |-> v])
  IN  IF Rebuilds(mem[p]) THEN RebuildIndex(added, p)
      ELSE InsertIndex(added, p, k, mem[p].len)
AppendEnds(mem, p, k) == Rebuilds(mem[p]) \/ EmptyCells(mem, p, k) # {}

SetValueAt(mem, p, i, v) == [mem EXCEPT ![mem[p].data + i].value = v]
PutAt(mem, p, i, k, v) ==
  IF i >= 0 THEN SetValueAt(mem, p, i, v) ELSE AppendEntry(mem, p, k, v)
MutableMapInsert(mem, p, k, v) == PutAt(mem, p, FindEntry(mem, p, k), k, v)
InsertEnds(mem, p, k) == FindEntry(mem, p, k) >= 0 \/ AppendEnds(mem, p, k)

TableGet(mem, p, k) ==
  LET i == FindEntry(mem, p, k) IN IF i >= 0 THEN Some(Slot(mem, p, i).value) ELSE None
TableIndex(mem, p, k) ==
  LET i == FindEntry(mem, p, k) IN IF i >= 0 THEN Ok(Slot(mem, p, i).value) ELSE Fails
TableContains(mem, p, k) == FindEntry(mem, p, k) >= 0

(* get_or_insert_with: made is the memory after the call of make, which    *)
(* returns value.  The entry is added without another look.                *)
MutableMapGetOrInsertWith(mem, p, k, made, value) ==
  LET i == FindEntry(mem, p, k)
  IN  IF i >= 0 THEN Answer(mem, Slot(mem, p, i).value)
      ELSE Answer(AppendEntry(made, p, k, value), value)

(* get(k).unwrap_or(fallback) and insert(k, get(k).unwrap_or(fallback) op  *)
(* delta), each with one search.                                           *)
FusedUnwrapOr(mem, p, k, fallback) ==
  LET i == FindEntry(mem, p, k) IN IF i >= 0 THEN Slot(mem, p, i).value ELSE fallback
FusedUpsert(mem, p, k, fallback, delta) ==
  PutAt(mem, p, FindEntry(mem, p, k), k, FusedUnwrapOr(mem, p, k, fallback) + delta)

(* The slots behind the removed one move down; so do their positions in    *)
(* the index.                                                              *)
RemoveMapSlotInPlace(mem, p, i) == RemoveSlotInPlace(mem, p, i)
\* Mutant: the cell of the removed entry is emptied, not marked.
AdjustedCellEmptied(cell, i) == IF cell = i + 1 THEN 0 ELSE IF cell > i + 1 THEN cell - 1 ELSE cell

AdjustedCell(cell, i) == IF cell = i + 1 THEN -1 ELSE IF cell > i + 1 THEN cell - 1 ELSE cell
AdjustIndexAfterRemove(mem, p, i) ==
  LET h == mem[p]
  IN  IF ~HasIndex(mem, p) THEN mem
      ELSE Write(mem, h.index, [c \in 1 .. h.icap |-> AdjustedCell(mem[h.index + c - 1], i)])

(* The cell of a key that points to an entry. *)
IndexEntryCells(mem, p, k, e) ==
  LET stops == EmptyCells(mem, p, k)
      last  == IF stops = {} THEN mem[p].icap ELSE Min(stops)
  IN  {IndexCell(mem, p, k, d) : d \in {c \in 0 .. last - 1 : mem[IndexCell(mem, p, k, c)] = e}}
Redirect(mem, cells, to) ==
  IF cells = {} THEN mem ELSE [mem EXCEPT ![CHOOSE c \in cells : TRUE] = to]

(* If nothing can see the order, the last slot takes the place of the removed one. *)
RemoveUnordered(mem, p, k, i) ==
  LET h     == mem[p]
      last  == h.len - 1
      moved == KeyAt(mem, p, last)
      freed == Redirect(mem, IndexEntryCells(mem, p, k, i + 1), -1)
      swap  == Write(freed, h.data + i, << Slot(mem, p, last) >>)
      final == IF i = last THEN freed
               ELSE Redirect(swap, IndexEntryCells(swap, p, moved, last + 1), i + 1)
  IN  [final EXCEPT ![p].len = last]

TakeOut(mem, p, k, i, unordered) ==
  CASE i < 0 -> mem
    [] i >= 0 /\ unordered -> RemoveUnordered(mem, p, k, i)
    [] OTHER -> AdjustIndexAfterRemove(RemoveMapSlotInPlace(mem, p, i), p, i)
MutableMapRemove(mem, p, k, unordered) == TakeOut(mem, p, k, FindEntry(mem, p, k), unordered)

(***************************************************************************)
(* Map: a list of pointers to entries                                      *)
(***************************************************************************)
MapEntry(mem, q, i) == mem[Slot(mem, q, i)]
MapEntries(mem, q) == [i \in 1 .. mem[q].len |-> MapEntry(mem, q, i - 1)]
MapFindEntry(mem, q, k) ==
  LET hits == {i \in 0 .. mem[q].len - 1 : MapEntry(mem, q, i).key = k}
  IN  IF hits = {} THEN -1 ELSE Min(hits)
WasmMapGet(mem, q, k) ==
  LET i == MapFindEntry(mem, q, k) IN IF i >= 0 THEN Some(MapEntry(mem, q, i).value) ELSE None

RECURSIVE AppendAll(_, _, _, _)
AppendAll(mem, p, entries, i) ==
  IF i > Len(entries) THEN mem
  ELSE AppendAll(AppendEntry(mem, p, entries[i].key, entries[i].value), p, entries, i + 1)
FromMapInto(made, entries) == Answer(AppendAll(made.memory, made.out, entries, 1), made.out)
MutableMapFromMap(mem, q) == FromMapInto(EmptyTable(mem), MapEntries(mem, q))

RECURSIVE PushEntries(_, _, _, _)
PushEntries(mem, q, entries, i) ==
  IF i > Len(entries) THEN mem
  ELSE PushEntries(ListLikePushBack(Append(mem, entries[i]), q, Len(mem) + 1), q, entries, i + 1)
ToMapInto(made, entries) == Answer(PushEntries(made.memory, made.out, entries, 1), made.out)
MutableMapToMap(mem, p) == ToMapInto(EmptyList(mem), Items(mem, p))

(* frequencies: each item is looked up in the map made so far. *)
RECURSIVE CountInto(_, _, _, _)
CountInto(mem, q, items, i) ==
  IF i > Len(items) THEN mem
  ELSE LET at == MapFindEntry(mem, q, items[i])
       IN  CountInto(IF at >= 0 THEN [mem EXCEPT ![Slot(mem, q, at)].value = @ + 1]
                     ELSE ListLikePushBack(Append(mem, [key |-> items[i], value |-> 1]),
                                           q, Len(mem) + 1),
                     q, items, i + 1)
FrequenciesInto(made, items) == Answer(CountInto(made.memory, made.out, items, 1), made.out)
SeqFrequenciesList(mem, items) == FrequenciesInto(EmptyList(mem), items)

(***************************************************************************)
(* MutableSet and Set                                                      *)
(***************************************************************************)
AddToIndex(mem, p, k) ==
  LET h == mem[p]
  IN  IF NeedsIndex(h, h.len) THEN RebuildIndex(mem, p) ELSE InsertIndex(mem, p, k, h.len - 1)
MutableSetInsert(mem, p, k) ==
  IF FindEntry(mem, p, k) >= 0 THEN mem
  ELSE AddToIndex(MutableListPush(mem, p, [key |-> k]), p, k)

(* An Int set rebuilds its index; any other keeps the one it has. *)
RemoveFromSet(mem, p, i, ints) ==
  CASE i < 0 -> mem
    [] i >= 0 /\ ints -> RebuildIndex(RemoveSlotInPlace(mem, p, i), p)
    [] OTHER -> RemoveSlotInPlace(mem, p, i)
MutableSetRemove(mem, p, k, ints) ==
  RemoveFromSet(mem, p, IF ints THEN FindEntry(mem, p, k) ELSE FindLinear(mem, p, k), ints)

MutableSetFromSetInto(made, items) ==
  Answer(RebuildIndex(
           [Write(AllocCells(made.memory, Len(items)), Len(made.memory) + 1, items) EXCEPT
              ![made.out].len = Len(items), ![made.out].cap = Len(items),
              ![made.out].data = DataFor(made.memory, items)], made.out), made.out)
MutableSetFromSet(mem, q) == MutableSetFromSetInto(EmptyTable(mem), Items(mem, q))
MutableSetToSet(mem, p) == CloneList(mem, p)
SetContains(mem, q, k) == FindLinear(mem, q, k) >= 0

(***************************************************************************)
(* The programs                                                            *)
(***************************************************************************)
CONSTANTS
  Given,        \* the values a program puts in a map
  Capacities,   \* the capacities a program asks for
  Histories,    \* what programs did to the table before they are observed:
                \* sequences of << TRUE, key >> (insert) and << FALSE, key >> (remove)
  MaxValue      \* the largest Int

MapSurfaces == {"maps", "unordered maps"}
SetSurfaces == {"int sets", "string sets"}
Unordered == surface = "unordered maps"
Ints == surface = "int sets"

RECURSIVE MapAfter(_, _), SetAfter(_, _), MapMemory(_, _, _), SetMemory(_, _, _)
MapAfter(entries, h) ==
  IF h = << >> THEN entries
  ELSE MapAfter(IF Head(h)[1] THEN MapPut(entries, Head(h)[2], 0)
                ELSE MapWithout(entries, Head(h)[2]), Tail(h))
SetAfter(s, h) ==
  IF h = << >> THEN s
  ELSE SetAfter(IF Head(h)[1] THEN SetInsert(s, Head(h)[2]) ELSE SetRemove(s, Head(h)[2]), Tail(h))
MapMemory(m, h, unordered) ==
  IF h = << >> THEN m
  ELSE MapMemory(IF Head(h)[1] THEN MutableMapInsert(m, 1, Head(h)[2], 0)
                 ELSE MutableMapRemove(m, 1, Head(h)[2], unordered), Tail(h), unordered)
SetMemory(m, h, ints) ==
  IF h = << >> THEN m
  ELSE SetMemory(IF Head(h)[1] THEN MutableSetInsert(m, 1, Head(h)[2])
                 ELSE MutableSetRemove(m, 1, Head(h)[2], ints), Tail(h), ints)

NewTables == << TableHeader(0, 0, 0, 0, 0), Header(0, 0, 0) >>
TablesInit ==
  /\ refs = [table |-> 1, frozen |-> << >>]
  /\ pointers = [table |-> 1, frozen |-> 2]
  /\ \E h \in Histories :
       \/ \E part \in MapSurfaces :
            /\ Starting(part)
            /\ objects = << MapAfter(<< >>, h) >>
            /\ memory = MapMemory(NewTables, h, part = "unordered maps")
       \/ \E part \in SetSurfaces :
            /\ Starting(part)
            /\ objects = << SetAfter(SetWithCapacity(0), h) >>
            /\ memory = SetMemory(NewTables, h, part = "int sets")

Table == Object("table")
At == pointers.table
NeverEnds(query) == Ask(query, TRUE, Ok("unit"), {Fails}, memory)

(***************************************************************************)
(* MutableMap and Map                                                      *)
(***************************************************************************)
MapWithCapacity(n) ==
  IF n < 0 THEN Refused("with_capacity")
  ELSE StoreObject("table", << >>, WithCapacityTable(memory, n))
MapInsert(k, v) ==
  IF InsertEnds(memory, At, k)
  THEN Edit("table", MapPut(Table, k, v), MutableMapInsert(memory, At, k, v))
  ELSE NeverEnds("insert")
MapUpsert(k, delta) ==
  LET base == IF MapContains(Table, k) THEN MapGet(Table, k)[1] ELSE 0
  IN  IF base + delta > MaxValue THEN Refused("insert")
      ELSE IF InsertEnds(memory, At, k)
      THEN Edit("table", MapPut(Table, k, base + delta), FusedUpsert(memory, At, k, 0, delta))
      ELSE NeverEnds("insert")
MapRemove(k) ==
  Edit("table", MapWithout(Table, k), MutableMapRemove(memory, At, k, Unordered))

(* The function returns v; it may insert the key before that. *)
GetOrInsert(k, v, inserts) ==
  LET made     == IF inserts THEN MapPut(Table, k, 0) ELSE Table
      left     == IF inserts THEN MutableMapInsert(memory, At, k, 0) ELSE memory
      expected == GetOrInsertWith(Table, k, made, v)
      given    == MutableMapGetOrInsertWith(memory, At, k, left, v)
  IN  IF MapContains(Table, k) \/ (InsertEnds(memory, At, k) /\ AppendEnds(left, At, k))
      THEN Change("get_or_insert_with", inserts /\ ~MapContains(Table, k), "table",
                  expected.memory, Ok(expected.out), {Ok(given.out)}, given.memory)
      ELSE NeverEnds("get_or_insert_with")

LookUp(k) ==
  Ask("get", FALSE, Ok(<< MapGet(Table, k), MapContains(Table, k), Len(Table) >>),
      {Ok(<< TableGet(memory, At, k), TableContains(memory, At, k), memory[At].len >>)}, memory)
IndexMap(k) == Ask("index", FALSE, MapIndex(Table, k), {TableIndex(memory, At, k)}, memory)
UnwrapGet(k) ==
  Ask("unwrap_or", FALSE, Ok(IF MapContains(Table, k) THEN MapGet(Table, k)[1] ELSE 0),
      {Ok(FusedUnwrapOr(memory, At, k, 0))}, memory)
ListMap ==
  Ask("keys", FALSE, Ok(<< MapKeysOf(Table), MapValuesOf(Table) >>),
      {Ok(<< TableKeys(memory, At), TableValues(memory, At) >>)}, memory)

FreezeMap == Store("frozen", Table, MutableMapToMap(memory, At))
ThawMap == StoreObject("table", refs.frozen, MutableMapFromMap(memory, pointers.frozen))
LookUpMap(k) ==
  Ask("get", FALSE, Ok(MapGet(refs.frozen, k)), {Ok(WasmMapGet(memory, pointers.frozen, k))}, memory)

(* Seq.frequencies of the keys, twice over. *)
RECURSIVE Frequencies(_, _)
Frequencies(entries, items) ==
  IF items = << >> THEN entries
  ELSE Frequencies(MapPut(entries, Head(items),
                          IF MapContains(entries, Head(items)) THEN MapGet(entries, Head(items))[1] + 1
                          ELSE 1), Tail(items))
Twice(items) == items \o items
CountKeys ==
  Store("frozen", Frequencies(<< >>, Twice(MapKeysOf(Table))),
        SeqFrequenciesList(memory, Twice(TableKeys(memory, At))))

(***************************************************************************)
(* MutableSet and Set                                                      *)
(***************************************************************************)
(* As many cells of the index point to slots as there are slots, unless it *)
(* is out of date.                                                         *)
Stale ==
  HasIndex(memory, At) /\ memory[At].len #
    Cardinality({c \in 0 .. memory[At].icap - 1 : memory[memory[At].index + c] > 0})

MakeSet(n) ==
  IF n < 0 THEN Refused("with_capacity")
  ELSE StoreObject("table", SetWithCapacity(n), WithCapacityTable(memory, n))
InsertElement(k) ==
  Change("insert", Stale, "table", SetInsert(Table, k), Ok("unit"), {Ok("unit")},
         MutableSetInsert(memory, At, k))
RemoveElement(k) == Edit("table", SetRemove(Table, k), MutableSetRemove(memory, At, k, Ints))
Member(k) ==
  Ask("contains", Stale, Ok(<< SetHas(Table, k), Table.live >>),
      {Ok(<< TableContains(memory, At, k), memory[At].len >>)}, memory)
FreezeSet == Store("frozen", SetSnapshot(Table), MutableSetToSet(memory, At))
ThawSet ==
  StoreObject("table", SetFromIndexSet(refs.frozen), MutableSetFromSet(memory, pointers.frozen))
MemberOfSet(k) ==
  Ask("contains", FALSE, Ok(k \in Range(refs.frozen)), {Ok(SetContains(memory, pointers.frozen, k))},
      memory)

MapSteps ==
  /\ surface \in MapSurfaces
  /\ \/ \E n \in Capacities : MapWithCapacity(n)
     \/ \E k \in Keys, v \in Given : MapInsert(k, v) \/ MapUpsert(k, v)
     \/ \E k \in Keys, v \in Given, inserts \in {FALSE} \cup {~Unordered} : GetOrInsert(k, v, inserts)
     \/ \E k \in Keys : MapRemove(k) \/ LookUp(k) \/ IndexMap(k) \/ UnwrapGet(k)
     \/ ThawMap
     \/ /\ surface = "maps"
        /\ \/ ListMap \/ FreezeMap \/ CountKeys
           \/ \E k \in Keys : LookUpMap(k)
SetSteps ==
  /\ surface \in SetSurfaces
  /\ \/ \E n \in Capacities : MakeSet(n)
     \/ \E k \in Keys : InsertElement(k) \/ RemoveElement(k) \/ Member(k) \/ MemberOfSet(k)
     \/ FreezeSet \/ ThawSet
TablesNext == MapSteps \/ SetSteps

-----------------------------------------------------------------------------
KeysIn(cells) == [i \in DOMAIN cells |-> cells[i].key]

(* Through insertions, removals, tombstones, rebuilt and replaced indexes, *)
(* the compiled program's maps and sets have the entries of the            *)
(* interpreter's in the same order (any order where none can be seen), and *)
(* a Map or Set made of one no longer changes with it (func.rs:20055,      *)
(* 20138, 20495).                                                          *)
TablesHoldEntries ==
  ~answer.known =>
    /\ surface = "maps" =>
         Items(memory, At) = Table /\ MapEntries(memory, pointers.frozen) = refs.frozen
    /\ surface = "unordered maps" => Range(Items(memory, At)) = Range(Table)
    /\ surface \in SetSurfaces =>
         /\ KeysIn(Items(memory, At)) = SetSnapshot(Table)
         /\ KeysIn(Items(memory, pointers.frozen)) = refs.frozen
=============================================================================
