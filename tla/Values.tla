------------------------------- MODULE Values -------------------------------
(***************************************************************************)
(* Programs on structural values: two variables of one type, objects[1].   *)
(* The built-in Hash and Show of the compiled program keep the state of a  *)
(* list or a variant in locals that a nested one overwrites (func.rs:18371 *)
(* and 18589), and its Ord the place of a record (func.rs:10308).  Show    *)
(* also orders the fields of a record otherwise than the interpreter, and  *)
(* shows what is in a map, a set or a MutableList as it shows it elsewhere *)
(* (func.rs:18636, 18660).                                                 *)
(***************************************************************************)
EXTENDS Backends, WasmStrings, WasmLists
LOCAL INSTANCE SequencesExt
LOCAL INSTANCE TLC
LOCAL INSTANCE FiniteSetsExt

(***************************************************************************)
(* The built-in Eq, Ord and Show of structural values in the interpreter   *)
(* (crates/eval/src/interpreter.rs, value.rs).                             *)
(*                                                                         *)
(* Besides the types of Outcomes:  << "mlist", type >> (a MutableList),    *)
(* << "rec", names, types >> (a record, its fields as declared; a name is  *)
(* a text), << "adt", variants >> (the field types of each variant),       *)
(* << "set", type >>, << "map", key, value >>, << "bits" >> and            *)
(* << "queue" >>.  A shown text is a sequence of its pieces.               *)
(***************************************************************************)

MutableListOf(type) == << "mlist", type >>
RecordOf(names, types) == << "rec", names, types >>
AdtOf(variants) == << "adt", variants >>
SetOf(type) == << "set", type >>
MapOf(key, value) == << "map", key, value >>
BitSetType == << "bits" >>
QueueType == << "queue" >>

(* The positions of the fields, by name, and as "name: value" texts. *)
ByName(names) ==
  SetToSortSeq(DOMAIN names, LAMBDA i, j : TextCompare(names[i], names[j]) < 0)
Colon == 58
ByShownField(names) ==
  SetToSortSeq(DOMAIN names,
               LAMBDA i, j : TextCompare(Append(names[i], Colon), Append(names[j], Colon)) < 0)

RECURSIVE TraitEqValues(_, _, _)
TraitEqSlice(type, xs, ys) ==
  Len(xs) = Len(ys) /\ \A i \in DOMAIN xs : TraitEqValues(type, xs[i], ys[i])
TraitEqValues(type, x, y) ==
  CASE type[1] \in {"list", "mlist"} -> TraitEqSlice(type[2], x, y)
    [] type[1] = "rec" -> \A i \in DOMAIN x : TraitEqValues(type[3][i], x[i], y[i])
    [] type[1] = "adt" ->
         x.tag = y.tag /\ \A i \in DOMAIN x.fields :
                            TraitEqValues(type[2][x.tag + 1][i], x.fields[i], y.fields[i])
    [] OTHER -> x = y

(* The first pair that is not equal decides, then the lengths. *)
FirstOrder(orders, m, n) ==
  LET decided == SelectSeq(orders, LAMBDA o : o # 0)
  IN  IF decided # << >> THEN decided[1] ELSE IF m < n THEN -1 ELSE IF m > n THEN 1 ELSE 0
RECURSIVE TraitCompareValues(_, _, _)
TraitCompareSlices(type, xs, ys) ==
  FirstOrder([i \in 1 .. (IF Len(xs) < Len(ys) THEN Len(xs) ELSE Len(ys)) |->
                TraitCompareValues(type, xs[i], ys[i])], Len(xs), Len(ys))
TraitCompareRecords(type, x, y, order) ==
  FirstOrder([k \in DOMAIN order |->
                TraitCompareValues(type[3][order[k]], x[order[k]], y[order[k]])], 0, 0)
TraitCompareValues(type, x, y) ==
  CASE type[1] = "text" -> TextCompare(x, y)
    [] type[1] = "bool" -> IF x = y THEN 0 ELSE IF y THEN -1 ELSE 1
    [] type[1] \in {"list", "mlist"} -> TraitCompareSlices(type[2], x, y)
    [] type[1] = "rec" -> TraitCompareRecords(type, x, y, ByName(type[2]))
    [] OTHER -> IF x < y THEN -1 ELSE IF x > y THEN 1 ELSE 0

(* Pieces with a piece between them. *)
Joining(pieces) ==
  FlattenSeq([i \in DOMAIN pieces |-> IF i = 1 THEN pieces[i] ELSE << ", " >> \o pieces[i]])
Variant(tag) == "V" \o ToString(tag)

(* Value::display, for values inside maps, sets and mutable lists. *)
RECURSIVE Display(_, _)
DisplayAll(type, items) == Joining([i \in DOMAIN items |-> Display(type, items[i])])
DisplayFields(types, values) == Joining([i \in DOMAIN values |-> Display(types[i], values[i])])
Display(type, x) ==
  CASE type[1] = "list" -> << "[" >> \o DisplayAll(type[2], x) \o << "]" >>
    [] type[1] = "mlist" -> << "MutableList([" >> \o DisplayAll(type[2], x) \o << "])" >>
    [] type[1] = "set" -> << "#{" >> \o DisplayAll(type[2], x) \o << "}" >>
    [] type[1] = "map" ->
         << "{" >> \o Joining([i \in DOMAIN x |-> Display(type[2], x[i][1]) \o << ": " >>
                                                    \o Display(type[3], x[i][2])]) \o << "}" >>
    [] type[1] = "bits" ->
         << "BitSet(size=", ToString(x.size), ", #{" >>
           \o DisplayAll(Whole, SetToSortSeq(x.bits, LAMBDA i, j : i < j)) \o << "})" >>
    [] type[1] = "queue" ->
         << "MutablePriorityQueue(direction=", x.direction, ", len=", ToString(x.len), ")" >>
    [] type[1] = "rec" ->
         << "{ " >> \o Joining([i \in DOMAIN x |-> << ToString(type[2][i]), ": " >>
                                                     \o Display(type[3][i], x[i])]) \o << " }" >>
    [] type[1] = "adt" ->
         << "<variant ", ToString(x.tag), ">" >>
           \o (IF x.fields = << >> THEN << >>
               ELSE << "(" >> \o DisplayFields(type[2][x.tag + 1], x.fields) \o << ")" >>)
    [] OTHER -> << ToString(x) >>

(* Show.show: Lists, records and variants by Show, other collections by display. *)
RECURSIVE TraitShowValue(_, _)
ShowAll(types, values) ==
  Joining([i \in DOMAIN values |-> TraitShowValue(types[i], values[i])])
ShowRecord(type, x, order) ==
  << "{ " >> \o Joining([k \in DOMAIN order |-> << ToString(type[2][order[k]]), ": " >>
                                                  \o TraitShowValue(type[3][order[k]], x[order[k]])])
    \o << " }" >>
TraitShowValue(type, x) ==
  CASE type[1] = "list" -> << "[" >> \o ShowAll([i \in DOMAIN x |-> type[2]], x) \o << "]" >>
    [] type[1] = "rec" -> ShowRecord(type, x, ByShownField(type[2]))
    [] type[1] = "adt" ->
         IF x.fields = << >> THEN << Variant(x.tag) >>
         ELSE << Variant(x.tag), "(" >> \o ShowAll(type[2][x.tag + 1], x.fields) \o << ")" >>
    [] OTHER -> Display(type, x)

(***************************************************************************)
(* Records and variants in the memory of a compiled program, and the       *)
(* built-in Eq, Ord, Hash and Show (crates/codegen/src/wasm/func.rs).      *)
(*                                                                         *)
(* A record is a cell with its fields sorted by name; a variant a cell     *)
(* with a tag and as many fields as the largest variant.  Types as in      *)
(* above.  Hash and Show keep the length, the data and the index of the    *)
(* list they are at, or the tag of a variant, in locals of the function    *)
(* that a nested value uses too.                                           *)
(***************************************************************************)

(***************************************************************************)
(* Construction, fields and updates                                        *)
(***************************************************************************)
RecordCreate(mem, names, slots) ==
  Alloc(mem, [fields |-> [k \in DOMAIN names |-> slots[ByName(names)[k]]]])
ResolveRecordFieldIndex(names, i) == CHOOSE k \in DOMAIN names : ByName(names)[k] = i
FieldGet(mem, p, names, i) == mem[p].fields[ResolveRecordFieldIndex(names, i)]
\* Mutant: the record is changed where it is.
RecordUpdateInPlace(mem, p, names, i, slot) ==
  Answer([mem EXCEPT ![p].fields[ResolveRecordFieldIndex(names, i)] = slot], p)

RecordUpdate(mem, p, names, i, slot) ==
  Alloc(mem, [mem[p] EXCEPT !.fields[ResolveRecordFieldIndex(names, i)] = slot])

(* The payload slots of the layout, those of the variant first. *)
LayoutFields(variants) == Max({Len(variants[v]) : v \in DOMAIN variants})
AdtConstruct(mem, variants, tag, slots) ==
  Alloc(mem, [tag |-> tag,
                 fields |-> slots \o [i \in 1 .. LayoutFields(variants) - Len(slots) |-> 0]])
AdtFieldGet(mem, p, i) == mem[p].fields[i]

(* The fields of a record type, as stored. *)
ResolveRecordFields(type) == [k \in DOMAIN type[2] |-> type[3][ByName(type[2])[k]]]

(* The value of the type, made part by part; slots holds the parts made. *)
RECURSIVE MakeValue(_, _, _)
MakeParts(mem, types, values) ==
  FoldLeft(LAMBDA made, i : LET part == MakeValue(made.memory, types[i], values[i])
                            IN  Answer(part.memory, Append(made.out, part.out)),
           Answer(mem, << >>), [i \in DOMAIN values |-> i])
MakeList(parts) == FreshList(parts.memory, parts.out)
MakeEntries(keys, values) ==
  LET entries == [i \in DOMAIN keys.out |-> [key |-> keys.out[i], value |-> values.out[i]]]
  IN  FreshList(values.memory \o entries, [i \in DOMAIN entries |-> Len(values.memory) + i])
MakeMap(keys, type, x) ==
  MakeEntries(keys, MakeParts(keys.memory, [i \in DOMAIN x |-> type], [i \in DOMAIN x |-> x[i][2]]))
MakeBits(empty, bits) ==
  FoldLeft(LAMBDA made, i : UpdateOf(made, "set", i), empty, SetToSeq(bits))
MakeValue(mem, type, x) ==
  CASE type[1] = "text" -> Alloc(mem, Flat(Encode(x), Len(x)))
    [] type[1] \in {"list", "mlist", "set"} ->
         MakeList(MakeParts(mem, [i \in DOMAIN x |-> type[2]], x))
    [] type[1] = "map" ->
         MakeMap(MakeParts(mem, [i \in DOMAIN x |-> type[2]], [i \in DOMAIN x |-> x[i][1]]),
                 type[3], x)
    [] type[1] = "bits" -> MakeBits(AllocZeroedBitset(mem, x.size), x.bits)
    [] type[1] = "queue" ->
         LET items == FreshList(mem, [i \in 1 .. x.len |-> i])
         IN  Alloc(items.memory, [max |-> IF x.direction = "max" THEN 1 ELSE 0, items |-> items.out])
    [] type[1] = "rec" ->
         LET parts == MakeParts(mem, type[3], x) IN RecordCreate(parts.memory, type[2], parts.out)
    [] type[1] = "adt" ->
         LET parts == MakeParts(mem, type[2][x.tag + 1], x.fields)
         IN  AdtConstruct(parts.memory, type[2], x.tag, parts.out)
    [] OTHER -> Answer(mem, x)

(* The value of the type at a slot. *)
RECURSIVE ReadValue(_, _, _)
ReadItems(mem, type, p) ==
  [i \in 1 .. mem[p].len |-> ReadValue(mem, type, Slot(mem, p, i - 1))]
ReadFields(mem, types, slots) ==
  [i \in DOMAIN types |-> ReadValue(mem, types[i], slots[i])]
ReadValue(mem, type, slot) ==
  CASE type[1] = "text" -> DecodeFrom(FlattenInto(mem, slot), 0)
    [] type[1] \in {"list", "mlist", "set"} -> ReadItems(mem, type[2], slot)
    [] type[1] = "map" ->
         [i \in 1 .. mem[slot].len |->
            LET entry == mem[Slot(mem, slot, i - 1)]
            IN  << ReadValue(mem, type[2], entry.key), ReadValue(mem, type[3], entry.value) >>]
    [] type[1] = "bits" ->
         [size |-> mem[slot].len,
          bits |-> {i \in 0 .. mem[slot].len - 1 : Value(BitsetTest(mem, slot, i))}]
    [] type[1] = "queue" ->
         [direction |-> IF mem[slot].max # 0 THEN "max" ELSE "min",
          len |-> mem[mem[slot].items].len]
    [] type[1] = "rec" ->
         ReadFields(mem, type[3],
                    [i \in DOMAIN type[2] |-> FieldGet(mem, slot, type[2], i)])
    [] type[1] = "adt" ->
         [tag |-> mem[slot].tag,
          fields |-> ReadFields(mem, type[2][mem[slot].tag + 1], mem[slot].fields)]
    [] OTHER -> slot

(***************************************************************************)
(* Equality and order                                                      *)
(***************************************************************************)
RECURSIVE ValueEquals(_, _, _, _)
LinearCollectionEquals(mem, type, p, q) ==
  \/ p = q
  \/ /\ mem[p].len = mem[q].len
     /\ \A i \in 0 .. mem[p].len - 1 :
          ValueEquals(mem, type, Slot(mem, p, i), Slot(mem, q, i))
RecordEquals(mem, types, p, q) ==
  p = q \/ \A k \in DOMAIN types :
             ValueEquals(mem, types[k], mem[p].fields[k], mem[q].fields[k])
ValueEquals(mem, type, a, b) ==
  CASE type[1] = "text" -> StringCompare(mem, a, b).out = 0
    [] type[1] \in {"list", "mlist"} -> LinearCollectionEquals(mem, type[2], a, b)
    [] type[1] = "rec" -> RecordEquals(mem, ResolveRecordFields(type), a, b)
    [] OTHER -> a = b

(* Comparing fields that are no Ints overwrites the locals that point to   *)
(* the records.  When they are equal the next field is read elsewhere.     *)
Anywhere == {Ok(-1), Ok(0), Ok(1), Fails}
Undecided(orders) == Ok(0) \in orders
RECURSIVE OrderCompareValues(_, _, _, _)
RECURSIVE RecordOrderCompare(_, _, _, _, _)
RecordFieldOrder(mem, types, p, q, k, orders) ==
  CASE ~Undecided(orders) -> orders
    [] Undecided(orders) /\ (types[k] = Whole \/ k = Len(types)) ->
         (orders \ {Ok(0)}) \cup RecordOrderCompare(mem, types, p, q, k + 1)
    [] OTHER -> Anywhere
RecordOrderCompare(mem, types, p, q, k) ==
  IF p = q \/ k > Len(types) THEN {Ok(0)}
  ELSE RecordFieldOrder(mem, types, p, q, k,
                        OrderCompareValues(mem, types[k], mem[p].fields[k], mem[q].fields[k]))
RECURSIVE LinearCollectionCompare(_, _, _, _, _)
LinearItemOrder(mem, type, p, q, i, orders) ==
  IF Undecided(orders)
  THEN (orders \ {Ok(0)}) \cup LinearCollectionCompare(mem, type, p, q, i + 1)
  ELSE orders
LinearCollectionCompare(mem, type, p, q, i) ==
  IF p = q THEN {Ok(0)}
  ELSE IF i >= mem[p].len \/ i >= mem[q].len
       THEN {Ok(OrderCompare(mem[p].len, mem[q].len))}
       ELSE LinearItemOrder(mem, type, p, q, i,
                            OrderCompareValues(mem, type, Slot(mem, p, i), Slot(mem, q, i)))
OrderCompareValues(mem, type, a, b) ==
  CASE type[1] = "text" -> {Ok(StringCompare(mem, a, b).out)}
    [] type[1] = "list" -> LinearCollectionCompare(mem, type[2], a, b, 0)
    [] type[1] = "rec" -> RecordOrderCompare(mem, ResolveRecordFields(type), a, b, 1)
    [] OTHER -> {Ok(OrderCompare(a, b))}

(***************************************************************************)
(* Hash and Show: what was computed so far (out) and the shared locals.    *)
(***************************************************************************)
Locals(out, len, data, idx) == [out |-> out, len |-> len, data |-> data, idx |-> idx]
AtList(mem, p, out) == Locals(out, mem[p].len, mem[p].data, 0)

HashMixText(acc, text) == FoldLeft(HashMixed, acc, Encode(text))
HashChild(acc, child) == [child EXCEPT !.out = HashMixed(acc, @)]

RECURSIVE TraitHash(_, _, _, _)
RECURSIVE HashItems(_, _, _)
HashItems(mem, type, locals) ==
  IF locals.idx >= locals.len THEN locals
  ELSE LET item == HashChild(locals.out,
                             TraitHash(mem, type, mem[locals.data + locals.idx], locals))
       IN  HashItems(mem, type, [item EXCEPT !.idx = @ + 1])
RECURSIVE HashFields(_, _, _, _, _)
HashFields(mem, types, fields, k, locals) ==
  IF k > Len(types) THEN locals
  ELSE HashFields(mem, types, fields, k + 1,
                  HashChild(locals.out, TraitHash(mem, types[k], fields[k], locals)))
RECURSIVE HashRecord(_, _, _, _, _)
HashRecord(mem, type, p, k, locals) ==
  IF k > Len(type[2]) THEN locals
  ELSE HashRecord(mem, type, p, k + 1,
                  HashChild(HashMixText(locals.out, type[2][ByName(type[2])[k]]),
                            TraitHash(mem, ResolveRecordFields(type)[k], mem[p].fields[k], locals)))

(* Every variant whose tag is the one in the local when it is looked at. *)
RECURSIVE HashVariants(_, _, _, _, _)
HashVariants(mem, variants, p, v, locals) ==
  IF v > Len(variants) THEN locals
  ELSE HashVariants(mem, variants, p, v + 1,
                    IF locals.len = v - 1 THEN HashFields(mem, variants[v], mem[p].fields, 1, locals)
                    ELSE locals)
TraitHash(mem, type, slot, locals) ==
  CASE type[1] = "text" -> [locals EXCEPT !.out = StringHashMix(mem, slot, 1)]
    [] type[1] = "list" -> HashItems(mem, type[2], AtList(mem, slot, 7))
    [] type[1] = "rec" -> HashRecord(mem, type, slot, 1, [locals EXCEPT !.out = 6])
    [] type[1] = "adt" ->
         HashVariants(mem, type[2], slot, 1,
                      [locals EXCEPT !.out = HashMixed(5, mem[slot].tag), !.len = mem[slot].tag])
    [] OTHER -> [locals EXCEPT !.out = HashMixed(IF type = Char THEN 2 ELSE 0, slot)]

ShowChild(out, child) == [child EXCEPT !.out = out \o @]
Separated(out, first) == IF first THEN out ELSE Append(out, ", ")
Closed(locals, suffix) == [locals EXCEPT !.out = Append(@, suffix)]

RECURSIVE TraitShow(_, _, _, _)
RECURSIVE ShowLinearContents(_, _, _)
ShowLinearContents(mem, type, locals) ==
  IF locals.idx >= locals.len THEN locals
  ELSE LET item == ShowChild(Separated(locals.out, locals.idx = 0),
                             TraitShow(mem, type, mem[locals.data + locals.idx], locals))
       IN  ShowLinearContents(mem, type, [item EXCEPT !.idx = @ + 1])
ShowSet(mem, type, p) ==
  Closed(ShowLinearContents(mem, type, AtList(mem, p, << "#{" >>)), "}")

RECURSIVE ShowEntries(_, _, _)
ShowEntries(mem, type, locals) ==
  IF locals.idx >= locals.len THEN locals
  ELSE LET entry == mem[mem[locals.data + locals.idx]]
           key   == ShowChild(Separated(locals.out, locals.idx = 0),
                              TraitShow(mem, type[2], entry.key, locals))
           value == ShowChild(Append(key.out, ": "), TraitShow(mem, type[3], entry.value, key))
       IN  ShowEntries(mem, type, [value EXCEPT !.idx = @ + 1])
ShowMap(mem, type, p) == Closed(ShowEntries(mem, type, AtList(mem, p, << "{" >>)), "}")

(* The size and the scan use the locals too; they end at the size. *)
ShowBitset(mem, p) ==
  LET size == mem[p].len
      set  == SelectSeq([i \in 1 .. size |-> i - 1], LAMBDA i : Value(BitsetTest(mem, p, i)))
      out  == << "BitSet(size=", ToString(size), ", #{" >>
                \o Joining([i \in DOMAIN set |-> << ToString(set[i]) >>]) \o << "})" >>
  IN  Locals(out, size, IF set = << >> THEN 0 ELSE 1, size)
ShowPriorityQueue(mem, p, locals) ==
  [locals EXCEPT !.len = mem[p].items,
                 !.out = << "MutablePriorityQueue(direction=",
                            IF mem[p].max # 0 THEN "max" ELSE "min",
                            ", len=", ToString(mem[mem[p].items].len), ")" >>]

RECURSIVE ShowFields(_, _, _, _, _)
ShowFields(mem, types, fields, k, locals) ==
  IF k > Len(types) THEN locals
  ELSE ShowFields(mem, types, fields, k + 1,
                  ShowChild(Separated(locals.out, k = 1), TraitShow(mem, types[k], fields[k], locals)))
ShowVariant(mem, types, p, v, locals) ==
  IF types = << >> THEN [locals EXCEPT !.out = << Variant(v - 1) >>]
  ELSE Closed(ShowChild(<< Variant(v - 1), "(" >>,
                        ShowFields(mem, types, mem[p].fields, 1, [locals EXCEPT !.out = << >>])), ")")
RECURSIVE ShowVariants(_, _, _, _, _)
ShowVariants(mem, variants, p, v, locals) ==
  IF v > Len(variants) THEN locals
  ELSE ShowVariants(mem, variants, p, v + 1,
                    IF locals.len = v - 1 THEN ShowVariant(mem, variants[v], p, v, locals) ELSE locals)
RECURSIVE ShowNamed(_, _, _, _, _)
ShowNamed(mem, type, p, k, locals) ==
  IF k > Len(type[2]) THEN locals
  ELSE ShowNamed(mem, type, p, k + 1,
                 ShowChild(Separated(locals.out, k = 1)
                             \o << ToString(type[2][ByName(type[2])[k]]), ": " >>,
                           TraitShow(mem, ResolveRecordFields(type)[k], mem[p].fields[k], locals)))
ShowRecordAt(mem, type, p, locals) ==
  Closed(ShowChild(<< "{ " >>, ShowNamed(mem, type, p, 1, [locals EXCEPT !.out = << >>])), " }")
TraitShow(mem, type, slot, locals) ==
  CASE type[1] = "text" ->
         [locals EXCEPT !.out = << ToString(DecodeFrom(FlattenInto(mem, slot), 0)) >>]
    [] type[1] = "list" ->
         Closed(ShowLinearContents(mem, type[2], AtList(mem, slot, << "[" >>)), "]")
    [] type[1] = "mlist" ->
         Closed(ShowLinearContents(mem, type[2], AtList(mem, slot, << "MutableList([" >>)), "])")
    [] type[1] = "set" -> ShowSet(mem, type[2], slot)
    [] type[1] = "map" -> ShowMap(mem, type, slot)
    [] type[1] = "bits" -> ShowBitset(mem, slot)
    [] type[1] = "queue" -> ShowPriorityQueue(mem, slot, locals)
    [] type[1] = "rec" -> ShowRecordAt(mem, type, slot, locals)
    [] type[1] = "adt" ->
         ShowVariants(mem, type[2], slot, 1, [locals EXCEPT !.out = << "<variant>" >>, !.len = mem[slot].tag])
    [] OTHER -> [locals EXCEPT !.out = << ToString(slot) >>]
ShowBuiltin(mem, type, slot) == TraitShow(mem, type, slot, Locals(<< >>, 0, 0, 0)).out
HashBuiltin(mem, type, slot) == TraitHash(mem, type, slot, Locals(<< >>, 0, 0, 0)).out

(***************************************************************************)
(* The programs                                                            *)
(***************************************************************************)
CONSTANT Samples     \* a sequence of types with values of the type: [type, values]

ValueType == objects[1]
Pair == {1, 2}

ValuesInit ==
  /\ Starting("values")
  /\ \E i \in DOMAIN Samples : \E x, y \in Samples[i].values :
       /\ refs = << x, y >>
       /\ objects = << Samples[i].type >>
       /\ LET made == MakeParts(<< >>, << Samples[i].type, Samples[i].type >>, << x, y >>)
          IN  memory = made.memory /\ pointers = made.out

(* The kinds of types a type is made of. *)
RECURSIVE Kinds(_)
Kinds(type) ==
  {type[1]} \cup CASE type[1] \in {"list", "mlist", "set"} -> Kinds(type[2])
                   [] type[1] = "map" -> Kinds(type[2]) \cup Kinds(type[3])
                   [] type[1] = "rec" -> UNION {Kinds(type[3][i]) : i \in DOMAIN type[3]}
                   [] type[1] = "adt" ->
                        UNION {UNION {Kinds(type[2][v][i]) : i \in DOMAIN type[2][v]} :
                               v \in DOMAIN type[2]}
                   [] OTHER -> {}
Counted == {"list", "mlist", "set", "map", "bits", "queue", "adt"}
Counts(type) == Kinds(type) \cap Counted # {}

(* Some part of the value, not the last that is looked at, counts inside a *)
(* list, a map or a variant.                                               *)
RECURSIVE Recounts(_, _)
Recounts(type, x) ==
  CASE type[1] \in {"list", "mlist", "set"} ->
         \/ Len(x) > 1 /\ Counts(type[2])
         \/ \E i \in DOMAIN x : Recounts(type[2], x[i])
    [] type[1] = "map" ->
         \/ Len(x) > 1 /\ (Counts(type[2]) \/ Counts(type[3]))
         \/ \E i \in DOMAIN x : Recounts(type[3], x[i][2])
    [] type[1] = "rec" -> \E i \in DOMAIN x : Recounts(type[3][i], x[i])
    [] type[1] = "adt" -> \E i \in DOMAIN x.fields : Counts(type[2][x.tag + 1][i])
    [] OTHER -> FALSE

(* A record whose fields Show sorts differently, or display not at all; and *)
(* variants that display shows without their names.                         *)
RECURSIVE ShownApart(_, _)
ShownApart(type, displayed) ==
  CASE type[1] = "list" -> ShownApart(type[2], displayed)
    [] type[1] \in {"mlist", "set"} -> ShownApart(type[2], TRUE)
    [] type[1] = "map" -> ShownApart(type[2], TRUE) \/ ShownApart(type[3], TRUE)
    [] type[1] = "rec" ->
         \/ ByName(type[2]) # IF displayed THEN [i \in DOMAIN type[2] |-> i] ELSE ByShownField(type[2])
         \/ \E i \in DOMAIN type[3] : ShownApart(type[3][i], displayed)
    [] type[1] = "adt" ->
         \/ displayed
         \/ \E v \in DOMAIN type[2] : \E i \in DOMAIN type[2][v] : ShownApart(type[2][v][i], FALSE)
    [] OTHER -> FALSE

(* A record with a field that is no Int, and another one after it. *)
RECURSIVE OrderLosesPlace(_)
OrderLosesPlace(type) ==
  CASE type[1] = "list" -> OrderLosesPlace(type[2])
    [] type[1] = "rec" ->
         \/ \E k \in DOMAIN type[2] : k < Len(type[2]) /\ ResolveRecordFields(type)[k] # Whole
         \/ \E i \in DOMAIN type[3] : OrderLosesPlace(type[3][i])
    [] OTHER -> FALSE

AskEqual ==
  /\ Kinds(ValueType) \cap {"adt", "set", "map", "bits", "queue"} = {}
  /\ Ask("equal", FALSE, Ok(TraitEqValues(ValueType, refs[1], refs[2])),
         {Ok(ValueEquals(memory, ValueType, pointers[1], pointers[2]))}, memory)
AskOrder ==
  /\ Kinds(ValueType) \cap {"adt", "mlist", "set", "map", "bits", "queue"} = {}
  /\ Ask("compare", OrderLosesPlace(ValueType), Ok(TraitCompareValues(ValueType, refs[1], refs[2])),
         OrderCompareValues(memory, ValueType, pointers[1], pointers[2]), memory)

(* Equal values have equal hashes. *)
AskHash ==
  /\ Kinds(ValueType) \cap {"mlist", "set", "map", "bits", "queue"} = {}
  /\ TraitEqValues(ValueType, refs[1], refs[2])
  /\ Ask("hash", Recounts(ValueType, refs[1]), Ok(TRUE),
         {Ok(HashBuiltin(memory, ValueType, pointers[1]) = HashBuiltin(memory, ValueType, pointers[2]))},
         memory)
AskShow(v) ==
  Ask("show", Recounts(ValueType, refs[v]) \/ ShownApart(ValueType, FALSE),
      Ok(TraitShowValue(ValueType, refs[v])), {Ok(ShowBuiltin(memory, ValueType, pointers[v]))}, memory)

(* The tag and the fields of a variant; u with a field of w. *)
AskVariant(v) ==
  /\ ValueType[1] = "adt"
  /\ LET tag == memory[pointers[v]].tag
         types == ValueType[2][tag + 1]
     IN  Ask("variant", FALSE, Ok(<< refs[v].tag, refs[v].fields >>),
             {Ok(<< tag, [i \in DOMAIN types |->
                            ReadValue(memory, types[i], AdtFieldGet(memory, pointers[v], i))] >>)},
             memory)
UpdateField(v, u, w, i) ==
  Store(v, [refs[u] EXCEPT ![i] = refs[w][i]],
        RecordUpdate(memory, pointers[u], ValueType[2], i,
                     FieldGet(memory, pointers[w], ValueType[2], i)))

ValuesNext ==
  /\ surface = "values"
  /\ \/ AskEqual
     \/ AskOrder
     \/ AskHash
     \/ \E v \in Pair : AskShow(v) \/ AskVariant(v)
     \/ ValueType[1] = "rec" /\ \E v, u, w \in Pair, i \in DOMAIN ValueType[2] : UpdateField(v, u, w, i)

-----------------------------------------------------------------------------
(* Whatever fields were updated, every value reads back as the             *)
(* interpreter's: an update leaves the record it copies, and the values    *)
(* the copy shares with it, as they are (func.rs:27177).                   *)
ValuesHoldParts ==
  surface = "values" =>
    \A v \in Pair : ReadValue(memory, ValueType, pointers[v]) = refs[v]
=============================================================================
