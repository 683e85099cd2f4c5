-------------------------------- MODULE Maps --------------------------------
(***************************************************************************)
(* Map and MutableMap of the interpreter: a MutableMap starts without      *)
(* storage, gets an open-addressing table with its first primitive key and *)
(* bucket storage with its first other key; a Map is an insertion-ordered  *)
(* hash map (the indexmap crate) or bucket storage.  Each converts into    *)
(* the other.                                                              *)
(***************************************************************************)
EXTENDS ProbeTable

CONSTANTS
  Values,
  Uses          \* what programs do: the keys, values and capacity hints they
                \* use, whether they use Map, and a bound on the entry vector

ASSUME UsesAssumption ==
  \A u \in Uses :
    /\ u.keys \subseteq Keys /\ u.values \subseteq Values /\ u.hints \subseteq Nat
    /\ u.maps \in BOOLEAN /\ u.maxEntries \in Nat

VARIABLES
  mutable,      \* MutableMapValue.storage
  persistent,   \* MapValue.storage
  use           \* the program's member of Uses

mapVars == <<mutable, persistent, use>>

---------------------------------------------------------------------------
(* MapValue.  The hash map of the indexmap crate is its sequence of        *)
(* entries.                                                                *)

IndexMapInsert(s, k, v) ==
  IF \E i \in 1..Len(s) : s[i].key = k
  THEN [i \in 1..Len(s) |-> IF s[i].key = k THEN [s[i] EXCEPT !.value = v] ELSE s[i]]
  ELSE Append(s, [key |-> k, value |-> v])

IndexMapShiftRemove(s, k) ==
  IF \E i \in 1..Len(s) : s[i].key = k THEN Delete(s, CHOOSE i \in 1..Len(s) : s[i].key = k) ELSE s

PrimitiveMap(s) == [kind |-> "primitive", entries |-> s]
GenericMap(t) == [kind |-> "generic", table |-> t]

Entries(p) == IF p.kind = "primitive" THEN p.entries ELSE p.table.entries

ToGeneric(p) == IF p.kind = "primitive" THEN BucketsFromEntries(p.entries) ELSE p.table

\* MapValue::insert_with, the in-place form a MutableMap uses
MapInsert(p, k, v) ==
  IF p.kind = "primitive" /\ k \in Primitive THEN PrimitiveMap(IndexMapInsert(p.entries, k, v))
  ELSE GenericMap(BucketInsert(ToGeneric(p), k, v))

\* MapValue::remove_with
MapRemove(p, k) ==
  IF p.kind = "generic" THEN GenericMap(BucketRemove(p.table, k))
  ELSE IF k \in Primitive THEN PrimitiveMap(IndexMapShiftRemove(p.entries, k)) ELSE p

\* MapValue::insert_persistent_with: a primitive key in bucket storage, and
\* the first other key, are inserted into the copy in place.
InsertPersistent(p, k, v) ==
  IF p.kind = "generic" /\ k \in Other THEN GenericMap(BucketInsertPersistent(p.table, k, v))
  ELSE MapInsert(p, k, v)

RemovePersistent(p, k) ==
  IF p.kind = "generic" THEN GenericMap(BucketRemovePersistent(p.table, k)) ELSE MapRemove(p, k)

\* find_index_with, by position of the entry; 0 when absent
MapFind(p, k) ==
  IF p.kind = "generic" THEN FindIndex(p.table, k)
  ELSE LET at == {i \in 1..Len(p.entries) : p.entries[i].key = k}
       IN  IF at = {} THEN 0 ELSE CHOOSE i \in at : TRUE

---------------------------------------------------------------------------
(* MutableMapValue.                                                        *)

NoStorage(hint) == [kind |-> "empty", hint |-> hint]
ProbeStorage(t) == [kind |-> "probe", table |-> t]
GenericStorage(p) == [kind |-> "map", map |-> p]

\* MutableMapValue::snapshot
SnapshotOf(m) ==
  CASE m.kind = "empty" -> PrimitiveMap(<<>>)
    [] m.kind = "probe" -> PrimitiveMap(Snapshot(m.table))
    [] m.kind = "map"   -> m.map

\* MutableMapValue::insert_with and insert_primitive
InsertMutable(m, k, v) ==
  IF m.kind = "map" \/ k \in Other THEN GenericStorage(MapInsert(SnapshotOf(m), k, v))
  ELSE ProbeStorage(Insert(IF m.kind = "empty" THEN WithCapacity(m.hint) ELSE m.table, k, v))

\* MutableMapValue::remove_with and remove_primitive
RemoveMutable(m, k) ==
  CASE m.kind = "empty" -> m
    [] m.kind = "probe" -> IF k \in Primitive THEN ProbeStorage(Remove(m.table, k)) ELSE m
    [] m.kind = "map"   -> GenericStorage(MapRemove(m.map, k))

\* PrimitiveMutableMapValue::from_indexmap: a table with room for the entries,
\* filled in their order.
Filled(s) ==
  LET fill[i \in 0..Len(s)] ==
        IF i = 0 THEN WithCapacity(Len(s)) ELSE Insert(fill[i - 1], s[i].key, s[i].value)
  IN  fill[Len(s)]

\* MutableMapValue::from_map
FromMap(p) ==
  IF p.kind = "generic" THEN GenericStorage(p) ELSE ProbeStorage(Filled(p.entries))

\* get_cloned_with: the entry a lookup ends at, <<>> when there is none.
GetMutable(m, k) ==
  CASE m.kind = "empty" -> <<>>
    [] m.kind = "probe" -> IF k \in Primitive /\ Lookup(m.table, k) > 0
                           THEN <<m.table.entries[Lookup(m.table, k)].value>> ELSE <<>>
    [] m.kind = "map"   -> IF MapFind(m.map, k) > 0
                           THEN <<Entries(m.map)[MapFind(m.map, k)].value>> ELSE <<>>

GetPersistent(p, k) ==
  IF MapFind(p, k) > 0 THEN <<Entries(p)[MapFind(p, k)].value>> ELSE <<>>

---------------------------------------------------------------------------
(* The operations of a program on one MutableMap and one Map.              *)

MapsInit == mutable = NoStorage(0) /\ persistent = PrimitiveMap(<<>>) /\ use \in Uses

VectorLength(m) ==
  CASE m.kind = "empty" -> 0
    [] m.kind = "probe" -> Len(m.table.entries)
    [] m.kind = "map"   -> Len(Entries(m.map))

New(hint) == mutable' = NoStorage(hint) /\ UNCHANGED <<persistent, use>>

InsertM(k, v) ==
  /\ VectorLength(mutable) < use.maxEntries
  /\ mutable' = InsertMutable(mutable, k, v)
  /\ UNCHANGED <<persistent, use>>

RemoveM(k) == mutable' = RemoveMutable(mutable, k) /\ UNCHANGED <<persistent, use>>

InsertP(k, v) ==
  /\ Len(Entries(persistent)) < use.maxEntries
  /\ persistent' = InsertPersistent(persistent, k, v)
  /\ UNCHANGED <<mutable, use>>

RemoveP(k) == persistent' = RemovePersistent(persistent, k) /\ UNCHANGED <<mutable, use>>

ToMutable == use.maps /\ mutable' = FromMap(persistent) /\ UNCHANGED <<persistent, use>>

ToPersistent == use.maps /\ persistent' = SnapshotOf(mutable) /\ UNCHANGED <<mutable, use>>

MapsNext ==
  \/ \E hint \in use.hints : New(hint)
  \/ \E k \in use.keys, v \in use.values : InsertM(k, v)
  \/ \E k \in use.keys : RemoveM(k)
  \/ use.maps /\ \E k \in use.keys, v \in use.values : InsertP(k, v)
  \/ use.maps /\ \E k \in use.keys : RemoveP(k)
  \/ ToMutable
  \/ ToPersistent

MapsSpec == MapsInit /\ [][MapsNext]_mapVars

---------------------------------------------------------------------------
\* A table that has slots has an empty one, so the probe loops of lookup,
\* find_slot_index_for_insert and rehash, which have no other exit for an
\* absent key, come to an end.
ProbesEnd ==
  mutable.kind = "probe" /\ NumSlots(mutable.table) > 0 =>
    \E i \in DOMAIN mutable.table.slots : mutable.table.slots[i] = Empty

\* The value at the position of k in a list of entries
Listed(s, k) ==
  LET at == {i \in 1..Len(s) : ClassOf[s[i].key] = ClassOf[k]}
  IN  IF at = {} THEN <<>> ELSE <<s[CHOOSE i \in at : TRUE].value>>

\* A lookup by hash finds what a walk over the entries finds, for present
\* and for absent keys, whichever storage the map has and however it got it.
LookupsAgree ==
  \A k \in Keys :
    /\ GetMutable(mutable, k) = Listed(Entries(SnapshotOf(mutable)), k)
    /\ GetPersistent(persistent, k) = Listed(Entries(persistent), k)

\* The buckets of generic storage name every entry once, under its own hash,
\* and no other position; removing an entry moves the ones after it.
BucketsIndexEntries ==
  \A p \in {persistent} \cup (IF mutable.kind = "map" THEN {mutable.map} ELSE {}) :
    p.kind = "generic" =>
      /\ \A h \in DOMAIN p.table.buckets :
           /\ p.table.buckets[h] # <<>>
           /\ \A x \in 1..Len(p.table.buckets[h]) :
                LET i == p.table.buckets[h][x]
                IN  i \in 1..Len(p.table.entries) /\ HashOf[p.table.entries[i].key] = h
      /\ \A i \in 1..Len(p.table.entries) :
           LET h == HashOf[p.table.entries[i].key]
           IN  /\ h \in DOMAIN p.table.buckets
               /\ Cardinality({x \in 1..Len(p.table.buckets[h]) : p.table.buckets[h][x] = i}) = 1

\* Both maps, with all their changes of storage, behave as association lists
\* in order of first insertion.
Association == INSTANCE OrderedMap
              WITH mutable <- Entries(SnapshotOf(mutable)), persistent <- Entries(persistent)
RefinesOrderedMap == Association!Spec
=============================================================================
