----------------------------- MODULE BucketTable ----------------------------
(***************************************************************************)
(* GenericMapValue: entries in insertion order and, for each hash, the     *)
(* positions of the entries with that hash.  Keys are compared by the      *)
(* program's own Eq, here equality of classes; the key kept is the first   *)
(* one inserted.  The keys are those of every kind of map and set.         *)
(***************************************************************************)
EXTENDS Integers, Sequences

CONSTANTS
  Primitive,   \* keys that are Int, String, Char, Bool or Unit values
  Other,       \* keys of any other type, with their own Hash and Eq
  HashOf,      \* the hash of each key, an i64
  ClassOf      \* two keys are equal for Eq when their classes are

Keys == Primitive \cup Other

\* Eq and Hash agree, and a primitive key equals only itself.
ASSUME KeysAssumption ==
  /\ Primitive \cap Other = {}
  /\ \A k \in Keys : HashOf[k] \in Int
  /\ \A j, k \in Keys : ClassOf[j] = ClassOf[k] => HashOf[j] = HashOf[k]
  /\ \A j \in Primitive, k \in Keys : ClassOf[j] = ClassOf[k] => j = k

\* The items of s at the positions P, in their order.  A function and not
\* SelectSeq, of which the prover knows nothing.
Kept(s, P) ==
  LET kept[i \in 0..Len(s)] ==
        IF i = 0 THEN <<>> ELSE IF i \in P THEN Append(kept[i - 1], s[i]) ELSE kept[i - 1]
  IN  kept[Len(s)]

\* Vec::remove: the items after position i move up.
Delete(s, i) == [j \in 1..(Len(s) - 1) |-> IF j < i THEN s[j] ELSE s[j + 1]]

\* push_bucket_index
PushIndex(buckets, h, i) ==
  [x \in DOMAIN buckets \cup {h} |->
     IF x # h THEN buckets[x]
     ELSE IF h \in DOMAIN buckets THEN Append(buckets[h], i) ELSE <<i>>]

\* remove_bucket_index: an emptied bucket goes away.
DropIndex(buckets, h, i) ==
  LET at == {x \in 1..Len(buckets[h]) : buckets[h][x] = i}
      rest == IF at = {} THEN buckets[h]
              ELSE Delete(buckets[h], CHOOSE x \in at : \A y \in at : x <= y)
  IN  [x \in IF rest = <<>> THEN DOMAIN buckets \ {h} ELSE DOMAIN buckets |->
         IF x = h THEN rest ELSE buckets[x]]

\* Mutant: the index after the removed one is not shifted.
ShiftIndicesOffByOne(buckets, removed) ==
  [x \in DOMAIN buckets |->
     [p \in DOMAIN buckets[x] |->
        IF buckets[x][p] > removed + 1 THEN buckets[x][p] - 1 ELSE buckets[x][p]]]

\* shift_bucket_indices_after_removal
ShiftIndices(buckets, removed) ==
  [x \in DOMAIN buckets |->
     [p \in DOMAIN buckets[x] |->
        IF buckets[x][p] > removed THEN buckets[x][p] - 1 ELSE buckets[x][p]]]

\* from_entries: the buckets of a vector of entries.
BucketsFromEntries(entries) ==
  LET n == Len(entries)
      hash(i) == HashOf[entries[i].key]
  IN  [entries |-> entries,
       buckets |-> [h \in {hash(i) : i \in 1..n} |-> Kept([i \in 1..n |-> i], {i \in 1..n : hash(i) = h})]]

\* Mutant: keys are compared by representation.
FindIndexStructural(t, k) ==
  IF HashOf[k] \notin DOMAIN t.buckets THEN 0
  ELSE LET bucket == t.buckets[HashOf[k]]
           equal == {x \in 1..Len(bucket) : t.entries[bucket[x]].key = k}
       IN  IF equal = {} THEN 0 ELSE bucket[CHOOSE x \in equal : \A y \in equal : x <= y]

\* find_index_with: the first entry of the bucket equal to the key, or 0.
FindIndex(t, k) ==
  IF HashOf[k] \notin DOMAIN t.buckets THEN 0
  ELSE LET bucket == t.buckets[HashOf[k]]
           equal == {x \in 1..Len(bucket) : ClassOf[t.entries[bucket[x]].key] = ClassOf[k]}
       IN  IF equal = {} THEN 0 ELSE bucket[CHOOSE x \in equal : \A y \in equal : x <= y]

\* Mutant: the whole entry is replaced, its key included.
BucketInsertReplacesKey(t, k, v) ==
  LET i == FindIndex(t, k)
  IN  IF i > 0 THEN [t EXCEPT !.entries[i] = [key |-> k, value |-> v]]
      ELSE [entries |-> Append(t.entries, [key |-> k, value |-> v]),
            buckets |-> PushIndex(t.buckets, HashOf[k], Len(t.entries) + 1)]

\* insert_with
BucketInsert(t, k, v) ==
  LET i == FindIndex(t, k)
  IN  IF i > 0 THEN [t EXCEPT !.entries[i].value = v]
      ELSE [entries |-> Append(t.entries, [key |-> k, value |-> v]),
            buckets |-> PushIndex(t.buckets, HashOf[k], Len(t.entries) + 1)]

\* remove_with
BucketRemove(t, k) ==
  LET i == FindIndex(t, k)
  IN  IF i = 0 THEN t
      ELSE [entries |-> Delete(t.entries, i),
            buckets |-> ShiftIndices(DropIndex(t.buckets, HashOf[t.entries[i].key], i), i)]

\* insert_persistent_with: the copy's buckets are built again, unless the
\* value is the one already there.
BucketInsertPersistent(t, k, v) ==
  LET i == FindIndex(t, k)
  IN  IF i = 0 THEN BucketsFromEntries(Append(t.entries, [key |-> k, value |-> v]))
      ELSE IF t.entries[i].value = v THEN t
      ELSE BucketsFromEntries([t.entries EXCEPT ![i].value = v])

\* remove_persistent_with
BucketRemovePersistent(t, k) ==
  LET i == FindIndex(t, k)
  IN  IF i = 0 THEN t ELSE BucketsFromEntries(Delete(t.entries, i))
=============================================================================
