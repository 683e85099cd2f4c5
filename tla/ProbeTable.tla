----------------------------- MODULE ProbeTable -----------------------------
(***************************************************************************)
(* PrimitiveMutableMapValue: the open-addressing hash table behind a       *)
(* MutableMap whose keys are all primitive.  Entries are kept in insertion *)
(* order in a vector; slots, a power of two of them, point into it and are *)
(* probed linearly.  A removed entry stays in the vector, dead, until the  *)
(* next rehash; its slot becomes a tombstone.                              *)
(*                                                                         *)
(* A table is a value and an operation is an operator on it.               *)
(***************************************************************************)
EXTENDS BucketTable, FiniteSetsExt

CONSTANT
  MinSlots   \* the smallest non-empty table: 8 in the code

\* With fewer slots than four, one more entry could fill a table that is not
\* yet seven tenths full.
ASSUME MinSlotsAssumption == MinSlots \in Nat /\ MinSlots >= 4

Empty == 0
Tombstone == -1

NumSlots(t) == Cardinality(DOMAIN t.slots)

\* usize::next_power_of_two
NextPowerOfTwo(n) ==
  LET power[e \in 0..n] == IF e = 0 THEN 1 ELSE 2 * power[e - 1]
  IN  power[CHOOSE e \in 0..n : power[e] >= n /\ \A d \in 0..(e - 1) : power[d] < n]

SlotCountForMinLive(m) ==
  IF m = 0 THEN 0 ELSE NextPowerOfTwo(Max({(10 * m + 6) \div 7, MinSlots}))

\* The slot reached d steps after the home slot of a hash; for a power of two
\* the code's mask is this remainder, of a negative hash too.
SlotAt(n, h, d) == (h + d) % n

WithCapacity(hint) ==
  [entries |-> <<>>, slots |-> [i \in 0..(SlotCountForMinLive(hint) - 1) |-> Empty],
   live |-> 0, tombs |-> 0]

Matches(t, s, k) == s > 0 /\ t.entries[s].live /\ t.entries[s].key = k

\* How many steps from its home slot the probe for k stops, at an empty slot
\* or at k's own.  The code's loop does not end where this set is empty.
Stops(t, k) ==
  {d \in 0..(NumSlots(t) - 1) :
     LET s == t.slots[SlotAt(NumSlots(t), HashOf[k], d)]
     IN  s = Empty \/ Matches(t, s, k)}

\* lookup: the entry of k, or 0.
Lookup(t, k) ==
  IF NumSlots(t) = 0 THEN 0
  ELSE t.slots[SlotAt(NumSlots(t), HashOf[k], Min(Stops(t, k)))]

\* find_slot_index_for_insert: the first tombstone on the way to the empty
\* slot that ended the lookup, else that slot.
SlotForInsert(t, k) ==
  LET stop == Min(Stops(t, k))
      at(d) == SlotAt(NumSlots(t), HashOf[k], d)
      reusable == {d \in 0..stop : t.slots[at(d)] = Tombstone}
  IN  at(IF reusable # {} THEN Min(reusable) ELSE stop)

LiveAt(t) == {i \in 1..Len(t.entries) : t.entries[i].live}

\* The slots of a table of n into which the entries are put in their order.
Placed(entries, n) ==
  LET place[i \in 0..Len(entries)] ==
        IF i = 0 THEN [j \in 0..(n - 1) |-> Empty]
        ELSE LET s == place[i - 1]
                 home == HashOf[entries[i].key]
                 d == Min({c \in 0..(n - 1) : s[SlotAt(n, home, c)] = Empty})
             IN  [s EXCEPT ![SlotAt(n, home, d)] = i]
  IN  place[Len(entries)]

\* rehash: the live entries move to the front and are placed again.
Rehash(t, count) ==
  LET live == Kept(t.entries, LiveAt(t))
      n == Max({count, SlotCountForMinLive(Len(live)), IF live = <<>> THEN 0 ELSE MinSlots})
  IN  [entries |-> live, slots |-> Placed(live, n), live |-> Len(live), tombs |-> 0]

\* Mutant: only the live entries are counted against the load limit.
EnsureReadyLiveOnly(t) ==
  IF NumSlots(t) = 0 THEN Rehash(t, SlotCountForMinLive(1))
  ELSE LET u == IF t.tombs > t.live THEN Rehash(t, NumSlots(t)) ELSE t
       IN  IF u.live * 10 >= NumSlots(u) * 7
           THEN Rehash(u, Max({2 * NumSlots(u), SlotCountForMinLive(u.live + 1)}))
           ELSE u

\* ensure_ready_for_insert: room for one more, before it is known whether the
\* key is new.  The first table of an empty map is sized for one entry.
EnsureReady(t) ==
  IF NumSlots(t) = 0 THEN Rehash(t, SlotCountForMinLive(1))
  ELSE LET u == IF t.tombs > t.live THEN Rehash(t, NumSlots(t)) ELSE t
       IN  IF (u.live + u.tombs) * 10 >= NumSlots(u) * 7
           THEN Rehash(u, Max({2 * NumSlots(u), SlotCountForMinLive(u.live + 1)}))
           ELSE u

\* Mutant: the probe for a free slot is the probe for the key, so that an
\* earlier tombstone is taken without looking whether the key is further on.
InsertAtTombstone(t, k, v) ==
  LET u == EnsureReady(t)
      at == SlotForInsert(u, k)
      e == u.slots[at]
  IN  IF e > 0 THEN [u EXCEPT !.entries[e].value = v]
      ELSE [entries |-> Append(u.entries, [key |-> k, value |-> v, live |-> TRUE]),
            slots |-> [u.slots EXCEPT ![at] = Len(u.entries) + 1],
            live |-> u.live + 1,
            tombs |-> IF e = Tombstone THEN u.tombs - 1 ELSE u.tombs]

Insert(t, k, v) ==
  LET u == EnsureReady(t)
      e == Lookup(u, k)
      at == SlotForInsert(u, k)
  IN  IF e > 0 THEN [u EXCEPT !.entries[e].value = v]
      ELSE [entries |-> Append(u.entries, [key |-> k, value |-> v, live |-> TRUE]),
            slots |-> [u.slots EXCEPT ![at] = Len(u.entries) + 1],
            live |-> u.live + 1,
            tombs |-> IF u.slots[at] = Tombstone THEN u.tombs - 1 ELSE u.tombs]

\* Mutant: the slot of a removed entry is marked empty.
RemoveEmptiesSlot(t, k) ==
  IF Lookup(t, k) = 0 THEN t
  ELSE LET at == SlotAt(NumSlots(t), HashOf[k], Min(Stops(t, k)))
       IN  [t EXCEPT !.entries[t.slots[at]].live = FALSE, !.slots[at] = Empty, !.live = t.live - 1]

Remove(t, k) ==
  IF Lookup(t, k) = 0 THEN t
  ELSE LET at == SlotAt(NumSlots(t), HashOf[k], Min(Stops(t, k)))
           u == [t EXCEPT !.entries[t.slots[at]].live = FALSE,
                          !.slots[at] = Tombstone,
                          !.live = t.live - 1, !.tombs = t.tombs + 1]
       IN  IF u.tombs > u.live THEN Rehash(u, NumSlots(u)) ELSE u

\* snapshot: the live entries, in the order of the vector.
Snapshot(t) ==
  Kept([i \in 1..Len(t.entries) |-> [key |-> t.entries[i].key, value |-> t.entries[i].value]],
       LiveAt(t))
=============================================================================
