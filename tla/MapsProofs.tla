----------------------------- MODULE MapsProofs -----------------------------
(***************************************************************************)
(* Both maps, for every set of keys, hash and equivalence: with every      *)
(* entry seated on the path from its home slot and one slot free, probes   *)
(* end; the buckets index the entries; lookups find what is there; and     *)
(* insert, remove, rehash and from_indexmap change the list of entries as  *)
(* they would change an association list.                                  *)
(***************************************************************************)
EXTENDS TableLemmas

\* One more entry, of a key that is not there, in the slot found for it
LEMMA AddIs ==
  ASSUME NEW u, NEW n, TableOf(u, n), n > 0, u.live + u.tombs + 1 < n, NEW k \in Primitive, NEW v \in Values,
         Lookup(u, k) = Empty
  PROVE  LET at == SlotForInsert(u, k)
             w == [entries |-> Append(u.entries, [key |-> k, value |-> v, live |-> TRUE]),
                   slots |-> [u.slots EXCEPT ![at] = Len(u.entries) + 1],
                   live |-> u.live + 1,
                   tombs |-> IF u.slots[at] = Tombstone THEN u.tombs - 1 ELSE u.tombs]
         IN  /\ TableOf(w, n) /\ w.live + w.tombs < n
             /\ Snapshot(w) = Association!Put(Snapshot(u), k, v)
<1> DEFINE es == u.entries
           E == LiveAt(u)
           s == u.slots
           h == HashOf[k]
           m == Len(es)
           x == [key |-> k, value |-> v, live |-> TRUE]
           fs == Append(es, x)
           stop == Min(Stops(u, k))
           reusable == {d \in 0..stop : s[SlotAt(n, h, d)] = Tombstone}
           d == IF reusable # {} THEN Min(reusable) ELSE stop
           at == SlotAt(n, h, d)
           sl == [s EXCEPT ![at] = m + 1]
           tombs == IF s[at] = Tombstone THEN u.tombs - 1 ELSE u.tombs
           w == [entries |-> fs, slots |-> sl, live |-> u.live + 1, tombs |-> tombs]
<1>0. /\ n \in Nat /\ NumSlots(u) = n /\ DOMAIN s = 0..(n - 1)
      /\ es \in Seq(Slot) /\ m \in Nat
      /\ E \in SUBSET (1..m) /\ E \in SUBSET (Nat \ {0})
      /\ IsFiniteSet(E) /\ u.live \in Nat /\ IsFiniteSet(TombsOf(u)) /\ u.tombs \in Nat
      /\ \A i \in 1..m : es[i].key \in Primitive /\ HashOf[es[i].key] \in Int
  BY TableParts
<1>1. /\ EntriesOK(u) /\ Seated(s, n, es, E)
      /\ u.live = Cardinality(E) /\ u.tombs = Cardinality(TombsOf(u))
  BY DEF TableOf
<1>2. /\ stop \in 0..(n - 1) /\ SlotAt(n, h, stop) \in 0..(n - 1) /\ s[SlotAt(n, h, stop)] = Empty
      /\ \A c \in 0..(stop - 1) : s[SlotAt(n, h, c)] # Empty
      /\ \A i \in E : es[i].key # k
  <2>1. u.live + u.tombs < n
    BY <1>0
  <2>2. Empty \notin E
    BY <1>0 DEF Empty
  <2>3. /\ stop \in 0..(n - 1) /\ SlotAt(n, h, stop) \in 0..(n - 1) /\ Lookup(u, k) = s[SlotAt(n, h, stop)]
        /\ \A c \in 0..(stop - 1) : s[SlotAt(n, h, c)] # Empty
        /\ Lookup(u, k) \in E \/ \A i \in E : es[i].key # k
    <3>1. n > 0 /\ u.live + u.tombs < n
      BY <2>1
    <3>2. LET a == Min(Stops(u, k))
              p == SlotAt(n, HashOf[k], a)
          IN  /\ Stops(u, k) # {} /\ a \in 0..(n - 1) /\ p \in 0..(n - 1) /\ Lookup(u, k) = u.slots[p]
              /\ \A c \in 0..(a - 1) : u.slots[SlotAt(n, HashOf[k], c)] # Empty
              /\ \/ /\ Lookup(u, k) \in LiveAt(u) /\ u.entries[Lookup(u, k)].key = k
                 \/ /\ Lookup(u, k) = Empty /\ \A i \in LiveAt(u) : u.entries[i].key # k
      BY <3>1, ProbeStops, Zenon
    <3> QED  BY <3>2, Zenon
  <2> QED  BY <2>2, <2>3, Zenon
<1>3. SlotForInsert(u, k) = at
  BY <1>0 DEF SlotForInsert
<1> HIDE DEF stop
<1>4. /\ d \in 0..stop /\ s[at] \in {Empty, Tombstone}
      /\ \A c \in 0..(d - 1) : s[SlotAt(n, h, c)] # Empty
  <2>1. CASE reusable = {}
    <3>1. d = stop
      BY <2>1
    <3> HIDE DEF d
    <3> QED  BY <1>0, <1>2, <3>1
  <2>2. CASE reusable # {}
    <3>1. d = Min(reusable)
      BY <2>2
    <3>2. reusable \in SUBSET Nat
      BY <1>0, <1>2
    <3>3. d \in reusable
      <4> HIDE DEF reusable
      <4> QED  BY <2>2, <3>1, <3>2, MinIs
    <3> HIDE DEF d
    <3>4. d \in 0..stop /\ s[at] = Tombstone
      BY <3>3
    <3>5. \A c \in 0..(d - 1) : c \in 0..(stop - 1)
      BY <1>0, <1>2, <3>4
    <3> QED  BY <1>2, <3>4, <3>5
  <2> QED  BY <2>1, <2>2
<1> HIDE DEF d, reusable
<1>5. d \in 0..(n - 1) /\ d \in Nat /\ h \in Int
  <2>1. h \in Int
    BY KeysAssumption DEF Keys
  <2> QED  BY <1>0, <1>2, <1>4, <2>1
<1>6. at \in 0..(n - 1)
  <2> HIDE DEF h
  <2> QED  BY <1>0, <1>5, ProbeReaches
<1>7. x \in Slot /\ x.key = k /\ x.value = v /\ x.live = TRUE
  BY DEF Slot
<1> HIDE DEF x
<1>8. /\ fs \in Seq(Slot) /\ Len(fs) = m + 1 /\ fs[m + 1] = x
      /\ \A i \in 1..m : fs[i] = es[i]
  <2> HIDE DEF es
  <2>1. es \in Seq(Slot) /\ x \in Slot
    BY <1>0, <1>7, Zenon
  <2> QED  BY <2>1, AppendIs
<1> HIDE DEF fs
<1>9. m + 1 \in Nat \ {0} /\ m + 1 \notin E /\ \A i \in E : i \in 1..m
  <2> HIDE DEF E, m
  <2> QED  BY <1>0
<1>10. LiveAt(w) = E \cup {m + 1}
  <2>1. LiveAt(w) = {i \in 1..(m + 1) : fs[i].live}
    BY <1>8 DEF LiveAt
  <2>2. E = {i \in 1..m : es[i].live}
    BY DEF LiveAt
  <2>3. fs[m + 1].live = TRUE /\ \A i \in 1..m : fs[i].live = es[i].live
    BY <1>7, <1>8
  <2>4. \A i : i \in 1..(m + 1) <=> i \in 1..m \/ i = m + 1
    BY <1>0
  <2> HIDE DEF E, w, m
  <2> QED  BY <2>1, <2>2, <2>3, <2>4
<1> HIDE DEF E
<1>11. Seated(sl, n, fs, E \cup {m + 1})
  <2>1. \A i \in E : fs[i].key = es[i].key
    BY <1>8, <1>9
  <2>2. Seated(s, n, fs, E)
    <3> HIDE DEF s, es, m
    <3> QED  BY <1>1, <2>1, SeatedSameKeys
  <2>3. fs[m + 1].key = k
    BY <1>7, <1>8
  <2>4. \A i \in E \cup {m + 1} : HashOf[fs[i].key] \in Int
    BY <1>0, <1>5, <1>9, <2>1, <2>3
  <2> DEFINE e == m + 1
  <2>5. /\ e \in Nat \ {0} /\ e \notin E /\ \A f \in E \cup {e} : HashOf[fs[f].key] \in Int
        /\ HashOf[fs[e].key] = h
    BY <1>9, <2>3, <2>4
  <2> HIDE DEF e, s, h
  <2>6. Seated([s EXCEPT ![SlotAt(n, HashOf[fs[e].key], d)] = e], n, fs, E \cup {e})
    BY <1>0, <1>4, <1>5, <2>2, <2>5, Seat, Zenon
  <2> QED  BY <2>5, <2>6 DEF e
<1>12. Cardinality(E \cup {m + 1}) = u.live + 1
  BY <1>0, <1>1, <1>9, FS_AddElement
<1>13. TombsOf(w) = TombsOf(u) \ {at}
  <2>1. DOMAIN sl = 0..(n - 1) /\ sl[at] = m + 1 /\ \A p \in 0..(n - 1) : p # at => sl[p] = s[p]
    BY <1>0, <1>6
  <2>2. m + 1 # Tombstone
    BY <1>0 DEF Tombstone
  <2>3. TombsOf(w) = {p \in 0..(n - 1) : sl[p] = Tombstone}
    BY <2>1 DEF TombsOf
  <2>4. TombsOf(u) = {p \in 0..(n - 1) : s[p] = Tombstone}
    BY <1>0 DEF TombsOf
  <2> HIDE DEF sl, s, w, at
  <2> QED  BY <2>1, <2>2, <2>3, <2>4
<1>14. Cardinality(TombsOf(w)) = tombs /\ tombs <= u.tombs /\ tombs \in Int
  <2>1. Cardinality(TombsOf(u) \ {at}) = IF at \in TombsOf(u) THEN u.tombs - 1 ELSE u.tombs
    BY <1>0, <1>1, FS_RemoveElement, Zenon
  <2>2. at \in TombsOf(u) <=> s[at] = Tombstone
    BY <1>0, <1>6 DEF TombsOf
  <2>3. Cardinality(TombsOf(w)) = tombs
    BY <1>13, <2>1, <2>2, Zenon
  <2>4. u.tombs \in Nat
    BY <1>0
  <2>5. tombs <= u.tombs /\ tombs \in Int
    BY <2>4
  <2> QED  BY <2>3, <2>5
<1>15. w.entries = fs /\ w.slots = sl /\ w.live = u.live + 1 /\ w.tombs = tombs
  OBVIOUS
<1>16. EntriesOK(w)
  <2>1. \A i, j \in E : es[i].key = es[j].key => i = j
    BY <1>1 DEF EntriesOK, E
  <2>2. ASSUME NEW i \in E \cup {m + 1}, NEW j \in E \cup {m + 1}, fs[i].key = fs[j].key
        PROVE  i = j
    <3>1. fs[m + 1].key = k /\ \A e \in E : fs[e].key = es[e].key /\ es[e].key # k
      BY <1>2, <1>7, <1>8, <1>9 DEF E
    <3> QED  BY <2>1, <2>2, <3>1
  <2> QED  BY <1>8, <1>10, <1>15, <2>2, Zenon DEF EntriesOK
<1>17. TableOf(w, n)
  <2>1. w = [entries |-> w.entries, slots |-> w.slots, live |-> w.live, tombs |-> w.tombs]
    OBVIOUS
  <2>2. Seated(w.slots, n, w.entries, LiveAt(w))
    BY <1>10, <1>11, <1>15, Zenon
  <2>3. w.live = Cardinality(LiveAt(w)) /\ w.tombs = Cardinality(TombsOf(w))
    BY <1>10, <1>12, <1>14, <1>15, Zenon
  <2> HIDE DEF w
  <2> QED  BY <1>0, <1>16, <2>1, <2>2, <2>3 DEF TableOf
<1>18. w.live + w.tombs < n
  <2> HIDE DEF tombs, w
  <2>1. w.live = u.live + 1 /\ w.tombs = tombs
    BY <1>15, Zenon
  <2>2. n \in Nat /\ u.live \in Nat /\ u.tombs \in Nat /\ tombs <= u.tombs /\ tombs \in Int
    BY <1>0, <1>14, Zenon
  <2> QED  BY <2>1, <2>2
<1>19. Snapshot(w) = Association!Put(Snapshot(u), k, v)
  <2> DEFINE y == [key |-> k, value |-> v]
             es0 == Stripped(es)
  <2>1. es0 \in Seq(Entry) /\ Len(es0) = m
        /\ \A i \in 1..m : es0[i] = [key |-> es[i].key, value |-> es[i].value]
    <3> HIDE DEF es
    <3> QED  BY <1>0, StrippedIs
  <2>2. y \in Entry
    BY DEF Entry, Keys
  <2>3. Stripped(fs) \in Seq(Entry) /\ Len(Stripped(fs)) = m + 1
        /\ \A i \in 1..(m + 1) : Stripped(fs)[i] = [key |-> fs[i].key, value |-> fs[i].value]
    BY <1>8, StrippedIs
  <2>4. /\ Append(es0, y) \in Seq(Entry) /\ Len(Append(es0, y)) = m + 1 /\ Append(es0, y)[m + 1] = y
        /\ \A i \in 1..m : Append(es0, y)[i] = es0[i]
    <3> HIDE DEF es0, y
    <3> QED  BY <2>1, <2>2, AppendIs
  <2> HIDE DEF es0
  <2>5. ASSUME NEW i \in 1..(m + 1)
        PROVE  Stripped(fs)[i] = Append(es0, y)[i]
    <3>1. i \in 1..m \/ i = m + 1
      <4>1. m \in Nat /\ i \in 1..(m + 1)
        BY <1>0
      <4> HIDE DEF m
      <4> QED  BY <4>1
    <3>2. CASE i \in 1..m
      BY <1>8, <2>1, <2>3, <2>4, <3>2, Zenon
    <3>3. CASE i = m + 1
      <4>1. Stripped(fs)[i] = [key |-> fs[i].key, value |-> fs[i].value]
        BY <2>3
      <4> QED  BY <1>7, <1>8, <2>4, <3>3, <4>1
    <3> QED  BY <3>1, <3>2, <3>3, Zenon
  <2>6. Stripped(fs) = Append(es0, y)
    BY <2>3, <2>4, <2>5, ListsEqual, SMTT(20)
  <2>7. Snapshot(w) = Kept(Append(es0, y), E \cup {m + 1})
    BY <1>10, <1>15, <1>16, <2>6, SnapshotIs, Zenon
  <2>8. Kept(Append(es0, y), E \cup {m + 1}) = Append(Kept(es0, E), y)
    <3>1. E \in SUBSET (1..Len(es0)) /\ m = Len(es0)
      BY <1>9, <2>1
    <3> HIDE DEF y, m
    <3> QED  BY <2>1, <2>2, <3>1, KeptAppend, Zenon
  <2>9. Snapshot(u) = Kept(es0, E)
    BY <1>1, SnapshotIs DEF es0, E
  <2>10. Absent(Snapshot(u), k)
    BY <1>1, <1>2, SnapshotDistinct DEF E
  <2>11. Association!Put(Snapshot(u), k, v) = Append(Snapshot(u), y)
    BY <2>10, PutAbsent
  <2> QED  BY <2>7, <2>8, <2>9, <2>11, Zenon
<1> HIDE DEF w
<1>20. w = [entries |-> Append(u.entries, [key |-> k, value |-> v, live |-> TRUE]),
            slots |-> [u.slots EXCEPT ![SlotForInsert(u, k)] = Len(u.entries) + 1],
            live |-> u.live + 1,
            tombs |-> IF u.slots[SlotForInsert(u, k)] = Tombstone THEN u.tombs - 1 ELSE u.tombs]
  BY <1>3 DEF w, fs, x
<1> QED  BY <1>17, <1>18, <1>19, <1>20

\* insert: the value is replaced where the key is, and put at the end of the
\* list where it is not.
LEMMA InsertIs ==
  ASSUME NEW t, TableOK(t), NEW k \in Primitive, NEW v \in Values
  PROVE  TableOK(Insert(t, k, v)) /\ Snapshot(Insert(t, k, v)) = Association!Put(Snapshot(t), k, v)
<1> DEFINE u == EnsureReady(t)
           e == Lookup(u, k)
           at == SlotForInsert(u, k)
           one == [u EXCEPT !.entries[e].value = v]
           two == [entries |-> Append(u.entries, [key |-> k, value |-> v, live |-> TRUE]),
                   slots |-> [u.slots EXCEPT ![at] = Len(u.entries) + 1],
                   live |-> u.live + 1,
                   tombs |-> IF u.slots[at] = Tombstone THEN u.tombs - 1 ELSE u.tombs]
<1>1. Snapshot(u) = Snapshot(t) /\ \E n : TableOf(u, n) /\ n >= MinSlots /\ u.live + u.tombs + 1 < n
  BY EnsureReadyIs
<1>2. Insert(t, k, v) = IF e > 0 THEN one ELSE two
  BY DEF Insert
<1> HIDE DEF u
<1>3. PICK n : TableOf(u, n) /\ n >= MinSlots /\ u.live + u.tombs + 1 < n
  BY <1>1
<1>4. n \in Nat /\ n > 0 /\ u.live \in Nat /\ u.tombs \in Nat /\ u.live + u.tombs < n
      /\ LiveAt(u) \in SUBSET (Nat \ {0})
  BY <1>3, TableParts, MinSlotsAssumption
<1>5. \/ e \in LiveAt(u) /\ u.entries[e].key = k
      \/ e = Empty
  BY <1>3, <1>4, ProbeStops
<1> HIDE DEF e
<1>6. CASE e \in LiveAt(u) /\ u.entries[e].key = k
  <2>1. TableOf(one, n) /\ one.live = u.live /\ one.tombs = u.tombs
        /\ Snapshot(one) = Association!Put(Snapshot(u), k, v)
    BY <1>3, <1>6, ReplaceIs
  <2>2. e > 0
    BY <1>4, <1>6
  <2> HIDE DEF one, two
  <2> QED  BY <1>1, <1>2, <1>3, <1>4, <2>1, <2>2 DEF TableOK
<1>7. CASE e = Empty
  <2>1. TableOf(two, n) /\ two.live + two.tombs < n
        /\ Snapshot(two) = Association!Put(Snapshot(u), k, v)
    <3>1. Lookup(u, k) = Empty
      BY <1>7 DEF e
    <3> QED  BY <1>3, <1>4, <3>1, AddIs
  <2>2. ~(e > 0)
    BY <1>7 DEF Empty
  <2> HIDE DEF one, two
  <2> QED  BY <1>1, <1>2, <1>3, <1>4, <2>1, <2>2, SMTT(20) DEF TableOK
<1> QED  BY <1>5, <1>6, <1>7

\* The table with the entry of one slot dead and the slot a tombstone
Killed(t, at) ==
  [t EXCEPT !.entries[t.slots[at]].live = FALSE,
            !.slots[at] = Tombstone,
            !.live = t.live - 1, !.tombs = t.tombs + 1]

\* It is a table with one entry less.
LEMMA KillIs ==
  ASSUME NEW t, NEW n, TableOf(t, n), NEW k \in Primitive, NEW at \in 0..(n - 1),
         t.slots[at] \in LiveAt(t), t.entries[t.slots[at]].key = k
  PROVE  /\ TableOf(Killed(t, at), n) /\ Killed(t, at).live + Killed(t, at).tombs = t.live + t.tombs
         /\ Snapshot(Killed(t, at)) = Association!Without(Snapshot(t), k)
<1> DEFINE es == t.entries
           s == t.slots
           e == s[at]
           E == LiveAt(t)
           m == Len(es)
           fs == [es EXCEPT ![e] = [es[e] EXCEPT !.live = FALSE]]
           sl == [s EXCEPT ![at] = Tombstone]
           u == [entries |-> fs, slots |-> sl, live |-> t.live - 1, tombs |-> t.tombs + 1]
<1>0. /\ n \in Nat /\ NumSlots(t) = n /\ DOMAIN s = 0..(n - 1)
      /\ es \in Seq(Slot) /\ m \in Nat
      /\ E \in SUBSET (1..m) /\ E \in SUBSET (Nat \ {0})
      /\ IsFiniteSet(E) /\ t.live \in Nat /\ IsFiniteSet(TombsOf(t)) /\ t.tombs \in Nat
      /\ \A i \in 1..m : es[i].key \in Primitive /\ HashOf[es[i].key] \in Int
  BY TableParts
<1>1. /\ EntriesOK(t) /\ Seated(s, n, es, E)
      /\ t.live = Cardinality(E) /\ t.tombs = Cardinality(TombsOf(t))
      /\ t = [entries |-> es, slots |-> s, live |-> t.live, tombs |-> t.tombs]
  BY DEF TableOf
<1>2. e \in E /\ e \in 1..m /\ e \in Nat \ {0} /\ es[e].key = k
  BY <1>0
<1>3. /\ fs \in Seq(Slot) /\ Len(fs) = m
      /\ fs[e].key = es[e].key /\ fs[e].value = es[e].value /\ fs[e].live = FALSE
      /\ \A i \in 1..m : i # e => fs[i] = es[i]
  <2>1. es[e] \in Slot
    BY <1>0, <1>2
  <2>2. [es[e] EXCEPT !.live = FALSE] \in Slot
    BY <2>1, Zenon DEF Slot
  <2>3. fs \in Seq(Slot) /\ Len(fs) = m /\ \A i \in 1..m : i # e => fs[i] = es[i]
    <3> HIDE DEF es, e
    <3> QED  BY <1>0, <1>2, <2>2
  <2>4. fs[e] = [es[e] EXCEPT !.live = FALSE]
    <3>1. DOMAIN es = 1..m
      BY <1>0
    <3> DEFINE y == [es[e] EXCEPT !.live = FALSE]
    <3> HIDE DEF es, e, y, m
    <3>2. [es EXCEPT ![e] = y][e] = y
      BY <1>2, <3>1
    <3> QED  BY <3>2 DEF y
  <2>5. [es[e] EXCEPT !.live = FALSE].key = es[e].key
        /\ [es[e] EXCEPT !.live = FALSE].value = es[e].value
        /\ [es[e] EXCEPT !.live = FALSE].live = FALSE
    BY <2>1 DEF Slot
  <2> HIDE DEF fs
  <2> QED  BY <2>3, <2>4, <2>5
<1>4. u = [t EXCEPT !.entries[t.slots[at]].live = FALSE,
                    !.slots[at] = Tombstone,
                    !.live = t.live - 1, !.tombs = t.tombs + 1]
  <2> DEFINE a == t.entries
             b == t.slots
             c == t.live
             d == t.tombs
  <2>1. t = [entries |-> a, slots |-> b, live |-> c, tombs |-> d]
    BY <1>1
  <2> HIDE DEF a, b, c, d
  <2>2. ASSUME NEW r, r = [entries |-> a, slots |-> b, live |-> c, tombs |-> d]
        PROVE  [r EXCEPT !.entries[b[at]].live = FALSE, !.slots[at] = Tombstone, !.live = c - 1, !.tombs = d + 1]
               = [entries |-> [a EXCEPT ![b[at]] = [a[b[at]] EXCEPT !.live = FALSE]],
                  slots |-> [b EXCEPT ![at] = Tombstone], live |-> c - 1, tombs |-> d + 1]
    <3> DEFINE X == [a EXCEPT ![b[at]] = [a[b[at]] EXCEPT !.live = FALSE]]
               Y == [b EXCEPT ![at] = Tombstone]
               f == c - 1
               g == d + 1
    <3>1. r.entries = a /\ r.slots = b
      BY <2>2
    <3>2. ASSUME NEW x, NEW y, NEW z, NEW q
          PROVE  /\ [r EXCEPT !.entries = x].slots = b
                 /\ [[[[r EXCEPT !.entries = x] EXCEPT !.slots = y] EXCEPT !.live = z] EXCEPT !.tombs = q]
                    = [entries |-> x, slots |-> y, live |-> z, tombs |-> q]
      <4>1. [r EXCEPT !.entries = x] = [entries |-> x, slots |-> b, live |-> c, tombs |-> d]
        BY <2>2
      <4>2. [[entries |-> x, slots |-> b, live |-> c, tombs |-> d] EXCEPT !.slots = y]
            = [entries |-> x, slots |-> y, live |-> c, tombs |-> d]
        OBVIOUS
      <4>3. [[entries |-> x, slots |-> y, live |-> c, tombs |-> d] EXCEPT !.live = z]
            = [entries |-> x, slots |-> y, live |-> z, tombs |-> d]
        OBVIOUS
      <4>4. [[entries |-> x, slots |-> y, live |-> z, tombs |-> d] EXCEPT !.tombs = q]
            = [entries |-> x, slots |-> y, live |-> z, tombs |-> q]
        OBVIOUS
      <4>5. [entries |-> x, slots |-> b, live |-> c, tombs |-> d].slots = b
        OBVIOUS
      <4> QED  BY <4>1, <4>2, <4>3, <4>4, <4>5, Zenon
    <3> HIDE DEF X, Y, f, g
    <3>3. /\ [r EXCEPT !.entries = X].slots = b
          /\ [[[[r EXCEPT !.entries = X] EXCEPT !.slots = Y] EXCEPT !.live = f] EXCEPT !.tombs = g]
             = [entries |-> X, slots |-> Y, live |-> f, tombs |-> g]
      BY <3>2, Zenon
    <3>4. X = [r.entries EXCEPT ![b[at]] = [r.entries[b[at]] EXCEPT !.live = FALSE]]
      BY <3>1 DEF X
    <3>5. Y = [[r EXCEPT !.entries = X].slots EXCEPT ![at] = Tombstone]
      BY <3>3 DEF Y
    <3>6. [r EXCEPT !.entries[b[at]].live = FALSE, !.slots[at] = Tombstone, !.live = f, !.tombs = g]
          = [entries |-> X, slots |-> Y, live |-> f, tombs |-> g]
      BY <3>3, <3>4, <3>5, Zenon
    <3> QED  BY <3>6 DEF X, Y, f, g
  <2> QED  BY <2>1, <2>2, Zenon DEF a, b, c, d
<1> HIDE DEF fs
<1>5. LiveAt(u) = E \ {e}
  <2>1. LiveAt(u) = {i \in 1..m : fs[i].live}
    BY <1>3 DEF LiveAt
  <2>2. E = {i \in 1..m : es[i].live}
    BY DEF LiveAt
  <2> HIDE DEF E, u, m, es, e
  <2> QED  BY <1>3, <2>1, <2>2
<1>6. Seated(sl, n, fs, E \ {e})
  <2>1. \A f \in E : HashOf[es[f].key] \in Int
    BY <1>0
  <2>2. Seated(sl, n, es, E \ {e})
    <3> HIDE DEF E, es, s
    <3> QED  BY <1>0, <1>1, <1>2, <2>1, Unseat, Zenon
  <2>3. \A i \in E \ {e} : fs[i].key = es[i].key
    BY <1>0, <1>3
  <2> HIDE DEF E, es, sl
  <2> QED  BY <2>2, <2>3, SeatedSameKeys
<1>7. Cardinality(E \ {e}) = t.live - 1
  <2> HIDE DEF E, e
  <2> QED  BY <1>0, <1>1, <1>2, FS_RemoveElement
<1>8. TombsOf(u) = TombsOf(t) \cup {at} /\ at \notin TombsOf(t)
  <2>1. DOMAIN sl = 0..(n - 1) /\ sl[at] = Tombstone /\ \A p \in 0..(n - 1) : p # at => sl[p] = s[p]
    BY <1>0
  <2>2. s[at] # Tombstone
    BY <1>2 DEF Tombstone
  <2>3. TombsOf(u) = {p \in 0..(n - 1) : sl[p] = Tombstone}
    BY <2>1, Zenon DEF TombsOf
  <2>4. TombsOf(t) = {p \in 0..(n - 1) : s[p] = Tombstone}
    BY <1>0 DEF TombsOf
  <2> HIDE DEF sl, s, u
  <2> QED  BY <2>1, <2>2, <2>3, <2>4
<1>9. Cardinality(TombsOf(u)) = t.tombs + 1
  <2>1. Cardinality(TombsOf(t) \cup {at}) = Cardinality(TombsOf(t)) + 1
    BY <1>0, <1>8, FS_AddElement
  <2> QED  BY <1>1, <1>8, <2>1, Zenon
<1>10. u.entries = fs /\ u.slots = sl /\ u.live = t.live - 1 /\ u.tombs = t.tombs + 1
       /\ u = [entries |-> u.entries, slots |-> u.slots, live |-> u.live, tombs |-> u.tombs]
  OBVIOUS
<1> HIDE DEF u
<1>11. EntriesOK(u)
  <2>1. \A i, j \in E : es[i].key = es[j].key => i = j
    BY <1>1 DEF EntriesOK
  <2>2. \A i \in E \ {e} : fs[i].key = es[i].key
    BY <1>0, <1>3
  <2>3. \A i, j \in LiveAt(u) : u.entries[i].key = u.entries[j].key => i = j
    <3> HIDE DEF E, es, e
    <3> QED  BY <1>5, <1>10, <2>1, <2>2
  <2> QED  BY <1>3, <1>10, <2>3 DEF EntriesOK
<1>12. TableOf(u, n)
  <2>1. Seated(u.slots, n, u.entries, LiveAt(u))
    BY <1>5, <1>6, <1>10
  <2>2. u.live = Cardinality(LiveAt(u)) /\ u.tombs = Cardinality(TombsOf(u))
    BY <1>5, <1>7, <1>9, <1>10
  <2> QED  BY <1>0, <1>10, <1>11, <2>1, <2>2 DEF TableOf
<1>13. u.live + u.tombs = t.live + t.tombs
  <2>1. ASSUME NEW a \in Nat, NEW b \in Nat
        PROVE  (a - 1) + (b + 1) = a + b
    OBVIOUS
  <2>2. (t.live - 1) + (t.tombs + 1) = t.live + t.tombs
    BY <1>0, <2>1
  <2> QED  BY <1>10, <2>2
<1>14. Snapshot(u) = Association!Without(Snapshot(t), k)
  <2> DEFINE es0 == Stripped(es)
  <2>1. es0 \in Seq(Entry) /\ Len(es0) = m
        /\ \A i \in 1..m : es0[i] = [key |-> es[i].key, value |-> es[i].value]
    <3> HIDE DEF es
    <3> QED  BY <1>0, StrippedIs
  <2>2. Stripped(fs) \in Seq(Entry) /\ Len(Stripped(fs)) = m
        /\ \A i \in 1..m : Stripped(fs)[i] = [key |-> fs[i].key, value |-> fs[i].value]
    BY <1>3, StrippedIs
  <2>3. \A i \in 1..m : Stripped(fs)[i] = es0[i]
    <3> HIDE DEF es0, es, e, m
    <3> QED  BY <1>3, <2>1, <2>2
  <2> HIDE DEF es0
  <2>4. Stripped(fs) = es0
    BY <2>1, <2>2, <2>3, ListsEqual
  <2>5. Snapshot(u) = Kept(es0, E \ {e})
    BY <1>5, <1>10, <1>11, <2>4, SnapshotIs
  <2>6. Snapshot(t) = Kept(es0, E)
    BY <1>1, SnapshotIs DEF es0
  <2>7. PICK a : Enumerates(a, E)
    BY <1>1, SnapshotIs
  <2>8. PICK x \in 1..Len(a) : a[x] = e
    BY <1>2, <2>7 DEF Enumerates
  <2>9. E \in SUBSET (1..Len(es0))
    BY <1>0, <2>1
  <2>10. Kept(es0, E \ {a[x]}) = Delete(Kept(es0, E), x)
    <3> HIDE DEF E
    <3> QED  BY <2>1, <2>7, <2>8, <2>9, KeptDelete
  <2>11. x \in 1..Len(Snapshot(t)) /\ Snapshot(t)[x].key = k /\ Distinct(Snapshot(t))
    <3>1. Len(Snapshot(t)) = Len(a) /\ Snapshot(t)[x] = [key |-> es[a[x]].key, value |-> es[a[x]].value]
      <4>1. Shows(Snapshot(t), es, E, a)
        BY <1>1, <2>7, SnapshotAt
      <4> HIDE DEF es, E
      <4> QED  BY <2>8, <4>1 DEF Shows
    <3>2. Distinct(Snapshot(t))
      BY <1>1, SnapshotDistinct
    <3>3. es[a[x]].key = k
      BY <1>2, <2>8
    <3>4. Snapshot(t)[x].key = es[a[x]].key
      <4> HIDE DEF es
      <4> QED  BY <3>1
    <3>5. x \in 1..Len(Snapshot(t))
      BY <2>8, <3>1
    <3> QED  BY <3>2, <3>3, <3>4, <3>5
  <2>12. Association!Without(Snapshot(t), k) = Delete(Snapshot(t), x)
    BY <2>11, WithoutPresent
  <2> HIDE DEF E, e
  <2> QED  BY <2>5, <2>6, <2>8, <2>10, <2>12
<1>15. Killed(t, at) = u
  BY <1>4 DEF Killed
<1> HIDE DEF u
<1> QED  BY <1>12, <1>13, <1>14, <1>15, Zenon

\* remove: the entry of the key, if there is one, leaves the list.
LEMMA RemoveIs ==
  ASSUME NEW t, TableOK(t), NEW k \in Primitive
  PROVE  TableOK(Remove(t, k)) /\ Snapshot(Remove(t, k)) = Association!Without(Snapshot(t), k)
<1> DEFINE at == SlotAt(NumSlots(t), HashOf[k], Min(Stops(t, k)))
           u == [t EXCEPT !.entries[t.slots[at]].live = FALSE,
                          !.slots[at] = Tombstone,
                          !.live = t.live - 1, !.tombs = t.tombs + 1]
           e == Lookup(t, k)
<1>0. PICK n : TableOf(t, n) /\ (n = 0 \/ (n >= MinSlots /\ t.live + t.tombs < n))
  BY DEF TableOK
<1>1. n \in Nat /\ NumSlots(t) = n /\ EntriesOK(t) /\ t.live \in Nat /\ t.tombs \in Nat
      /\ LiveAt(t) \in SUBSET (Nat \ {0})
  BY <1>0, TableParts DEF TableOf
<1>2. MinSlots \in Nat /\ MinSlots >= 4
  BY MinSlotsAssumption
<1>3. Remove(t, k) = IF e = 0 THEN t ELSE IF u.tombs > u.live THEN Rehash(u, NumSlots(u)) ELSE u
  BY DEF Remove
<1>4. ASSUME e = 0, \A i \in LiveAt(t) : t.entries[i].key # k
      PROVE  TableOK(Remove(t, k)) /\ Snapshot(Remove(t, k)) = Association!Without(Snapshot(t), k)
  <2>1. Absent(Snapshot(t), k)
    BY <1>1, <1>4, SnapshotDistinct
  <2>2. Remove(t, k) = t
    BY <1>3, <1>4
  <2> QED  BY <2>1, <2>2, WithoutAbsent
<1>5. CASE n = 0
  <2>1. e = 0
    BY <1>1, <1>5 DEF Lookup
  <2>2. LiveAt(t) = {}
    BY <1>0, <1>5, NoSlotsNoEntries, SMTT(20)
  <2> QED  BY <1>4, <2>1, <2>2
<1>6. CASE n >= MinSlots /\ t.live + t.tombs < n
  <2>1. n > 0
    BY <1>1, <1>2, <1>6
  <2>2. /\ at \in 0..(n - 1) /\ e = t.slots[at]
        /\ \/ e \in LiveAt(t) /\ t.entries[e].key = k
           \/ e = Empty /\ \A i \in LiveAt(t) : t.entries[i].key # k
    BY <1>0, <1>1, <1>6, <2>1, ProbeStops
  <2>3. CASE e = Empty /\ \A i \in LiveAt(t) : t.entries[i].key # k
    BY <1>4, <2>3 DEF Empty
  <2>4. CASE e \in LiveAt(t) /\ t.entries[e].key = k
    <3> HIDE DEF e, at
    <3>0. t.slots[at] \in LiveAt(t) /\ t.entries[t.slots[at]].key = k /\ at \in 0..(n - 1)
      BY <2>2, <2>4, Zenon
    <3>1. /\ TableOf(u, n) /\ u.live + u.tombs = t.live + t.tombs
          /\ Snapshot(u) = Association!Without(Snapshot(t), k)
      <4>1. u = Killed(t, at)
        BY DEF Killed
      <4>2. /\ TableOf(Killed(t, at), n) /\ Killed(t, at).live + Killed(t, at).tombs = t.live + t.tombs
            /\ Snapshot(Killed(t, at)) = Association!Without(Snapshot(t), k)
        BY <1>0, <3>0, KillIs, Zenon
      <4> HIDE DEF u
      <4> QED  BY <4>1, <4>2, Zenon
    <3>2. e # 0
      BY <1>1, <2>4
    <3> HIDE DEF u
    <3>3. NumSlots(u) = n /\ EntriesOK(u)
      BY <3>1, TableParts DEF TableOf
    <3>4. TableOK(u)
      BY <1>6, <3>1 DEF TableOK
    <3>5. TableOK(Rehash(u, n)) /\ Snapshot(Rehash(u, n)) = Snapshot(u)
      <4>1. /\ Snapshot(Rehash(u, n)) = Snapshot(u)
            /\ \E c : TableOf(Rehash(u, n), c) /\ c >= n /\ Rehash(u, n).live + Rehash(u, n).tombs < c
        BY <1>1, <1>6, <3>3, RehashOK
      <4>2. PICK c : TableOf(Rehash(u, n), c) /\ c >= n /\ Rehash(u, n).live + Rehash(u, n).tombs < c
        BY <4>1
      <4>3. c \in Nat
        BY <4>2, TableParts
      <4>4. c >= MinSlots
        BY <1>1, <1>2, <1>6, <4>2, <4>3
      <4> QED  BY <4>1, <4>2, <4>4 DEF TableOK
    <3> QED  BY <1>3, <3>1, <3>2, <3>3, <3>4, <3>5
  <2> QED  BY <2>2, <2>3, <2>4
<1> QED  BY <1>0, <1>5, <1>6

\* with_capacity: no entries, and no slots or enough of them.
LEMMA WithCapacityIs ==
  ASSUME NEW hint \in Nat
  PROVE  TableOK(WithCapacity(hint)) /\ Snapshot(WithCapacity(hint)) = <<>>
<1> DEFINE t == WithCapacity(hint)
           n == SlotCountForMinLive(hint)
<1>1. n \in Nat /\ (hint > 0 => n >= MinSlots) /\ (hint = 0 => n = 0)
  BY SlotCountIs DEF SlotCountForMinLive
<1>2. MinSlots \in Nat /\ MinSlots >= 4
  BY MinSlotsAssumption
<1>3. t = [entries |-> <<>>, slots |-> [i \in 0..(n - 1) |-> Empty], live |-> 0, tombs |-> 0]
  BY DEF WithCapacity
<1> HIDE DEF t, n
<1>4. t.entries = <<>> /\ t.slots = [i \in 0..(n - 1) |-> Empty] /\ t.live = 0 /\ t.tombs = 0
      /\ t = [entries |-> t.entries, slots |-> t.slots, live |-> t.live, tombs |-> t.tombs]
  BY <1>3
<1>5. LiveAt(t) = {}
  <2>1. Len(t.entries) = 0 /\ 1..0 = {}
    BY <1>4
  <2> QED  BY <2>1 DEF LiveAt
<1>6. TombsOf(t) = {}
  BY <1>4 DEF TombsOf, Empty, Tombstone
<1>7. EntriesOK(t)
  <2>1. <<>> \in Seq(Slot)
    OBVIOUS
  <2> QED  BY <1>4, <1>5, <2>1 DEF EntriesOK
<1>8. Seated(t.slots, n, t.entries, LiveAt(t))
  <2> DEFINE s == [i \in 0..(n - 1) |-> Empty]
  <2>1. s \in [0..(n - 1) -> Int] /\ \A p \in 0..(n - 1) : s[p] = 0
    BY DEF Empty
  <2> HIDE DEF s
  <2>2. Seated(s, n, t.entries, {})
    BY <2>1 DEF Seated, Empty
  <2> QED  BY <1>4, <1>5, <2>2 DEF s
<1>9. Cardinality({}) = 0
  BY FS_EmptySet
<1>10. TableOf(t, n)
  BY <1>1, <1>4, <1>5, <1>6, <1>7, <1>8, <1>9 DEF TableOf
<1>11. n = 0 \/ (n >= MinSlots /\ t.live + t.tombs < n)
  <2>1. t.live + t.tombs = 0
    BY <1>4
  <2> QED  BY <1>1, <1>2, <2>1
<1>12. Snapshot(t) = <<>>
  <2>1. Enumerates(<<>>, {})
    BY DEF Enumerates
  <2>2. Snapshot(t) \in Seq(Entry) /\ Len(Snapshot(t)) = Len(<<>>)
    <3>1. Shows(Snapshot(t), t.entries, LiveAt(t), <<>>)
      BY <1>5, <1>7, <2>1, SnapshotAt
    <3> QED  BY <3>1 DEF Shows
  <2> QED  BY <2>2
<1> QED  BY <1>10, <1>11, <1>12 DEF TableOK, t

\* from_indexmap: a table filled from a list of entries lists them again.
LEMMA FilledIs ==
  ASSUME NEW s \in Seq(Entry), Distinct(s), \A i \in 1..Len(s) : s[i].key \in Primitive
  PROVE  TableOK(Filled(s)) /\ Snapshot(Filled(s)) = s
<1> DEFINE n == Len(s)
           c == WithCapacity(n)
           next(x, i) == Insert(x, s[i].key, s[i].value)
           Fill(f, k) == f = [i \in 0..k |-> IF i = 0 THEN c ELSE next(f[i - 1], i)]
           fill == CHOOSE f : Fill(f, n)
           First(i) == [j \in 1..i |-> s[j]]
<1>0. n \in Nat /\ TableOK(c) /\ Snapshot(c) = <<>>
  <2>1. n \in Nat
    OBVIOUS
  <2> QED  BY <2>1, WithCapacityIs
<1>1. Filled(s) = fill[n]
  BY DEF Filled
<1> HIDE DEF n, c, next
<1>2. \E f : Fill(f, n)
  <2> DEFINE X == {k \in 0..n : \E f : Fill(f, k)}
  <2>1. 0 \in X
    <3>1. Fill([i \in 0..0 |-> c], 0)
      OBVIOUS
    <3>2. \E f : Fill(f, 0)
      BY <3>1, Zenon
    <3>3. 0 \in 0..n
      BY <1>0
    <3> HIDE DEF Fill
    <3> QED  BY <3>2, <3>3
  <2>2. ASSUME NEW k \in 1..n, k - 1 \in X
        PROVE  k \in X
    <3>1. PICK f : Fill(f, k - 1)
      BY <2>2
    <3> DEFINE g == [i \in 0..k |-> IF i = k THEN next(f[k - 1], k) ELSE f[i]]
    <3>2. k \in Nat /\ k > 0
      BY <1>0
    <3>3. \A i \in 0..(k - 1) : f[i] = IF i = 0 THEN c ELSE next(f[i - 1], i)
      BY <3>1, Zenon
    <3>4. ASSUME NEW i \in 0..k
          PROVE  g[i] = IF i = 0 THEN c ELSE next(g[i - 1], i)
      <4>1. CASE i = k
        BY <3>2, <4>1
      <4>2. CASE i = 0
        <5>1. 0 \in 0..(k - 1) /\ 0 # k
          BY <3>2
        <5>2. f[0] = c
          BY <3>3, <5>1
        <5>3. g[0] = f[0]
          BY <3>2, <5>1
        <5> QED  BY <4>2, <5>2, <5>3
      <4>3. CASE i # k /\ i # 0
        <5>1. i \in 0..(k - 1) /\ i - 1 \in 0..k /\ i - 1 # k
          BY <3>2, <4>3
        <5>2. g[i] = f[i] /\ g[i - 1] = f[i - 1]
          BY <4>3, <5>1
        <5>3. f[i] = next(f[i - 1], i)
          BY <3>3, <4>3, <5>1
        <5> QED  BY <4>3, <5>2, <5>3
      <4> QED  BY <4>1, <4>2, <4>3
    <3>5. g = [i \in 0..k |-> g[i]]
      OBVIOUS
    <3> HIDE DEF g
    <3>6. Fill(g, k)
      BY <3>4, <3>5, Zenon
    <3>7. k \in 0..n
      BY <1>0
    <3> QED  BY <3>6, <3>7
  <2>3. \A k \in 0..n : k \in X
    <3> HIDE DEF X
    <3> QED  BY <1>0, <2>1, <2>2, Upwards, Zenon
  <2>4. n \in 0..n
    BY <1>0
  <2> QED  BY <2>3, <2>4
<1>3. Fill(fill, n)
  BY <1>2, Zenon
<1> HIDE DEF fill
<1>4. fill[0] = c /\ \A i \in 1..n : fill[i] = next(fill[i - 1], i)
  <2>1. \A i \in 0..n : fill[i] = IF i = 0 THEN c ELSE next(fill[i - 1], i)
    BY <1>3, Zenon
  <2> QED  BY <1>0, <2>1
<1> HIDE DEF Fill
<1> DEFINE Y == {i \in 0..n : TableOK(fill[i]) /\ Snapshot(fill[i]) = First(i)}
<1>5. 0 \in Y
  <2>1. First(0) = <<>>
    OBVIOUS
  <2> HIDE DEF First
  <2> QED  BY <1>0, <1>4, <2>1
<1>6. ASSUME NEW i \in 1..n, i - 1 \in Y
      PROVE  i \in Y
  <2> DEFINE k == s[i].key
             v == s[i].value
             a == First(i - 1)
  <2>1. TableOK(fill[i - 1]) /\ Snapshot(fill[i - 1]) = a /\ i \in 0..n
    BY <1>0, <1>6
  <2>2. s[i] \in Entry /\ s[i] = [key |-> k, value |-> v] /\ k \in Primitive /\ v \in Values
    <3>1. s[i] \in Entry
      BY DEF n
    <3> QED  BY <3>1 DEF Entry, n
  <2>3. TableOK(fill[i]) /\ Snapshot(fill[i]) = Association!Put(a, k, v)
    <3>1. fill[i] = Insert(fill[i - 1], k, v)
      BY <1>4 DEF next
    <3> HIDE DEF a, k, v
    <3> QED  BY <2>1, <2>2, <3>1, InsertIs
  <2>4. a \in Seq(Entry) /\ Len(a) = i - 1 /\ \A j \in 1..(i - 1) : a[j] = s[j]
    <3>1. i - 1 \in Nat /\ \A j \in 1..(i - 1) : j \in 1..n
      BY <1>0
    <3>2. \A j \in 1..(i - 1) : s[j] \in Entry
      BY <3>1 DEF n
    <3> QED  BY <3>1, <3>2
  <2> HIDE DEF a
  <2>5. Absent(a, k)
    <3> SUFFICES ASSUME NEW j \in 1..Len(a), ClassOf[a[j].key] = ClassOf[k]
                 PROVE  FALSE
      BY DEF Absent
    <3>1. j \in 1..(i - 1) /\ a[j] = s[j]
      BY <2>4
    <3>2. j \in 1..n /\ j # i
      BY <1>0, <3>1
    <3> QED  BY <3>1, <3>2 DEF Distinct, n
  <2>6. Association!Put(a, k, v) = Append(a, s[i])
    BY <2>2, <2>5, PutAbsent
  <2>7. Append(a, s[i]) = First(i)
    <3> DEFINE x == s[i]
    <3>1. /\ Append(a, x) \in Seq(Entry) /\ Len(Append(a, x)) = Len(a) + 1
          /\ Append(a, x)[Len(a) + 1] = x /\ \A j \in 1..Len(a) : Append(a, x)[j] = a[j]
      <4> HIDE DEF x
      <4> QED  BY <2>2, <2>4, AppendIs DEF x
    <3>2. i \in Nat /\ Len(a) + 1 = i
      BY <1>0, <2>4
    <3>3. First(i) \in Seq(Entry) /\ Len(First(i)) = i /\ \A j \in 1..i : First(i)[j] = s[j]
      <4>1. \A j \in 1..i : j \in 1..n
        BY <1>0
      <4>2. \A j \in 1..i : s[j] \in Entry
        BY <4>1 DEF n
      <4> QED  BY <3>2, <4>2
    <3>4. ASSUME NEW j \in 1..i
          PROVE  Append(a, x)[j] = First(i)[j]
      <4>1. j \in 1..(i - 1) \/ j = i
        BY <3>2
      <4> HIDE DEF First
      <4> QED  BY <2>4, <3>1, <3>2, <3>3, <4>1
    <3> HIDE DEF First, x
    <3>5. Append(a, x) = First(i)
      BY <3>1, <3>2, <3>3, <3>4, ListsEqual
    <3> QED  BY <3>5 DEF x
  <2> HIDE DEF First
  <2> QED  BY <2>1, <2>3, <2>6, <2>7
<1>7. \A i \in 0..n : i \in Y
  <2> HIDE DEF Y
  <2> QED  BY <1>0, <1>5, <1>6, Upwards, Zenon
<1>8. TableOK(fill[n]) /\ Snapshot(fill[n]) = First(n)
  <2>1. n \in 0..n
    BY <1>0
  <2> HIDE DEF First
  <2> QED  BY <1>7, <2>1
<1>9. First(n) = s
  BY DEF n
<1> QED  BY <1>1, <1>8, <1>9

(***************************************************************************)
(* Maps: the storages together.                                            *)
(***************************************************************************)

ListOK(s) == s \in Seq(Entry) /\ Distinct(s)

PrimitiveList(s) == ListOK(s) /\ \A i \in 1..Len(s) : s[i].key \in Primitive

PersistentOK(p) ==
  \/ \E s : p = PrimitiveMap(s) /\ PrimitiveList(s)
  \/ \E t : p = GenericMap(t) /\ BucketOK(t)

MutableOK(m) ==
  \/ \E hint \in Nat : m = NoStorage(hint)
  \/ \E t : m = ProbeStorage(t) /\ TableOK(t)
  \/ \E p : m = GenericStorage(p) /\ PersistentOK(p)

\* A primitive key is equal to no other key.
LEMMA PrimitiveClass ==
  ASSUME NEW j \in Primitive, NEW k \in Keys
  PROVE  ClassOf[j] = ClassOf[k] <=> j = k
BY KeysAssumption

\* A list of primitive keys has none of another kind.
LEMMA OtherAbsent ==
  ASSUME NEW s, PrimitiveList(s), NEW k \in Other
  PROVE  Absent(s, k)
<1> SUFFICES ASSUME NEW i \in 1..Len(s), ClassOf[s[i].key] = ClassOf[k]
             PROVE  FALSE
  BY DEF Absent
<1>1. s[i].key \in Primitive /\ k \in Keys
  BY DEF PrimitiveList, Keys
<1>2. s[i].key = k
  BY <1>1, PrimitiveClass
<1> QED  BY <1>1, <1>2, KeysAssumption

\* The hash map of the indexmap crate puts an entry as an association list does.
LEMMA IndexMapInsertIs ==
  ASSUME NEW s, PrimitiveList(s), NEW k \in Primitive, NEW v \in Values
  PROVE  PrimitiveList(IndexMapInsert(s, k, v)) /\ IndexMapInsert(s, k, v) = Association!Put(s, k, v)
<1>0. /\ s \in Seq(Entry) /\ Distinct(s) /\ Len(s) \in Nat
      /\ \A i \in 1..Len(s) : s[i].key \in Primitive
  BY DEF PrimitiveList, ListOK
<1>1. k \in Keys /\ \A i \in 1..Len(s) : ClassOf[s[i].key] = ClassOf[k] <=> s[i].key = k
  <2>1. k \in Keys
    BY DEF Keys
  <2> QED  BY <1>0, <2>1, PrimitiveClass
<1>2. CASE \E i \in 1..Len(s) : s[i].key = k
  <2>1. PICK i \in 1..Len(s) : s[i].key = k
    BY <1>2
  <2>2. ClassOf[s[i].key] = ClassOf[k]
    BY <2>1
  <2>3. Association!Put(s, k, v) = SetValue(s, i, v)
    BY <1>0, <1>1, <2>2, PutPresent
  <2>4. IndexMapInsert(s, k, v) = Association!Put(s, k, v)
    <3>1. IndexMapInsert(s, k, v)
            = [j \in 1..Len(s) |-> IF s[j].key = k THEN [s[j] EXCEPT !.value = v] ELSE s[j]]
      BY <1>2 DEF IndexMapInsert
    <3>2. Association!Put(s, k, v)
            = [j \in 1..Len(s) |-> IF ClassOf[s[j].key] = ClassOf[k] THEN [s[j] EXCEPT !.value = v] ELSE s[j]]
      BY <2>2 DEF Association!Put, Association!SameKey
    <3> QED  BY <1>1, <3>1, <3>2
  <2>5. PrimitiveList(SetValue(s, i, v))
    <3>1. /\ SetValue(s, i, v) \in Seq(Entry) /\ Len(SetValue(s, i, v)) = Len(s)
          /\ \A j \in 1..Len(s) : SetValue(s, i, v)[j].key = s[j].key
      BY <1>0, SetValueIs
    <3>2. Distinct(SetValue(s, i, v))
      BY <1>0, StayDistinct
    <3> QED  BY <1>0, <3>1, <3>2 DEF PrimitiveList, ListOK
  <2> QED  BY <2>3, <2>4, <2>5
<1>3. CASE ~\E i \in 1..Len(s) : s[i].key = k
  <2> DEFINE x == [key |-> k, value |-> v]
  <2>1. Absent(s, k)
    BY <1>1, <1>3 DEF Absent
  <2>2. Association!Put(s, k, v) = Append(s, x)
    BY <2>1, PutAbsent
  <2>3. IndexMapInsert(s, k, v) = Append(s, x)
    BY <1>3 DEF IndexMapInsert
  <2>4. Distinct(Append(s, x))
    BY <1>0, <1>1, <2>1, StayDistinct
  <2>5. x \in Entry /\ x.key = k
    BY <1>1 DEF Entry
  <2> HIDE DEF x
  <2>6. /\ Append(s, x) \in Seq(Entry) /\ Len(Append(s, x)) = Len(s) + 1 /\ Append(s, x)[Len(s) + 1] = x
        /\ \A j \in 1..Len(s) : Append(s, x)[j] = s[j]
    BY <1>0, <2>5, AppendIs
  <2>7. ASSUME NEW j \in 1..Len(Append(s, x))
        PROVE  Append(s, x)[j].key \in Primitive
    <3>1. j \in 1..Len(s) \/ j = Len(s) + 1
      BY <1>0, <2>6
    <3> QED  BY <1>0, <2>5, <2>6, <3>1
  <2>8. PrimitiveList(Append(s, x))
    BY <2>4, <2>6, <2>7 DEF PrimitiveList, ListOK
  <2> QED  BY <2>2, <2>3, <2>8
<1> QED  BY <1>2, <1>3

\* shift_remove of that crate takes the entry out of the list.
LEMMA IndexMapRemoveIs ==
  ASSUME NEW s, PrimitiveList(s), NEW k \in Primitive
  PROVE  PrimitiveList(IndexMapShiftRemove(s, k)) /\ IndexMapShiftRemove(s, k) = Association!Without(s, k)
<1>0. /\ s \in Seq(Entry) /\ Distinct(s) /\ Len(s) \in Nat
      /\ \A i \in 1..Len(s) : s[i].key \in Primitive
  BY DEF PrimitiveList, ListOK
<1>1. k \in Keys /\ \A i \in 1..Len(s) : ClassOf[s[i].key] = ClassOf[k] <=> s[i].key = k
  <2>1. k \in Keys
    BY DEF Keys
  <2> QED  BY <1>0, <2>1, PrimitiveClass
<1>2. CASE \E i \in 1..Len(s) : s[i].key = k
  <2>1. PICK i \in 1..Len(s) : s[i].key = k
    BY <1>2
  <2>2. Association!Without(s, k) = Delete(s, i)
    BY <1>0, <2>1, WithoutPresent
  <2>3. IndexMapShiftRemove(s, k) = Delete(s, i)
    <3>1. \A j \in 1..Len(s) : s[j].key = k <=> j = i
      BY <1>0, <1>1, <2>1 DEF Distinct
    <3>2. (CHOOSE j \in 1..Len(s) : s[j].key = k) = i
      BY <3>1
    <3> QED  BY <1>2, <3>2, Zenon DEF IndexMapShiftRemove
  <2>4. PrimitiveList(Delete(s, i))
    <3>1. /\ Delete(s, i) \in Seq(Entry) /\ Len(Delete(s, i)) = Len(s) - 1
          /\ \A j \in 1..(Len(s) - 1) : Delete(s, i)[j] = IF j < i THEN s[j] ELSE s[j + 1]
      BY <1>0, DeleteIs
    <3>2. Distinct(Delete(s, i))
      BY <1>0, StayDistinct
    <3>3. ASSUME NEW j \in 1..Len(Delete(s, i))
          PROVE  Delete(s, i)[j].key \in Primitive
      <4>1. j \in 1..Len(s) /\ j + 1 \in 1..Len(s) /\ Delete(s, i)[j] = IF j < i THEN s[j] ELSE s[j + 1]
        BY <1>0, <3>1
      <4> QED  BY <1>0, <4>1
    <3> QED  BY <3>1, <3>2, <3>3 DEF PrimitiveList, ListOK
  <2> QED  BY <2>2, <2>3, <2>4
<1>3. CASE ~\E i \in 1..Len(s) : s[i].key = k
  <2>1. Absent(s, k)
    BY <1>1, <1>3 DEF Absent
  <2>2. Association!Without(s, k) = s
    BY <2>1, WithoutAbsent
  <2> QED  BY <1>3, <2>2 DEF IndexMapShiftRemove
<1> QED  BY <1>2, <1>3

\* The two forms of a Map
LEMMA PersistentForms ==
  ASSUME NEW s
  PROVE  /\ PrimitiveMap(s).kind = "primitive" /\ Entries(PrimitiveMap(s)) = s
         /\ PrimitiveMap(s).entries = s /\ ToGeneric(PrimitiveMap(s)) = BucketsFromEntries(s)
         /\ GenericMap(s).kind = "generic" /\ Entries(GenericMap(s)) = s.entries
         /\ GenericMap(s).table = s /\ ToGeneric(GenericMap(s)) = s
<1>1. /\ PrimitiveMap(s).kind = "primitive" /\ PrimitiveMap(s).entries = s
      /\ GenericMap(s).kind = "generic" /\ GenericMap(s).table = s
  BY DEF PrimitiveMap, GenericMap
<1>2. "primitive" # "generic"
  OBVIOUS
<1> QED  BY <1>1, <1>2 DEF Entries, ToGeneric

\* A Map holds a list with one entry per key.
LEMMA PersistentList ==
  ASSUME NEW p, PersistentOK(p)
  PROVE  ListOK(Entries(p))
<1>1. CASE \E s : p = PrimitiveMap(s) /\ PrimitiveList(s)
  BY <1>1, PersistentForms DEF PrimitiveList
<1>2. CASE \E t : p = GenericMap(t) /\ BucketOK(t)
  BY <1>2, PersistentForms DEF BucketOK, ListOK
<1> QED  BY <1>1, <1>2 DEF PersistentOK

\* It inserts as an association list does, whichever storage it has, in place
\* and persistently.
LEMMA PersistentInsertIs ==
  ASSUME NEW p, PersistentOK(p), NEW k \in Keys, NEW v \in Values
  PROVE  /\ PersistentOK(MapInsert(p, k, v)) /\ Entries(MapInsert(p, k, v)) = Association!Put(Entries(p), k, v)
         /\ PersistentOK(InsertPersistent(p, k, v))
         /\ Entries(InsertPersistent(p, k, v)) = Association!Put(Entries(p), k, v)
<1>0. (k \in Primitive \/ k \in Other) /\ "primitive" # "generic"
  BY DEF Keys
<1>1. ASSUME NEW s, p = PrimitiveMap(s), PrimitiveList(s)
      PROVE  /\ PersistentOK(MapInsert(p, k, v)) /\ Entries(MapInsert(p, k, v)) = Association!Put(Entries(p), k, v)
             /\ InsertPersistent(p, k, v) = MapInsert(p, k, v)
  <2>1. p.kind = "primitive" /\ p.kind # "generic" /\ Entries(p) = s /\ p.entries = s
        /\ ToGeneric(p) = BucketsFromEntries(s)
    BY <1>0, <1>1, PersistentForms
  <2>2. s \in Seq(Entry) /\ Distinct(s)
    BY <1>1 DEF PrimitiveList, ListOK
  <2>3. InsertPersistent(p, k, v) = MapInsert(p, k, v)
    BY <2>1 DEF InsertPersistent
  <2>4. CASE k \in Primitive
    <3>1. PrimitiveList(IndexMapInsert(s, k, v)) /\ IndexMapInsert(s, k, v) = Association!Put(s, k, v)
      BY <1>1, <2>4, IndexMapInsertIs
    <3>2. MapInsert(p, k, v) = PrimitiveMap(IndexMapInsert(s, k, v))
      BY <2>1, <2>4 DEF MapInsert
    <3>3. PersistentOK(MapInsert(p, k, v)) /\ Entries(MapInsert(p, k, v)) = Association!Put(s, k, v)
      BY <3>1, <3>2, PersistentForms DEF PersistentOK
    <3> QED  BY <2>1, <2>3, <3>3
  <2>5. CASE k \in Other
    <3>1. k \notin Primitive
      BY <2>5, KeysAssumption
    <3> DEFINE t == BucketsFromEntries(s)
    <3>2. BucketOK(t) /\ t.entries = s
      BY <2>2, BuiltOK
    <3> HIDE DEF t
    <3>3. MapInsert(p, k, v) = GenericMap(BucketInsert(t, k, v))
      BY <2>1, <3>1 DEF MapInsert, t
    <3>4. BucketOK(BucketInsert(t, k, v)) /\ BucketInsert(t, k, v).entries = Association!Put(s, k, v)
      BY <3>2, BucketInsertIs
    <3>5. PersistentOK(MapInsert(p, k, v)) /\ Entries(MapInsert(p, k, v)) = Association!Put(s, k, v)
      BY <3>3, <3>4, PersistentForms DEF PersistentOK
    <3> QED  BY <2>1, <2>3, <3>5
  <2> QED  BY <1>0, <2>4, <2>5
<1>2. ASSUME NEW t, p = GenericMap(t), BucketOK(t)
      PROVE  /\ PersistentOK(MapInsert(p, k, v)) /\ Entries(MapInsert(p, k, v)) = Association!Put(Entries(p), k, v)
             /\ PersistentOK(InsertPersistent(p, k, v))
             /\ Entries(InsertPersistent(p, k, v)) = Association!Put(Entries(p), k, v)
  <2>1. p.kind # "primitive" /\ p.kind = "generic" /\ Entries(p) = t.entries /\ p.table = t /\ ToGeneric(p) = t
    BY <1>0, <1>2, PersistentForms
  <2>2. /\ BucketOK(BucketInsert(t, k, v))
        /\ BucketInsert(t, k, v).entries = Association!Put(t.entries, k, v)
        /\ BucketOK(BucketInsertPersistent(t, k, v))
        /\ BucketInsertPersistent(t, k, v).entries = Association!Put(t.entries, k, v)
    BY <1>2, BucketInsertIs
  <2>3. /\ MapInsert(p, k, v) = GenericMap(BucketInsert(t, k, v))
        /\ \/ InsertPersistent(p, k, v) = GenericMap(BucketInsertPersistent(t, k, v))
           \/ InsertPersistent(p, k, v) = MapInsert(p, k, v)
    BY <2>1 DEF MapInsert, InsertPersistent
  <2>4. \A b : BucketOK(b) => PersistentOK(GenericMap(b)) /\ Entries(GenericMap(b)) = b.entries
    BY PersistentForms DEF PersistentOK
  <2> QED  BY <2>1, <2>2, <2>3, <2>4
<1>3. \/ \E s : p = PrimitiveMap(s) /\ PrimitiveList(s)
      \/ \E t : p = GenericMap(t) /\ BucketOK(t)
  BY DEF PersistentOK
<1> QED  BY <1>1, <1>2, <1>3

\* And it removes as an association list does.
LEMMA PersistentRemoveIs ==
  ASSUME NEW p, PersistentOK(p), NEW k \in Keys
  PROVE  /\ PersistentOK(MapRemove(p, k)) /\ Entries(MapRemove(p, k)) = Association!Without(Entries(p), k)
         /\ PersistentOK(RemovePersistent(p, k))
         /\ Entries(RemovePersistent(p, k)) = Association!Without(Entries(p), k)
<1>0. (k \in Primitive \/ k \in Other) /\ "primitive" # "generic"
  BY DEF Keys
<1>1. ASSUME NEW s, p = PrimitiveMap(s), PrimitiveList(s)
      PROVE  /\ PersistentOK(MapRemove(p, k)) /\ Entries(MapRemove(p, k)) = Association!Without(Entries(p), k)
             /\ RemovePersistent(p, k) = MapRemove(p, k)
  <2>1. p.kind = "primitive" /\ p.kind # "generic" /\ Entries(p) = s /\ p.entries = s
    BY <1>0, <1>1, PersistentForms
  <2>2. RemovePersistent(p, k) = MapRemove(p, k)
    BY <2>1 DEF RemovePersistent
  <2>3. CASE k \in Primitive
    <3>1. PrimitiveList(IndexMapShiftRemove(s, k)) /\ IndexMapShiftRemove(s, k) = Association!Without(s, k)
      BY <1>1, <2>3, IndexMapRemoveIs
    <3>2. MapRemove(p, k) = PrimitiveMap(IndexMapShiftRemove(s, k))
      BY <2>1, <2>3 DEF MapRemove
    <3>3. PersistentOK(MapRemove(p, k)) /\ Entries(MapRemove(p, k)) = Association!Without(s, k)
      BY <3>1, <3>2, PersistentForms DEF PersistentOK
    <3> QED  BY <2>1, <2>2, <3>3
  <2>4. CASE k \in Other
    <3>1. k \notin Primitive
      BY <2>4, KeysAssumption
    <3>2. MapRemove(p, k) = p
      BY <2>1, <3>1 DEF MapRemove
    <3>3. Association!Without(s, k) = s
      BY <1>1, <2>4, OtherAbsent, WithoutAbsent
    <3> QED  BY <2>1, <2>2, <3>2, <3>3
  <2> QED  BY <1>0, <2>3, <2>4
<1>2. ASSUME NEW t, p = GenericMap(t), BucketOK(t)
      PROVE  /\ PersistentOK(MapRemove(p, k)) /\ Entries(MapRemove(p, k)) = Association!Without(Entries(p), k)
             /\ PersistentOK(RemovePersistent(p, k))
             /\ Entries(RemovePersistent(p, k)) = Association!Without(Entries(p), k)
  <2>1. p.kind = "generic" /\ Entries(p) = t.entries /\ p.table = t
    BY <1>2, PersistentForms
  <2>2. /\ BucketOK(BucketRemove(t, k))
        /\ BucketRemove(t, k).entries = Association!Without(t.entries, k)
        /\ BucketOK(BucketRemovePersistent(t, k))
        /\ BucketRemovePersistent(t, k).entries = Association!Without(t.entries, k)
    BY <1>2, BucketRemoveIs
  <2>3. /\ MapRemove(p, k) = GenericMap(BucketRemove(t, k))
        /\ RemovePersistent(p, k) = GenericMap(BucketRemovePersistent(t, k))
    BY <2>1 DEF MapRemove, RemovePersistent
  <2>4. \A b : BucketOK(b) => PersistentOK(GenericMap(b)) /\ Entries(GenericMap(b)) = b.entries
    BY PersistentForms DEF PersistentOK
  <2> QED  BY <2>1, <2>2, <2>3, <2>4
<1>3. \/ \E s : p = PrimitiveMap(s) /\ PrimitiveList(s)
      \/ \E t : p = GenericMap(t) /\ BucketOK(t)
  BY DEF PersistentOK
<1> QED  BY <1>1, <1>2, <1>3

\* The three forms of a MutableMap
LEMMA MutableForms ==
  ASSUME NEW x
  PROVE  /\ NoStorage(x).kind = "empty" /\ NoStorage(x).hint = x
         /\ SnapshotOf(NoStorage(x)) = PrimitiveMap(<<>>)
         /\ ProbeStorage(x).kind = "probe" /\ ProbeStorage(x).table = x
         /\ SnapshotOf(ProbeStorage(x)) = PrimitiveMap(Snapshot(x))
         /\ GenericStorage(x).kind = "map" /\ GenericStorage(x).map = x /\ SnapshotOf(GenericStorage(x)) = x
<1>1. /\ NoStorage(x).kind = "empty" /\ NoStorage(x).hint = x
      /\ ProbeStorage(x).kind = "probe" /\ ProbeStorage(x).table = x
      /\ GenericStorage(x).kind = "map" /\ GenericStorage(x).map = x
  BY DEF NoStorage, ProbeStorage, GenericStorage
<1>2. "empty" # "probe" /\ "empty" # "map" /\ "probe" # "map"
  OBVIOUS
<1> QED  BY <1>1, <1>2 DEF SnapshotOf

\* The entries of each form, in their order
LEMMA StorageLists ==
  ASSUME NEW x
  PROVE  /\ Entries(SnapshotOf(NoStorage(x))) = <<>>
         /\ Entries(SnapshotOf(ProbeStorage(x))) = Snapshot(x)
         /\ Entries(SnapshotOf(GenericStorage(x))) = Entries(x)
<1>1. /\ SnapshotOf(NoStorage(x)) = PrimitiveMap(<<>>)
      /\ SnapshotOf(ProbeStorage(x)) = PrimitiveMap(Snapshot(x)) /\ SnapshotOf(GenericStorage(x)) = x
  BY MutableForms, Zenon
<1>2. Entries(PrimitiveMap(<<>>)) = <<>> /\ Entries(PrimitiveMap(Snapshot(x))) = Snapshot(x)
  BY PersistentForms, Zenon
<1> QED  BY <1>1, <1>2

\* A table's snapshot is a list of primitive keys.
LEMMA TableList ==
  ASSUME NEW t, TableOK(t)
  PROVE  PrimitiveList(Snapshot(t)) /\ EntriesOK(t)
<1>1. EntriesOK(t)
  BY DEF TableOK, TableOf
<1> QED  BY <1>1, SnapshotDistinct DEF PrimitiveList, ListOK

\* A MutableMap, converted, is a Map.
LEMMA MutableSnapshot ==
  ASSUME NEW m, MutableOK(m)
  PROVE  PersistentOK(SnapshotOf(m))
<1>1. CASE \E hint \in Nat : m = NoStorage(hint)
  <2>1. PrimitiveList(<<>>)
    <3>1. <<>> \in Seq(Entry) /\ 1..Len(<<>>) = {}
      OBVIOUS
    <3> QED  BY <3>1 DEF PrimitiveList, ListOK, Distinct
  <2> QED  BY <1>1, <2>1, MutableForms DEF PersistentOK
<1>2. CASE \E t : m = ProbeStorage(t) /\ TableOK(t)
  BY <1>2, MutableForms, TableList DEF PersistentOK
<1>3. CASE \E p : m = GenericStorage(p) /\ PersistentOK(p)
  BY <1>3, MutableForms
<1> QED  BY <1>1, <1>2, <1>3 DEF MutableOK

\* A MutableMap inserts as an association list does, through its changes of
\* storage.
LEMMA MutableInsertIs ==
  ASSUME NEW m, MutableOK(m), NEW k \in Keys, NEW v \in Values
  PROVE  /\ MutableOK(InsertMutable(m, k, v))
         /\ Entries(SnapshotOf(InsertMutable(m, k, v))) = Association!Put(Entries(SnapshotOf(m)), k, v)
<1>0. "empty" # "probe" /\ "empty" # "map" /\ "probe" # "map"
  OBVIOUS
<1>1. CASE m.kind = "map" \/ k \in Other
  <2> DEFINE p == SnapshotOf(m)
             q == MapInsert(p, k, v)
  <2>1. InsertMutable(m, k, v) = GenericStorage(q)
    BY <1>1 DEF InsertMutable
  <2>2. PersistentOK(p)
    BY MutableSnapshot
  <2> HIDE DEF p
  <2>3. PersistentOK(q) /\ Entries(q) = Association!Put(Entries(p), k, v)
    BY <2>2, PersistentInsertIs
  <2> HIDE DEF q
  <2>4. SnapshotOf(GenericStorage(q)) = q /\ MutableOK(GenericStorage(q))
    BY <2>3, MutableForms DEF MutableOK
  <2> QED  BY <2>1, <2>3, <2>4 DEF p
<1>2. CASE ~(m.kind = "map" \/ k \in Other)
  <2> DEFINE t == IF m.kind = "empty" THEN WithCapacity(m.hint) ELSE m.table
  <2>1. InsertMutable(m, k, v) = ProbeStorage(Insert(t, k, v)) /\ k \in Primitive
    BY <1>2 DEF InsertMutable, Keys
  <2>2. TableOK(t) /\ Entries(SnapshotOf(m)) = Snapshot(t)
    <3>1. ASSUME NEW hint \in Nat, m = NoStorage(hint)
          PROVE  TableOK(t) /\ Entries(SnapshotOf(m)) = Snapshot(t)
      <4>1. t = WithCapacity(hint) /\ Entries(SnapshotOf(m)) = <<>>
        BY <3>1, MutableForms, PersistentForms
      <4> QED  BY <4>1, WithCapacityIs
    <3>2. ASSUME NEW u, m = ProbeStorage(u), TableOK(u)
          PROVE  TableOK(t) /\ Entries(SnapshotOf(m)) = Snapshot(t)
      <4>1. m.kind # "empty" /\ m.table = u
        BY <1>0, <3>2, MutableForms
      <4>2. Entries(SnapshotOf(m)) = Snapshot(u)
        BY <3>2, StorageLists, Zenon
      <4>3. t = u
        BY <4>1, Zenon
      <4> HIDE DEF t
      <4> QED  BY <3>2, <4>2, <4>3, Zenon
    <3>3. ~\E p : m = GenericStorage(p) /\ PersistentOK(p)
      BY <1>2, MutableForms
    <3> HIDE DEF t
    <3> QED  BY <3>1, <3>2, <3>3 DEF MutableOK
  <2> HIDE DEF t
  <2>3. TableOK(Insert(t, k, v)) /\ Snapshot(Insert(t, k, v)) = Association!Put(Snapshot(t), k, v)
    BY <2>1, <2>2, InsertIs
  <2>4. Entries(SnapshotOf(ProbeStorage(Insert(t, k, v)))) = Snapshot(Insert(t, k, v))
    BY StorageLists, Zenon
  <2>5. MutableOK(ProbeStorage(Insert(t, k, v)))
    BY <2>3 DEF MutableOK
  <2> QED  BY <2>1, <2>2, <2>3, <2>4, <2>5
<1> QED  BY <1>1, <1>2

\* And it removes as an association list does.
LEMMA MutableRemoveIs ==
  ASSUME NEW m, MutableOK(m), NEW k \in Keys
  PROVE  /\ MutableOK(RemoveMutable(m, k))
         /\ Entries(SnapshotOf(RemoveMutable(m, k))) = Association!Without(Entries(SnapshotOf(m)), k)
<1>0. "empty" # "probe" /\ "empty" # "map" /\ "probe" # "map"
  OBVIOUS
<1>1. ASSUME Absent(Entries(SnapshotOf(m)), k), RemoveMutable(m, k) = m
      PROVE  /\ MutableOK(RemoveMutable(m, k))
             /\ Entries(SnapshotOf(RemoveMutable(m, k))) = Association!Without(Entries(SnapshotOf(m)), k)
  BY <1>1, WithoutAbsent
<1>2. ASSUME NEW hint \in Nat, m = NoStorage(hint)
      PROVE  Absent(Entries(SnapshotOf(m)), k) /\ RemoveMutable(m, k) = m
  <2>1. Entries(SnapshotOf(m)) = <<>> /\ m.kind = "empty"
    BY <1>2, MutableForms, StorageLists, Zenon
  <2>2. Absent(<<>>, k)
    <3>1. 1..Len(<<>>) = {}
      OBVIOUS
    <3> QED  BY <3>1 DEF Absent
  <2> QED  BY <1>0, <2>1, <2>2 DEF RemoveMutable
<1>3. ASSUME NEW t, m = ProbeStorage(t), TableOK(t)
      PROVE  /\ MutableOK(RemoveMutable(m, k))
             /\ Entries(SnapshotOf(RemoveMutable(m, k))) = Association!Without(Entries(SnapshotOf(m)), k)
  <2>1. m.kind = "probe" /\ m.table = t /\ Entries(SnapshotOf(m)) = Snapshot(t)
    BY <1>3, MutableForms, StorageLists, Zenon
  <2>2. RemoveMutable(m, k) = IF k \in Primitive THEN ProbeStorage(Remove(t, k)) ELSE m
    BY <1>0, <2>1 DEF RemoveMutable
  <2>3. CASE k \in Primitive
    <3>1. TableOK(Remove(t, k)) /\ Snapshot(Remove(t, k)) = Association!Without(Snapshot(t), k)
      BY <1>3, <2>3, RemoveIs
    <3>2. MutableOK(ProbeStorage(Remove(t, k)))
      BY <3>1 DEF MutableOK
    <3>3. Entries(SnapshotOf(ProbeStorage(Remove(t, k)))) = Snapshot(Remove(t, k))
      BY StorageLists, Zenon
    <3> QED  BY <2>1, <2>2, <2>3, <3>1, <3>2, <3>3
  <2>4. CASE k \notin Primitive
    <3>1. k \in Other
      BY <2>4 DEF Keys
    <3>2. Absent(Snapshot(t), k)
      BY <1>3, <3>1, TableList, OtherAbsent
    <3> QED  BY <1>1, <2>1, <2>2, <2>4, <3>2
  <2> QED  BY <2>3, <2>4
<1>4. ASSUME NEW p, m = GenericStorage(p), PersistentOK(p)
      PROVE  /\ MutableOK(RemoveMutable(m, k))
             /\ Entries(SnapshotOf(RemoveMutable(m, k))) = Association!Without(Entries(SnapshotOf(m)), k)
  <2> DEFINE q == MapRemove(p, k)
  <2>1. m.kind = "map" /\ m.map = p /\ SnapshotOf(m) = p
    BY <1>4, MutableForms
  <2>2. RemoveMutable(m, k) = GenericStorage(q)
    BY <1>0, <2>1 DEF RemoveMutable
  <2>3. PersistentOK(q) /\ Entries(q) = Association!Without(Entries(p), k)
    BY <1>4, PersistentRemoveIs
  <2> HIDE DEF q
  <2>4. SnapshotOf(GenericStorage(q)) = q /\ MutableOK(GenericStorage(q))
    BY <2>3, MutableForms DEF MutableOK
  <2> QED  BY <2>1, <2>2, <2>3, <2>4
<1>5. \/ \E hint \in Nat : m = NoStorage(hint)
      \/ \E t : m = ProbeStorage(t) /\ TableOK(t)
      \/ \E p : m = GenericStorage(p) /\ PersistentOK(p)
  BY DEF MutableOK
<1> QED  BY <1>1, <1>2, <1>3, <1>4, <1>5

\* A Map, converted, is a MutableMap with the same entries.
LEMMA FromMapIs ==
  ASSUME NEW p, PersistentOK(p)
  PROVE  MutableOK(FromMap(p)) /\ Entries(SnapshotOf(FromMap(p))) = Entries(p)
<1>0. "primitive" # "generic"
  OBVIOUS
<1>1. ASSUME NEW s, p = PrimitiveMap(s), PrimitiveList(s)
      PROVE  MutableOK(FromMap(p)) /\ Entries(SnapshotOf(FromMap(p))) = Entries(p)
  <2>1. FromMap(p) = ProbeStorage(Filled(s)) /\ Entries(p) = s
    BY <1>0, <1>1, PersistentForms DEF FromMap
  <2>2. TableOK(Filled(s)) /\ Snapshot(Filled(s)) = s
    BY <1>1, FilledIs DEF PrimitiveList, ListOK
  <2>3. Entries(SnapshotOf(ProbeStorage(Filled(s)))) = Snapshot(Filled(s))
    BY StorageLists, Zenon
  <2> QED  BY <2>1, <2>2, <2>3 DEF MutableOK
<1>2. ASSUME NEW t, p = GenericMap(t), BucketOK(t)
      PROVE  MutableOK(FromMap(p)) /\ Entries(SnapshotOf(FromMap(p))) = Entries(p)
  <2>1. FromMap(p) = GenericStorage(p)
    BY <1>2, PersistentForms DEF FromMap
  <2> QED  BY <2>1, MutableForms DEF MutableOK
<1>3. \/ \E s : p = PrimitiveMap(s) /\ PrimitiveList(s)
      \/ \E t : p = GenericMap(t) /\ BucketOK(t)
  BY DEF PersistentOK
<1> QED  BY <1>1, <1>2, <1>3

(***************************************************************************)
(* The theorems.                                                           *)
(***************************************************************************)

\* What every operation keeps: the representation of both maps is sound.
MapsInv == use \in Uses /\ MutableOK(mutable) /\ PersistentOK(persistent)

\* A program that starts with two empty maps starts with sound ones.
LEMMA MapsInitially ==
  ASSUME MapsInit
  PROVE  MapsInv /\ Association!Init
<1>1. MutableOK(NoStorage(0))
  BY DEF MutableOK
<1>2. SnapshotOf(NoStorage(0)) = PrimitiveMap(<<>>)
  BY MutableForms
<1>3. PersistentOK(PrimitiveMap(<<>>))
  BY <1>1, <1>2, MutableSnapshot
<1>4. Entries(PrimitiveMap(<<>>)) = <<>>
  BY PersistentForms
<1> QED  BY <1>1, <1>2, <1>3, <1>4 DEF MapsInit, MapsInv, Association!Init

\* Every operation keeps them sound, and is an operation on the lists.
LEMMA MapsStep ==
  ASSUME MapsInv, [MapsNext]_mapVars
  PROVE  MapsInv' /\ [Association!Next]_<<Entries(SnapshotOf(mutable)), Entries(persistent)>>
<1> DEFINE a == Entries(SnapshotOf(mutable))
           b == Entries(persistent)
<1>0. /\ use \in Uses /\ MutableOK(mutable) /\ PersistentOK(persistent)
      /\ use.keys \subseteq Keys /\ use.values \subseteq Values /\ use.hints \subseteq Nat
  BY UsesAssumption DEF MapsInv
<1>1. CASE UNCHANGED mapVars
  BY <1>1, SMTT(20) DEF mapVars, MapsInv
<1>2. ASSUME NEW hint \in use.hints, New(hint)
      PROVE  MapsInv' /\ Association!Next
  <2>1. mutable' = NoStorage(hint) /\ UNCHANGED <<persistent, use>> /\ hint \in Nat
    BY <1>0, <1>2 DEF New
  <2>2. Entries(SnapshotOf(mutable')) = <<>>
    BY <2>1, StorageLists, Zenon
  <2>3. MutableOK(mutable')
    BY <2>1, SMTT(20) DEF MutableOK
  <2> QED  BY <1>0, <2>1, <2>2, <2>3, SMTT(20) DEF MapsInv, Association!Next
<1>3. ASSUME NEW k \in use.keys, NEW v \in use.values, InsertM(k, v)
      PROVE  MapsInv' /\ Association!Next
  <2>1. mutable' = InsertMutable(mutable, k, v) /\ UNCHANGED <<persistent, use>> /\ k \in Keys /\ v \in Values
    BY <1>0, <1>3 DEF InsertM
  <2>2. MutableOK(mutable') /\ Entries(SnapshotOf(mutable')) = Association!Put(a, k, v)
    BY <1>0, <2>1, MutableInsertIs, SMTT(20)
  <2> QED  BY <1>0, <2>1, <2>2, SMTT(20) DEF MapsInv, Association!Next, Association!Edited
<1>4. ASSUME NEW k \in use.keys, RemoveM(k)
      PROVE  MapsInv' /\ Association!Next
  <2>1. mutable' = RemoveMutable(mutable, k) /\ UNCHANGED <<persistent, use>> /\ k \in Keys
    BY <1>0, <1>4 DEF RemoveM
  <2>2. MutableOK(mutable') /\ Entries(SnapshotOf(mutable')) = Association!Without(a, k)
    BY <1>0, <2>1, MutableRemoveIs, SMTT(20)
  <2> QED  BY <1>0, <2>1, <2>2, SMTT(20) DEF MapsInv, Association!Next, Association!Edited
<1>5. ASSUME NEW k \in use.keys, NEW v \in use.values, InsertP(k, v)
      PROVE  MapsInv' /\ Association!Next
  <2>1. persistent' = InsertPersistent(persistent, k, v) /\ UNCHANGED <<mutable, use>> /\ k \in Keys /\ v \in Values
    BY <1>0, <1>5, SMTT(20) DEF InsertP
  <2>2. PersistentOK(persistent') /\ Entries(persistent') = Association!Put(b, k, v)
    BY <1>0, <2>1, PersistentInsertIs, SMTT(20)
  <2> QED  BY <1>0, <2>1, <2>2, SMTT(20) DEF MapsInv, Association!Next, Association!Edited
<1>6. ASSUME NEW k \in use.keys, RemoveP(k)
      PROVE  MapsInv' /\ Association!Next
  <2>1. persistent' = RemovePersistent(persistent, k) /\ UNCHANGED <<mutable, use>> /\ k \in Keys
    BY <1>0, <1>6 DEF RemoveP
  <2>2. PersistentOK(persistent') /\ Entries(persistent') = Association!Without(b, k)
    BY <1>0, <2>1, PersistentRemoveIs
  <2> QED  BY <1>0, <2>1, <2>2, SMTT(20) DEF MapsInv, Association!Next, Association!Edited
<1>7. CASE ToMutable
  <2>1. mutable' = FromMap(persistent) /\ UNCHANGED <<persistent, use>>
    BY <1>7 DEF ToMutable
  <2>2. MutableOK(mutable') /\ Entries(SnapshotOf(mutable')) = b
    BY <1>0, <2>1, FromMapIs, SMTT(20)
  <2> QED  BY <1>0, <2>1, <2>2 DEF MapsInv, Association!Next
<1>8. CASE ToPersistent
  <2>1. persistent' = SnapshotOf(mutable) /\ UNCHANGED <<mutable, use>>
    BY <1>8 DEF ToPersistent
  <2>2. PersistentOK(persistent') /\ Entries(persistent') = a
    BY <1>0, <2>1, MutableSnapshot
  <2> QED  BY <1>0, <2>1, <2>2 DEF MapsInv, Association!Next
<1> QED  BY <1>1, <1>2, <1>3, <1>4, <1>5, <1>6, <1>7, <1>8 DEF MapsNext

\* A table that has slots has a free one.
LEMMA SoundProbesEnd ==
  ASSUME MapsInv
  PROVE  ProbesEnd
<1>0. "empty" # "probe" /\ "empty" # "map" /\ "probe" # "map"
  OBVIOUS
<1> SUFFICES ASSUME mutable.kind = "probe", NumSlots(mutable.table) > 0
             PROVE  \E i \in DOMAIN mutable.table.slots : mutable.table.slots[i] = Empty
  BY DEF ProbesEnd
<1>1. PICK t : mutable = ProbeStorage(t) /\ TableOK(t)
  BY <1>0, MutableForms DEF MapsInv, MutableOK
<1>2. mutable.table = t
  BY <1>1, MutableForms
<1>3. PICK n : TableOf(t, n) /\ (n = 0 \/ (n >= MinSlots /\ t.live + t.tombs < n))
  BY <1>1 DEF TableOK
<1>4. /\ n \in Nat /\ NumSlots(t) = n /\ DOMAIN t.slots = 0..(n - 1)
      /\ LiveAt(t) \in SUBSET (Nat \ {0}) /\ IsFiniteSet(LiveAt(t))
  BY <1>3, TableParts
<1>5. t.live + t.tombs < n
  BY <1>2, <1>3, <1>4
<1>6. /\ Seated(t.slots, n, t.entries, LiveAt(t))
      /\ t.live = Cardinality(LiveAt(t)) /\ t.tombs = Cardinality({p \in 0..(n - 1) : t.slots[p] = Tombstone})
  BY <1>3, <1>4 DEF TableOf, TombsOf
<1>7. \E p \in 0..(n - 1) : t.slots[p] = Empty
  BY <1>4, <1>5, <1>6, FreeSlot
<1> QED  BY <1>2, <1>4, <1>7

\* What BucketsIndexEntries says of one table
IndexedOnce(t) ==
  /\ \A h \in DOMAIN t.buckets :
       /\ t.buckets[h] # <<>>
       /\ \A x \in 1..Len(t.buckets[h]) :
            LET i == t.buckets[h][x]
            IN  i \in 1..Len(t.entries) /\ HashOf[t.entries[i].key] = h
  /\ \A i \in 1..Len(t.entries) :
       LET h == HashOf[t.entries[i].key]
       IN  /\ h \in DOMAIN t.buckets
           /\ Cardinality({x \in 1..Len(t.buckets[h]) : t.buckets[h][x] = i}) = 1

\* The buckets of a sound map name every entry once.
LEMMA SoundBuckets ==
  ASSUME NEW t, BucketOK(t)
  PROVE  IndexedOnce(t)
<1> DEFINE s == t.entries
           bs == t.buckets
           hash == Hashes(s)
<1>1. s \in Seq(Entry) /\ Indexes(bs, hash)
  BY SMTT(20) DEF BucketOK
<1>2. Len(hash) = Len(s) /\ \A i \in 1..Len(s) : hash[i] = HashOf[s[i].key]
  BY <1>1, HashesOf DEF Hashes
<1> HIDE DEF hash
<1>3. IndexesAt(bs, hash, 1..Len(s))
  BY <1>1, <1>2 DEF Indexes
<1> HIDE DEF s, bs
<1>4. \A h \in DOMAIN bs :
        /\ bs[h] # <<>>
        /\ \A x \in 1..Len(bs[h]) : bs[h][x] \in 1..Len(s) /\ HashOf[s[bs[h][x]].key] = h
  <2> SUFFICES ASSUME NEW h \in DOMAIN bs
               PROVE  /\ bs[h] # <<>>
                      /\ \A x \in 1..Len(bs[h]) : bs[h][x] \in 1..Len(s) /\ HashOf[s[bs[h][x]].key] = h
    OBVIOUS
  <2>1. bs[h] # <<>> /\ \A x \in 1..Len(bs[h]) : bs[h][x] \in 1..Len(s) /\ hash[bs[h][x]] = h
    BY <1>3, Zenon DEF IndexesAt
  <2> QED  BY <1>2, <2>1, Zenon
<1>5. ASSUME NEW i \in 1..Len(s)
      PROVE  /\ hash[i] \in DOMAIN bs
             /\ Cardinality({x \in 1..Len(bs[hash[i]]) : bs[hash[i]][x] = i}) = 1
  <2> DEFINE bucket == bs[hash[i]]
             X == {x \in 1..Len(bucket) : bucket[x] = i}
  <2>1. hash[i] \in DOMAIN bs /\ \E x \in 1..Len(bucket) : bucket[x] = i
    BY <1>3, Zenon DEF IndexesAt
  <2>2. \A x, y \in 1..Len(bucket) : bucket[x] = bucket[y] => x = y
    BY <1>3, <2>1 DEF IndexesAt
  <2>3. PICK x \in 1..Len(bucket) : bucket[x] = i
    BY <2>1
  <2>4. X = {x}
    <3> HIDE DEF bucket
    <3> QED  BY <2>2, <2>3
  <2>5. Cardinality({x}) = 1
    BY FS_Singleton, Zenon
  <2> HIDE DEF X
  <2>6. Cardinality(X) = 1
    BY <2>4, <2>5
  <2> QED  BY <2>1, <2>6 DEF X
<1>6. \A i \in 1..Len(s) :
        /\ HashOf[s[i].key] \in DOMAIN bs
        /\ Cardinality({x \in 1..Len(bs[HashOf[s[i].key]]) : bs[HashOf[s[i].key]][x] = i}) = 1
  BY <1>2, <1>5, Zenon
<1> QED  BY <1>4, <1>6, Zenon DEF IndexedOnce, s, bs

\* What the walk over a list of entries finds
LEMMA ListedIs ==
  ASSUME NEW s, ListOK(s), NEW k
  PROVE  /\ Absent(s, k) => Listed(s, k) = <<>>
         /\ \A i \in 1..Len(s) : ClassOf[s[i].key] = ClassOf[k] => Listed(s, k) = <<s[i].value>>
<1> DEFINE at == {i \in 1..Len(s) : ClassOf[s[i].key] = ClassOf[k]}
<1>0. Listed(s, k) = IF at = {} THEN <<>> ELSE <<s[CHOOSE i \in at : TRUE].value>>
  BY DEF Listed
<1>1. ASSUME Absent(s, k)
      PROVE  Listed(s, k) = <<>>
  <2>1. at = {}
    BY <1>1 DEF Absent
  <2> QED  BY <1>0, <2>1
<1>2. ASSUME NEW i \in 1..Len(s), ClassOf[s[i].key] = ClassOf[k]
      PROVE  Listed(s, k) = <<s[i].value>>
  <2>1. at = {i}
    BY <1>2 DEF ListOK, Distinct
  <2> HIDE DEF at
  <2>2. at # {} /\ (CHOOSE j \in at : TRUE) = i
    BY <2>1
  <2> QED  BY <1>0, <2>2, Zenon
<1> QED  BY <1>1, <1>2

\* find_index_with finds in a Map what the walk finds.
LEMMA PersistentLookup ==
  ASSUME NEW p, PersistentOK(p), NEW k \in Keys
  PROVE  GetPersistent(p, k) = Listed(Entries(p), k)
<1>0. "primitive" # "generic"
  OBVIOUS
<1> DEFINE s == Entries(p)
           i == MapFind(p, k)
<1>1. ListOK(s) /\ Len(s) \in Nat
  BY PersistentList DEF ListOK
<1>2. \/ i = 0 /\ Absent(s, k)
      \/ i \in 1..Len(s) /\ ClassOf[s[i].key] = ClassOf[k]
  <2>1. ASSUME NEW t, p = GenericMap(t), BucketOK(t)
        PROVE  \/ i = 0 /\ Absent(s, k)
               \/ i \in 1..Len(s) /\ ClassOf[s[i].key] = ClassOf[k]
    <3>1. i = FindIndex(t, k) /\ s = t.entries
      BY <2>1, PersistentForms DEF MapFind
    <3> HIDE DEF i, s
    <3> QED  BY <2>1, <3>1, FindIndexIs
  <2>2. ASSUME NEW r, p = PrimitiveMap(r), PrimitiveList(r)
        PROVE  \/ i = 0 /\ Absent(s, k)
               \/ i \in 1..Len(s) /\ ClassOf[s[i].key] = ClassOf[k]
    <3> DEFINE at == {j \in 1..Len(r) : r[j].key = k}
    <3>1. s = r /\ i = IF at = {} THEN 0 ELSE CHOOSE j \in at : TRUE
      <4>1. p.kind # "generic" /\ p.entries = r /\ s = r
        BY <1>0, <2>2, PersistentForms
      <4>2. i = LET here == {j \in 1..Len(p.entries) : p.entries[j].key = k}
                IN  IF here = {} THEN 0 ELSE CHOOSE j \in here : TRUE
        BY <4>1, Zenon DEF MapFind
      <4> HIDE DEF i, s
      <4> QED  BY <4>1, <4>2
    <3> HIDE DEF i, s
    <3>2. \A j \in 1..Len(r) : ClassOf[r[j].key] = ClassOf[k] <=> r[j].key = k
      BY <2>2, PrimitiveClass, Zenon DEF PrimitiveList
    <3>3. CASE at = {}
      <4>1. Absent(r, k)
        BY <3>2, <3>3 DEF Absent
      <4> QED  BY <3>1, <3>3, <4>1
    <3>4. CASE at # {}
      <4>1. (CHOOSE j \in at : TRUE) \in at
        BY <3>4
      <4>2. i \in at
        BY <3>1, <3>4, <4>1
      <4>3. i \in 1..Len(r) /\ r[i].key = k
        BY <4>2
      <4> QED  BY <3>1, <3>2, <4>3
    <3> QED  BY <3>3, <3>4
  <2>3. \/ \E r : p = PrimitiveMap(r) /\ PrimitiveList(r)
        \/ \E t : p = GenericMap(t) /\ BucketOK(t)
    BY DEF PersistentOK
  <2> HIDE DEF i, s
  <2> QED  BY <2>1, <2>2, <2>3
<1>3. GetPersistent(p, k) = IF i > 0 THEN <<s[i].value>> ELSE <<>>
  BY DEF GetPersistent
<1> HIDE DEF i, s
<1>4. CASE i = 0 /\ Absent(s, k)
  <2>1. Listed(s, k) = <<>>
    BY <1>1, <1>4, ListedIs, Zenon
  <2>2. GetPersistent(p, k) = <<>>
    BY <1>3, <1>4
  <2> QED  BY <2>1, <2>2, Zenon DEF s
<1>5. CASE i \in 1..Len(s) /\ ClassOf[s[i].key] = ClassOf[k]
  <2>1. i > 0
    BY <1>1, <1>5
  <2>2. Listed(s, k) = <<s[i].value>>
    BY <1>1, <1>5, ListedIs
  <2> QED  BY <1>3, <2>1, <2>2 DEF s
<1> QED  BY <1>2, <1>4, <1>5

\* A probe finds in a table what the walk over its snapshot finds.
LEMMA TableLookup ==
  ASSUME NEW t, TableOK(t), NEW k \in Primitive
  PROVE  Listed(Snapshot(t), k) = IF Lookup(t, k) > 0 THEN <<t.entries[Lookup(t, k)].value>> ELSE <<>>
<1> DEFINE e == Lookup(t, k)
           s == Snapshot(t)
<1>0. PICK n : TableOf(t, n) /\ (n = 0 \/ (n >= MinSlots /\ t.live + t.tombs < n))
  BY DEF TableOK
<1>1. n \in Nat /\ NumSlots(t) = n /\ EntriesOK(t) /\ LiveAt(t) \in SUBSET (Nat \ {0})
  BY <1>0, TableParts DEF TableOf
<1>2. ListOK(s)
  BY TableList DEF PrimitiveList
<1>3. \/ e \in LiveAt(t) /\ t.entries[e].key = k
      \/ e = 0 /\ \A i \in LiveAt(t) : t.entries[i].key # k
  <2>1. CASE n = 0
    <3>1. e = 0
      BY <1>1, <2>1 DEF Lookup
    <3>2. LiveAt(t) = {}
      BY <1>0, <2>1, NoSlotsNoEntries
    <3> QED  BY <3>1, <3>2
  <2>2. CASE n >= MinSlots /\ t.live + t.tombs < n
    <3>1. n > 0
      BY <1>1, <2>2, MinSlotsAssumption, SMTT(20)
    <3>2. \/ e \in LiveAt(t) /\ t.entries[e].key = k
          \/ e = Empty /\ \A i \in LiveAt(t) : t.entries[i].key # k
      BY <1>0, <2>2, <3>1, ProbeStops
    <3> QED  BY <3>2 DEF Empty
  <2> QED  BY <1>0, <2>1, <2>2
<1> HIDE DEF e
<1>4. CASE e = 0 /\ \A i \in LiveAt(t) : t.entries[i].key # k
  <2>1. Absent(s, k)
    BY <1>1, <1>4, SnapshotDistinct
  <2>2. Listed(s, k) = <<>>
    BY <1>2, <2>1, ListedIs
  <2> QED  BY <1>4, <2>2 DEF e
<1>5. CASE e \in LiveAt(t) /\ t.entries[e].key = k
  <2>1. PICK at : Enumerates(at, LiveAt(t))
    BY <1>1, SnapshotIs
  <2>2. PICK x \in 1..Len(at) : at[x] = e
    BY <1>5, <2>1 DEF Enumerates
  <2>3. Len(s) = Len(at) /\ s[x] = [key |-> t.entries[at[x]].key, value |-> t.entries[at[x]].value]
    <3>1. /\ Len(s) = Len(at)
          /\ \A j \in 1..Len(at) : s[j] = [key |-> t.entries[at[j]].key, value |-> t.entries[at[j]].value]
      <4>1. Shows(s, t.entries, LiveAt(t), at)
        BY <1>1, <2>1, SnapshotAt
      <4> HIDE DEF s
      <4> QED  BY <4>1, Zenon DEF Shows
    <3> QED  BY <2>2, <3>1, Zenon
  <2>4. s[x].key = k /\ s[x].value = t.entries[e].value /\ x \in 1..Len(s)
    <3>1. s[x].key = t.entries[e].key /\ s[x].value = t.entries[e].value
      <4> HIDE DEF s
      <4>1. s[x] = [key |-> t.entries[e].key, value |-> t.entries[e].value]
        BY <2>2, <2>3, Zenon
      <4> QED  BY <4>1
    <3> QED  BY <1>5, <2>2, <2>3, <3>1, Zenon
  <2>5. Listed(s, k) = <<s[x].value>>
    BY <1>2, <2>4, ListedIs
  <2>6. e > 0
    <3>1. e \in Nat \ {0}
      BY <1>1, <1>5, Zenon
    <3> QED  BY <3>1
  <2> QED  BY <2>4, <2>5, <2>6 DEF e
<1> QED  BY <1>3, <1>4, <1>5

\* get_cloned_with finds in a MutableMap what the walk finds.
LEMMA MutableLookup ==
  ASSUME NEW m, MutableOK(m), NEW k \in Keys
  PROVE  GetMutable(m, k) = Listed(Entries(SnapshotOf(m)), k)
<1>0. "empty" # "probe" /\ "empty" # "map" /\ "probe" # "map"
  OBVIOUS
<1> DEFINE s == Entries(SnapshotOf(m))
<1>1. ListOK(s)
  BY MutableSnapshot, PersistentList
<1>2. ASSUME NEW hint \in Nat, m = NoStorage(hint)
      PROVE  GetMutable(m, k) = Listed(s, k)
  <2>1. m.kind = "empty" /\ s = <<>>
    BY <1>2, MutableForms, StorageLists, Zenon
  <2>2. GetMutable(m, k) = <<>>
    BY <1>0, <2>1 DEF GetMutable
  <2>3. Absent(s, k)
    <3>1. 1..Len(s) = {}
      BY <2>1
    <3> QED  BY <3>1 DEF Absent
  <2> HIDE DEF s
  <2> QED  BY <1>1, <2>2, <2>3, ListedIs
<1>3. ASSUME NEW t, m = ProbeStorage(t), TableOK(t)
      PROVE  GetMutable(m, k) = Listed(s, k)
  <2>1. m.kind = "probe" /\ m.table = t /\ s = Snapshot(t)
    BY <1>3, MutableForms, StorageLists, Zenon
  <2>2. GetMutable(m, k) = IF k \in Primitive /\ Lookup(t, k) > 0 THEN <<t.entries[Lookup(t, k)].value>> ELSE <<>>
    BY <1>0, <2>1 DEF GetMutable
  <2> HIDE DEF s
  <2>3. CASE k \in Primitive
    BY <1>3, <2>1, <2>2, <2>3, TableLookup, SMTT(20)
  <2>4. CASE k \notin Primitive
    <3>1. k \in Other
      BY <2>4 DEF Keys
    <3>2. Absent(s, k)
      BY <1>3, <2>1, <3>1, TableList, OtherAbsent
    <3> QED  BY <1>1, <2>2, <2>4, <3>2, ListedIs
  <2> QED  BY <2>3, <2>4
<1>4. ASSUME NEW p, m = GenericStorage(p), PersistentOK(p)
      PROVE  GetMutable(m, k) = Listed(s, k)
  <2>1. m.kind = "map" /\ m.map = p /\ s = Entries(p)
    BY <1>4, MutableForms
  <2>2. GetMutable(m, k) = GetPersistent(p, k)
    BY <1>0, <2>1 DEF GetMutable, GetPersistent
  <2> QED  BY <1>4, <2>1, <2>2, PersistentLookup
<1>5. \/ \E hint \in Nat : m = NoStorage(hint)
      \/ \E t : m = ProbeStorage(t) /\ TableOK(t)
      \/ \E p : m = GenericStorage(p) /\ PersistentOK(p)
  BY DEF MutableOK
<1> HIDE DEF s
<1>6. GetMutable(m, k) = Listed(s, k)
  BY <1>2, <1>3, <1>4, <1>5
<1> QED  BY <1>6 DEF s

\* The representation of both maps is sound in every state.
THEOREM MapsSound == MapsSpec => []MapsInv
<1>1. MapsInit => MapsInv
  BY MapsInitially
<1>2. MapsInv /\ [MapsNext]_mapVars => MapsInv'
  BY MapsStep
<1> QED  BY <1>1, <1>2, PTL DEF MapsSpec

\* The probe loops of lookup, find_slot_index_for_insert and rehash end: a
\* table that has slots has an empty one, for every hash function and every
\* sequence of insertions, removals and rehashes.
THEOREM ProbesAlwaysEnd == MapsSpec => []ProbesEnd
<1>1. MapsInv => ProbesEnd
  BY SoundProbesEnd
<1> QED  BY <1>1, MapsSound, PTL

\* The buckets of GenericMapValue name every entry once and nothing else,
\* through removals that move entries and copies that build them again.
THEOREM BucketsAlwaysIndex == MapsSpec => []BucketsIndexEntries
<1>1. ASSUME MapsInv
      PROVE  BucketsIndexEntries
  <2>0. "primitive" # "generic" /\ "empty" # "probe" /\ "empty" # "map" /\ "probe" # "map"
    OBVIOUS
  <2>1. ASSUME NEW p \in {persistent} \cup (IF mutable.kind = "map" THEN {mutable.map} ELSE {}), p.kind = "generic"
        PROVE  BucketOK(p.table)
    <3>1. PersistentOK(p)
      <4>1. CASE p = persistent
        BY <1>1, <4>1 DEF MapsInv
      <4>2. CASE mutable.kind = "map" /\ p = mutable.map
        <5>1. PICK q : mutable = GenericStorage(q) /\ PersistentOK(q)
          BY <1>1, <2>0, <4>2, MutableForms DEF MapsInv, MutableOK
        <5> QED  BY <4>2, <5>1, MutableForms
      <4> QED  BY <2>1, <4>1, <4>2
    <3>2. PICK t : p = GenericMap(t) /\ BucketOK(t)
      BY <2>0, <2>1, <3>1, PersistentForms DEF PersistentOK
    <3> QED  BY <3>2, PersistentForms
  <2>2. ASSUME NEW p \in {persistent} \cup (IF mutable.kind = "map" THEN {mutable.map} ELSE {}), p.kind = "generic"
        PROVE  IndexedOnce(p.table)
    BY <2>1, <2>2, SoundBuckets
  <2> QED  BY <2>2, Zenon DEF BucketsIndexEntries, IndexedOnce
<1> QED  BY <1>1, MapsSound, PTL

\* A lookup by hash and a walk over the entries find the same value, of
\* present and of absent keys, in every storage.
THEOREM LookupsAlwaysAgree == MapsSpec => []LookupsAgree
<1>1. ASSUME MapsInv
      PROVE  LookupsAgree
  BY <1>1, MutableLookup, PersistentLookup DEF MapsInv, LookupsAgree
<1> QED  BY <1>1, MapsSound, PTL

\* MutableMap and Map, with their tables, buckets, rehashes and changes of
\* storage, implement association lists in order of first insertion.
THEOREM MapsRefineLists == MapsSpec => RefinesOrderedMap
<1>1. MapsInit => Association!Init
  BY MapsInitially
<1>2. MapsInv /\ [MapsNext]_mapVars
        => [Association!Next]_<<Entries(SnapshotOf(mutable)), Entries(persistent)>>
  BY MapsStep
<1> QED  BY <1>1, <1>2, MapsSound, PTL DEF MapsSpec, RefinesOrderedMap, Association!Spec
=============================================================================
