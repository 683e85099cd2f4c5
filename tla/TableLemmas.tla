---------------------------- MODULE TableLemmas -----------------------------
(***************************************************************************)
(* What the proofs about maps rest on: recursion over a vector, the items  *)
(* kept of one, lists of entries; the buckets over such a list, with what  *)
(* find_index_with, insert_with, remove_with and their persistent forms do *)
(* to them; the slots of an open-addressing table, where a probe of them   *)
(* stops, and the list of live entries they hold.                          *)
(***************************************************************************)
EXTENDS Maps, FiniteSetTheorems, TLAPS

(***************************************************************************)
(* Induction, as the least counterexample, and recursion.                  *)
(***************************************************************************)

\* A set of numbers has a least one.
LEMMA LeastNumber ==
  ASSUME NEW X \in SUBSET Nat, X # {}
  PROVE  \E m \in X : \A k \in X : m <= k
<1>1. PICK m \in X : \A k \in X : <<k, m>> \notin OpToRel(<, Nat)
  BY NatLessThanWellFounded, WFMin
<1>2. \A k \in X : ~(k < m)
  BY <1>1, Zenon DEF OpToRel
<1> QED  BY <1>2

\* Min of the library is that number.
LEMMA MinIs ==
  ASSUME NEW X \in SUBSET Nat, X # {}
  PROVE  Min(X) \in X /\ \A k \in X : Min(X) <= k
<1>1. \E m \in X : \A k \in X : m <= k
  BY LeastNumber
<1> QED  BY <1>1 DEF Min

\* What holds at 0 and passes from each number below n to the next holds up
\* to n.
LEMMA Upwards ==
  ASSUME NEW n \in Nat, NEW X, 0 \in X, \A i \in 1..n : i - 1 \in X => i \in X
  PROVE  \A i \in 0..n : i \in X
<1> SUFFICES ASSUME NEW j \in 0..n, j \notin X
             PROVE  FALSE
  OBVIOUS
<1> DEFINE Y == {i \in 0..n : i \notin X}
<1>0. Y \in SUBSET Nat /\ Y # {}
  OBVIOUS
<1>1. PICK m \in Y : \A k \in Y : m <= k
  <2> HIDE DEF Y
  <2> QED  BY <1>0, LeastNumber
<1>2. m \in 1..n /\ m - 1 \in 0..n /\ m - 1 \notin Y
  BY <1>1
<1> QED  BY <1>1, <1>2

\* f is what the first value and the rule for the next make of 0..k.
Builds(f, k, S, c, G) ==
  f \in [0..k -> S] /\ f[0] = c /\ \A i \in 1..k : f[i] = G[i][f[i - 1]]

\* A first value and a rule for the next determine a function on 0..n.
LEMMA Recursion ==
  ASSUME NEW n \in Nat, NEW S, NEW c \in S, NEW G \in [1..n -> [S -> S]]
  PROVE  \E f : Builds(f, n, S, c, G)
<1> DEFINE X == {k \in 0..n : \E f : Builds(f, k, S, c, G)}
<1>1. 0 \in X
  <2>1. Builds([i \in 0..0 |-> c], 0, S, c, G)
    BY DEF Builds
  <2> QED  BY <2>1
<1>2. ASSUME NEW k \in 1..n, k - 1 \in X
      PROVE  k \in X
  <2>1. PICK f : Builds(f, k - 1, S, c, G)
    BY <1>2
  <2> DEFINE g == [i \in 0..k |-> IF i = k THEN G[k][f[k - 1]] ELSE f[i]]
  <2>2. g \in [0..k -> S]
    BY <2>1 DEF Builds
  <2>3. g[0] = c
    BY <2>1 DEF Builds
  <2>4. ASSUME NEW i \in 1..k PROVE g[i] = G[i][g[i - 1]]
    <3>1. CASE i = k
      BY <3>1
    <3>2. CASE i \in 1..(k - 1)
      BY <2>1, <3>2 DEF Builds
    <3> QED  BY <3>1, <3>2
  <2>5. Builds(g, k, S, c, G)
    <3> HIDE DEF g
    <3> QED  BY <2>2, <2>3, <2>4 DEF Builds
  <2> QED  BY <2>5
<1>3. n \in X
  <2> HIDE DEF X
  <2>1. \A i \in 0..n : i \in X
    BY <1>1, <1>2, Upwards, Zenon
  <2> QED  BY <2>1
<1> QED  BY <1>3

\* Lists of the same length with the same items are equal.
LEMMA ListsEqual ==
  ASSUME NEW T, NEW s \in Seq(T), NEW t \in Seq(T), Len(s) = Len(t), \A i \in 1..Len(s) : s[i] = t[i]
  PROVE  s = t
OBVIOUS

\* Append adds its item at the end.
LEMMA AppendIs ==
  ASSUME NEW T, NEW s \in Seq(T), NEW x \in T
  PROVE  /\ Append(s, x) \in Seq(T) /\ Len(Append(s, x)) = Len(s) + 1 /\ Len(s) \in Nat
         /\ Append(s, x) # <<>> /\ Append(s, x)[Len(s) + 1] = x
         /\ \A i \in 1..Len(s) : Append(s, x)[i] = s[i]
<1>1. Append(s, x) \in Seq(T) /\ Len(Append(s, x)) = Len(s) + 1 /\ Len(s) \in Nat
  OBVIOUS
<1>2. Append(s, x)[Len(s) + 1] = x /\ \A i \in 1..Len(s) : Append(s, x)[i] = s[i]
  OBVIOUS
<1>3. Append(s, x) # <<>>
  BY <1>1
<1> QED  BY <1>1, <1>2, <1>3

(***************************************************************************)
(* Positions in their order, and the items kept there.                     *)
(***************************************************************************)

\* at lists the members of P, the smaller first.
Enumerates(at, P) ==
  /\ at \in Seq(P)
  /\ \A i, j \in 1..Len(at) : i < j => at[i] < at[j]
  /\ \A p \in P : \E j \in 1..Len(at) : at[j] = p

\* The items of s at the positions at
Items(s, at) == [j \in 1..Len(at) |-> s[at[j]]]

\* Of two lists of one set the first agrees with the second as far as it goes.
LEMMA EnumerationsAgree ==
  ASSUME NEW P \in SUBSET Nat, NEW a, NEW b, Enumerates(a, P), Enumerates(b, P)
  PROVE  \A j \in 1..Len(a) : j \in 1..Len(b) /\ a[j] = b[j]
<1> DEFINE X == {j \in 1..Len(a) : ~(j \in 1..Len(b) /\ a[j] = b[j])}
<1> SUFFICES ASSUME X # {} PROVE FALSE
  OBVIOUS
<1>0. /\ Len(a) \in Nat /\ \A i \in 1..Len(a) : a[i] \in P
      /\ Len(b) \in Nat /\ \A i \in 1..Len(b) : b[i] \in P
  BY DEF Enumerates
<1>1. X \in SUBSET Nat
  BY <1>0
<1>2. PICK j \in X : \A k \in X : j <= k
  <2> HIDE DEF X
  <2> QED  BY <1>1, LeastNumber
<1>3. j \in 1..Len(a) /\ a[j] \in P /\ a[j] \in Nat
  BY <1>0
<1>4. \A i \in 1..(j - 1) : i \in 1..Len(b) /\ a[i] = b[i]
  BY <1>0, <1>2, <1>3
<1>5. PICK x \in 1..Len(b) : b[x] = a[j]
  BY <1>3 DEF Enumerates
<1>6. x >= j
  <2> SUFFICES ASSUME x < j PROVE FALSE
    BY <1>0, <1>3, <1>5
  <2>1. a[x] = a[j] /\ x \in 1..Len(a)
    BY <1>0, <1>3, <1>4, <1>5
  <2>2. a[x] < a[j]
    BY <1>3, <2>1 DEF Enumerates
  <2> QED  BY <1>3, <2>1, <2>2
<1>7. j \in 1..Len(b) /\ b[j] \in P /\ b[j] \in Nat
  <2>1. j \in 1..Len(b)
    BY <1>0, <1>3, <1>5, <1>6
  <2>2. b[j] \in P
    BY <1>0, <2>1
  <2> QED  BY <2>1, <2>2, Zenon
<1>8. b[j] <= a[j]
  <2>1. x = j \/ j < x
    BY <1>0, <1>3, <1>5, <1>6
  <2> QED  BY <1>3, <1>5, <1>7, <2>1 DEF Enumerates
<1>9. PICK y \in 1..Len(a) : a[y] = b[j]
  BY <1>7, Zenon DEF Enumerates
<1>10. y >= j
  <2> SUFFICES ASSUME y < j PROVE FALSE
    BY <1>0, <1>3, <1>9
  <2>1. b[y] = b[j] /\ y \in 1..Len(b)
    BY <1>0, <1>3, <1>4, <1>9
  <2>2. b[y] < b[j]
    BY <1>7, <2>1 DEF Enumerates
  <2> QED  BY <1>7, <2>1, <2>2
<1>11. a[j] <= b[j]
  <2>1. y = j \/ j < y
    BY <1>0, <1>3, <1>9, <1>10
  <2> QED  BY <1>3, <1>9, <1>7, <2>1 DEF Enumerates
<1>12. a[j] = b[j]
  BY <1>3, <1>7, <1>8, <1>11
<1> QED  BY <1>7, <1>12

\* A set of positions has one list.
LEMMA EnumerationUnique ==
  ASSUME NEW P \in SUBSET Nat, NEW a, NEW b, Enumerates(a, P), Enumerates(b, P)
  PROVE  a = b
<1>1. a \in Seq(P) /\ b \in Seq(P) /\ Len(a) \in Nat /\ Len(b) \in Nat
  BY DEF Enumerates
<1>2. \A j \in 1..Len(a) : j \in 1..Len(b) /\ a[j] = b[j]
  BY EnumerationsAgree
<1>3. \A j \in 1..Len(b) : j \in 1..Len(a) /\ b[j] = a[j]
  BY EnumerationsAgree
<1>4. Len(a) = Len(b)
  <2>1. Len(a) <= Len(b)
    <3>1. CASE Len(a) = 0
      BY <1>1, <3>1
    <3>2. CASE Len(a) \in 1..Len(a)
      BY <1>1, <1>2, <3>2
    <3> QED  BY <1>1, <3>1, <3>2
  <2>2. Len(b) <= Len(a)
    <3>1. CASE Len(b) = 0
      BY <1>1, <3>1
    <3>2. CASE Len(b) \in 1..Len(b)
      BY <1>1, <1>3, <3>2
    <3> QED  BY <1>1, <3>1, <3>2
  <2> QED  BY <1>1, <2>1, <2>2
<1> QED  BY <1>1, <1>2, <1>4, ListsEqual

\* The list of one more, larger, position
LEMMA EnumerationAppend ==
  ASSUME NEW P \in SUBSET Nat, NEW a, Enumerates(a, P), NEW n \in Nat, \A p \in P : p < n
  PROVE  Enumerates(Append(a, n), P \cup {n})
<1> DEFINE b == Append(a, n)
<1>1. a \in Seq(P) /\ Len(a) \in Nat
  BY DEF Enumerates
<1>2. b \in Seq(P \cup {n}) /\ Len(b) = Len(a) + 1 /\ b[Len(a) + 1] = n
  BY <1>1
<1>3. \A j \in 1..Len(a) : b[j] = a[j] /\ a[j] \in P
  BY <1>1
<1> HIDE DEF b
<1>4. ASSUME NEW i \in 1..Len(b), NEW j \in 1..Len(b), i < j
      PROVE  b[i] < b[j]
  <2>1. i \in 1..Len(a)
    BY <1>1, <1>2, <1>4
  <2>2. CASE j \in 1..Len(a)
    BY <1>3, <1>4, <2>1, <2>2 DEF Enumerates
  <2>3. CASE j = Len(a) + 1
    BY <1>2, <1>3, <2>1, <2>3, Zenon
  <2> QED  BY <1>1, <1>2, <2>2, <2>3
<1>5. ASSUME NEW p \in P \cup {n}
      PROVE  \E j \in 1..Len(b) : b[j] = p
  <2>1. CASE p = n
    BY <1>1, <1>2, <2>1
  <2>2. CASE p \in P
    <3>1. PICK j \in 1..Len(a) : a[j] = p
      BY <2>2 DEF Enumerates
    <3> QED  BY <1>1, <1>2, <1>3, <3>1
  <2> QED  BY <2>1, <2>2
<1>6. Enumerates(b, P \cup {n})
  BY <1>2, <1>4, <1>5 DEF Enumerates
<1> QED  BY <1>6 DEF b

\* The list of one position fewer
LEMMA EnumerationDelete ==
  ASSUME NEW P \in SUBSET Nat, NEW a, Enumerates(a, P), NEW x \in 1..Len(a)
  PROVE  Enumerates(Delete(a, x), P \ {a[x]})
<1> DEFINE b == Delete(a, x)
           Q == P \ {a[x]}
<1>0. a \in Seq(P) /\ Len(a) \in Nat /\ \A i \in 1..Len(a) : a[i] \in P
  BY DEF Enumerates
<1>1. Len(a) \in Nat /\ \A i \in 1..Len(a) : a[i] \in P /\ a[i] \in Nat
  BY <1>0, Zenon
<1>2. \A i, j \in 1..Len(a) : i < j => a[i] < a[j]
  BY DEF Enumerates
<1>3. \A i \in 1..Len(a) : i # x => a[i] \in Q
  <2> SUFFICES ASSUME NEW i \in 1..Len(a), i # x PROVE a[i] # a[x]
    BY <1>1
  <2>1. i < x \/ x < i
    BY <1>1
  <2> QED  BY <1>1, <1>2, <2>1
<1>4. b \in [1..(Len(a) - 1) -> Q]
  <2> SUFFICES ASSUME NEW j \in 1..(Len(a) - 1)
               PROVE  (IF j < x THEN a[j] ELSE a[j + 1]) \in Q
    BY DEF Delete
  <2> HIDE DEF Q
  <2>1. j \in 1..Len(a) /\ j + 1 \in 1..Len(a)
    BY <1>1
  <2>2. j < x => j # x
    BY <1>1
  <2>3. ~(j < x) => j + 1 # x
    BY <1>1
  <2> QED  BY <1>3, <2>1, <2>2, <2>3
<1>5. Len(a) - 1 \in Nat
  BY <1>1
<1>6. b \in Seq(Q) /\ Len(b) = Len(a) - 1
  <2> HIDE DEF b, Q
  <2> QED  BY <1>4, <1>5
<1>7. \A j \in 1..(Len(a) - 1) : b[j] = (IF j < x THEN a[j] ELSE a[j + 1])
  BY DEF Delete
<1>8. ASSUME NEW i \in 1..Len(b), NEW j \in 1..Len(b), i < j
      PROVE  b[i] < b[j]
  <2>0. i \in 1..(Len(a) - 1) /\ j \in 1..(Len(a) - 1)
    BY <1>6
  <2>1. i \in 1..Len(a) /\ j \in 1..Len(a) /\ i + 1 \in 1..Len(a) /\ j + 1 \in 1..Len(a)
    BY <1>1, <2>0
  <2>2. CASE j < x
    BY <1>2, <1>7, <1>8, <2>0, <2>1, <2>2
  <2>3. CASE i < x /\ ~(j < x)
    BY <1>2, <1>7, <1>8, <2>0, <2>1, <2>3
  <2>4. CASE ~(i < x) /\ ~(j < x)
    BY <1>2, <1>7, <1>8, <2>0, <2>1, <2>4
  <2> QED  BY <1>1, <1>8, <2>1, <2>2, <2>3, <2>4
<1>9. ASSUME NEW p \in Q
      PROVE  \E j \in 1..Len(b) : b[j] = p
  <2>1. PICK i \in 1..Len(a) : a[i] = p
    BY DEF Enumerates
  <2>2. i # x
    BY <2>1
  <2>3. CASE i < x
    <3>1. i \in 1..(Len(a) - 1)
      BY <1>1, <2>3
    <3> QED  BY <1>6, <1>7, <2>1, <2>3, <3>1
  <2>4. CASE x < i
    <3>1. i - 1 \in 1..(Len(a) - 1) /\ ~(i - 1 < x) /\ (i - 1) + 1 = i
      BY <1>1, <2>4
    <3>2. b[i - 1] = a[i]
      BY <1>7, <3>1
    <3> QED  BY <1>6, <2>1, <3>1, <3>2
  <2> QED  BY <1>1, <2>2, <2>3, <2>4
<1>10. Enumerates(b, Q)
  <2> HIDE DEF b, Q
  <2> QED  BY <1>6, <1>8, <1>9 DEF Enumerates
<1> QED  BY <1>10

\* The list of all positions
LEMMA EnumerationAll ==
  ASSUME NEW n \in Nat
  PROVE  Enumerates([i \in 1..n |-> i], 1..n)
<1> DEFINE a == [i \in 1..n |-> i]
<1>1. a \in Seq(1..n) /\ Len(a) = n /\ \A i \in 1..n : a[i] = i
  OBVIOUS
<1> HIDE DEF a
<1>2. Enumerates(a, 1..n)
  BY <1>1 DEF Enumerates
<1> QED  BY <1>2 DEF a

\* kept is the recursive function of Kept(s, P).
Keeps(kept, s, P, T) ==
  /\ kept \in [0..Len(s) -> Seq(T)] /\ kept[0] = <<>> /\ kept[Len(s)] = Kept(s, P)
  /\ \A i \in 1..Len(s) : kept[i] = IF i \in P THEN Append(kept[i - 1], s[i]) ELSE kept[i - 1]

\* That function satisfies the equation that defines it.
LEMMA KeptEquation ==
  ASSUME NEW T, NEW s \in Seq(T), NEW P
  PROVE  \E kept : Keeps(kept, s, P, T)
<1> DEFINE n == Len(s)
           next(i, x) == IF i \in P THEN Append(x, s[i]) ELSE x
           G == [i \in 1..n |-> [x \in Seq(T) |-> next(i, x)]]
           Eq(f) == f = [i \in 0..n |->
                           IF i = 0 THEN <<>> ELSE IF i \in P THEN Append(f[i - 1], s[i]) ELSE f[i - 1]]
           kept == CHOOSE f : Eq(f)
<1>0. n \in Nat /\ <<>> \in Seq(T)
  OBVIOUS
<1>1. \A i \in 1..n, x \in Seq(T) : next(i, x) \in Seq(T)
  OBVIOUS
<1>2. PICK f : Builds(f, n, Seq(T), <<>>, G)
  <2>1. G \in [1..n -> [Seq(T) -> Seq(T)]]
    <3> HIDE DEF next
    <3> QED  BY <1>1
  <2> HIDE DEF G, n
  <2> QED  BY <1>0, <2>1, Recursion, Zenon
<1>3. f \in [0..n -> Seq(T)] /\ f[0] = <<>> /\ \A i \in 1..n : f[i] = G[i][f[i - 1]]
  BY <1>2 DEF Builds
<1>4. \A i \in 1..n : f[i] = next(i, f[i - 1])
  <2> SUFFICES ASSUME NEW i \in 1..n PROVE f[i] = next(i, f[i - 1])
    OBVIOUS
  <2> HIDE DEF next
  <2>1. f[i - 1] \in Seq(T)
    <3>1. i - 1 \in 0..n
      BY <1>0
    <3> HIDE DEF G, n
    <3> QED  BY <1>3, <3>1
  <2> QED  BY <1>3, <2>1
<1>5. Eq(f)
  <2>1. f = [i \in 0..n |-> IF i = 0 THEN <<>> ELSE next(i, f[i - 1])]
    <3> HIDE DEF G, next, n
    <3>1. \A i \in 0..n : f[i] = IF i = 0 THEN <<>> ELSE next(i, f[i - 1])
      <4> SUFFICES ASSUME NEW i \in 0..n
                   PROVE  f[i] = IF i = 0 THEN <<>> ELSE next(i, f[i - 1])
        OBVIOUS
      <4>1. CASE i = 0
        BY <1>3, <4>1
      <4>2. CASE i \in 1..n
        BY <1>0, <1>4, <4>2
      <4> QED  BY <1>0, <4>1, <4>2
    <3> QED  BY <1>3, <3>1
  <2> QED  BY <2>1, Zenon
<1>6. kept = [i \in 0..n |-> IF i = 0 THEN <<>> ELSE next(i, kept[i - 1])]
  BY <1>5, Zenon
<1>7. Kept(s, P) = kept[n]
  BY DEF Kept
<1> HIDE DEF kept, next
<1>8. DOMAIN kept = 0..n /\ kept[0] = <<>> /\ \A i \in 1..n : kept[i] = next(i, kept[i - 1])
  <2> HIDE DEF n
  <2>1. DOMAIN kept = 0..n
    BY <1>6, Zenon
  <2>2. \A i \in 0..n : kept[i] = IF i = 0 THEN <<>> ELSE next(i, kept[i - 1])
    BY <1>6, Zenon
  <2> QED  BY <1>0, <2>1, <2>2
<1>9. \A i \in 0..n : kept[i] \in Seq(T)
  <2> DEFINE X == {i \in 0..n : kept[i] \in Seq(T)}
  <2> HIDE DEF n
  <2>1. 0 \in X
    <3>1. 0 \in 0..n /\ kept[0] \in Seq(T)
      BY <1>0, <1>8
    <3> QED  BY <3>1
  <2>2. ASSUME NEW i \in 1..n, i - 1 \in X PROVE i \in X
    <3>1. kept[i - 1] \in Seq(T) /\ i \in 0..n
      BY <1>0, <2>2
    <3>2. kept[i] \in Seq(T)
      BY <1>1, <1>8, <3>1
    <3> QED  BY <3>1, <3>2
  <2>3. \A i \in 0..n : i \in X
    <3> HIDE DEF X
    <3> QED  BY <1>0, <2>1, <2>2, Upwards
  <2> QED  BY <2>3
<1>10. kept \in [0..n -> Seq(T)]
  <2> HIDE DEF n
  <2>1. kept = [i \in 0..n |-> kept[i]]
    BY <1>6, <1>8, Zenon
  <2> QED  BY <1>9, <2>1
<1>11. Keeps(kept, s, P, T)
  BY <1>7, <1>8, <1>10 DEF Keeps, next
<1> QED  BY <1>11

\* Kept takes the items at the positions, in their order.
LEMMA KeptItems ==
  ASSUME NEW T, NEW s \in Seq(T), NEW P \in SUBSET (1..Len(s))
  PROVE  \E at : Enumerates(at, P) /\ Kept(s, P) = Items(s, at)
<1> DEFINE n == Len(s)
<1>0. n \in Nat
  OBVIOUS
<1>1. PICK kept : Keeps(kept, s, P, T)
  BY KeptEquation
<1>1a. /\ kept \in [0..n -> Seq(T)] /\ kept[0] = <<>> /\ Kept(s, P) = kept[n]
       /\ \A i \in 1..n : kept[i] = IF i \in P THEN Append(kept[i - 1], s[i]) ELSE kept[i - 1]
  BY <1>1 DEF Keeps
<1> DEFINE Good(i) == \E at : Enumerates(at, P \cap 1..i) /\ kept[i] = Items(s, at)
           X == {i \in 0..n : Good(i)}
<1>2. 0 \in X
  <2>1. Enumerates(<<>>, P \cap 1..0)
    BY DEF Enumerates
  <2>2. kept[0] = Items(s, <<>>)
    BY <1>1a DEF Items
  <2> QED  BY <1>0, <2>1, <2>2
<1>3. ASSUME NEW i \in 1..n, i - 1 \in X
      PROVE  i \in X
  <2>1. PICK at : Enumerates(at, P \cap 1..(i - 1)) /\ kept[i - 1] = Items(s, at)
    BY <1>3, Zenon
  <2>2. CASE i \notin P
    <3>1. P \cap 1..i = P \cap 1..(i - 1)
      BY <1>0, <2>2
    <3>2. kept[i] = Items(s, at)
      BY <1>1a, <2>1, <2>2
    <3>3. Good(i)
      BY <2>1, <3>1, <3>2
    <3> HIDE DEF Good
    <3> QED  BY <1>0, <3>3
  <2>3. CASE i \in P
    <3>1. P \cap 1..i = (P \cap 1..(i - 1)) \cup {i}
      BY <1>0, <2>3
    <3>2. Enumerates(Append(at, i), P \cap 1..i)
      <4>1. (P \cap 1..(i - 1)) \in SUBSET Nat /\ \A p \in P \cap 1..(i - 1) : p < i
        BY <1>0
      <4> QED  BY <2>1, <3>1, <4>1, EnumerationAppend
    <3>3. kept[i] = Items(s, Append(at, i))
      <4>1. at \in Seq(1..n)
        BY <1>0, <2>1 DEF Enumerates
      <4>2. Len(at) \in Nat /\ Len(Append(at, i)) = Len(at) + 1
        BY <4>1
      <4>3. Items(s, at) \in Seq(T) /\ Len(Items(s, at)) = Len(at)
        BY <4>1 DEF Items
      <4>4. kept[i] = Append(Items(s, at), s[i])
        BY <1>1a, <2>1, <2>3, Zenon
      <4>5. Items(s, Append(at, i)) \in Seq(T) /\ Len(Items(s, Append(at, i))) = Len(at) + 1
        BY <4>1, <4>2 DEF Items
      <4>6. Append(Items(s, at), s[i]) \in Seq(T) /\ Len(Append(Items(s, at), s[i])) = Len(at) + 1
        BY <4>3
      <4>7. ASSUME NEW j \in 1..(Len(at) + 1)
            PROVE  Append(Items(s, at), s[i])[j] = Items(s, Append(at, i))[j]
        <5>1. CASE j \in 1..Len(at)
          BY <4>1, <4>2, <4>3, <5>1 DEF Items
        <5>2. CASE j = Len(at) + 1
          BY <4>1, <4>2, <4>3, <5>2 DEF Items
        <5>3. j \in 1..Len(at) \/ j = Len(at) + 1
          BY <4>2
        <5> QED  BY <5>1, <5>2, <5>3
      <4> QED  BY <4>4, <4>5, <4>6, <4>7, ListsEqual
    <3>4. Good(i)
      BY <3>2, <3>3
    <3> HIDE DEF Good
    <3> QED  BY <1>0, <3>4
  <2> QED  BY <2>2, <2>3, Zenon
<1>4. n \in X
  <2> HIDE DEF X, n
  <2>1. \A i \in 0..n : i \in X
    BY <1>0, <1>2, <1>3, Upwards
  <2> QED  BY <1>0, <2>1
<1>5. P \cap 1..n = P
  BY Zenon
<1> QED  BY <1>1a, <1>4, <1>5, Zenon

\* A set of positions has a list.
LEMMA EnumerationExists ==
  ASSUME NEW n \in Nat, NEW P \in SUBSET (1..n)
  PROVE  \E at : Enumerates(at, P)
<1> DEFINE s == [i \in 1..n |-> i]
<1>1. s \in Seq(1..n) /\ Len(s) = n
  OBVIOUS
<1> HIDE DEF s
<1>2. P \in SUBSET (1..Len(s))
  BY <1>1
<1> QED  BY <1>1, <1>2, KeptItems, Zenon

\* Kept by the list of the positions
LEMMA KeptAt ==
  ASSUME NEW T, NEW s \in Seq(T), NEW P \in SUBSET (1..Len(s)), NEW at, Enumerates(at, P)
  PROVE  /\ Kept(s, P) = Items(s, at) /\ Kept(s, P) \in Seq(T)
         /\ Len(Kept(s, P)) = Len(at) /\ Len(at) \in Nat
         /\ \A j \in 1..Len(at) : at[j] \in P /\ Kept(s, P)[j] = s[at[j]]
<1>0. Len(s) \in Nat /\ P \in SUBSET Nat
  OBVIOUS
<1>1. PICK b : Enumerates(b, P) /\ Kept(s, P) = Items(s, b)
  BY KeptItems
<1>2. b = at
  BY <1>0, <1>1, EnumerationUnique
<1>3. at \in Seq(P) /\ Len(at) \in Nat
  BY DEF Enumerates
<1>4. \A j \in 1..Len(at) : at[j] \in P /\ s[at[j]] \in T
  <2> SUFFICES ASSUME NEW j \in 1..Len(at) PROVE at[j] \in P /\ s[at[j]] \in T
    OBVIOUS
  <2>1. at[j] \in P
    BY <1>3
  <2>2. at[j] \in 1..Len(s)
    BY <2>1, Zenon
  <2> QED  BY <2>1, <2>2
<1>5. Items(s, at) \in Seq(T) /\ Len(Items(s, at)) = Len(at)
  BY <1>3, <1>4 DEF Items
<1>6. \A j \in 1..Len(at) : Items(s, at)[j] = s[at[j]]
  BY DEF Items
<1> QED  BY <1>1, <1>2, <1>3, <1>4, <1>5, <1>6

\* One more item, at the end
LEMMA KeptAppend ==
  ASSUME NEW T, NEW s \in Seq(T), NEW x \in T, NEW P \in SUBSET (1..Len(s))
  PROVE  Kept(Append(s, x), P \cup {Len(s) + 1}) = Append(Kept(s, P), x)
<1> DEFINE n == Len(s)
           u == Append(s, x)
           Q == P \cup {n + 1}
<1>0. n \in Nat /\ P \in SUBSET Nat /\ n + 1 \in Nat /\ \A p \in P : p < n + 1
  OBVIOUS
<1>1. PICK at : Enumerates(at, P)
  BY <1>0, EnumerationExists, Zenon
<1> DEFINE bt == Append(at, n + 1)
<1>2. Enumerates(bt, Q)
  BY <1>0, <1>1, EnumerationAppend
<1>3. u \in Seq(T) /\ Len(u) = n + 1 /\ u[n + 1] = x /\ \A i \in 1..n : u[i] = s[i]
  OBVIOUS
<1>4. Q \in SUBSET (1..Len(u))
  <2>1. n + 1 \in 1..Len(u) /\ \A p \in P : p \in 1..Len(u)
    BY <1>0, <1>3
  <2> QED  BY <2>1, Zenon
<1>5. at \in Seq(P) /\ Len(at) \in Nat
  BY <1>1 DEF Enumerates
<1>6. Len(bt) = Len(at) + 1 /\ bt[Len(at) + 1] = n + 1 /\ \A j \in 1..Len(at) : bt[j] = at[j]
  BY <1>0, <1>5
<1> HIDE DEF bt, u, Q, n
<1>7. /\ Kept(s, P) \in Seq(T) /\ Len(Kept(s, P)) = Len(at)
      /\ \A j \in 1..Len(at) : at[j] \in P /\ Kept(s, P)[j] = s[at[j]]
  BY <1>1, KeptAt
<1>8. /\ Kept(u, Q) \in Seq(T) /\ Len(Kept(u, Q)) = Len(at) + 1
      /\ \A j \in 1..(Len(at) + 1) : Kept(u, Q)[j] = u[bt[j]]
  BY <1>2, <1>3, <1>4, <1>6, KeptAt
<1>9. /\ Append(Kept(s, P), x) \in Seq(T) /\ Len(Append(Kept(s, P), x)) = Len(at) + 1
      /\ Append(Kept(s, P), x)[Len(at) + 1] = x
      /\ \A j \in 1..Len(at) : Append(Kept(s, P), x)[j] = Kept(s, P)[j]
  BY <1>7
<1>10. ASSUME NEW j \in 1..(Len(at) + 1)
       PROVE  Kept(u, Q)[j] = Append(Kept(s, P), x)[j]
  <2>1. CASE j \in 1..Len(at)
    <3>1. at[j] \in 1..n
      BY <1>7, <2>1 DEF n
    <3>2. Kept(u, Q)[j] = u[bt[j]] /\ bt[j] = at[j]
      BY <1>6, <1>8, <2>1
    <3>3. u[at[j]] = s[at[j]]
      BY <1>3, <3>1
    <3>4. Append(Kept(s, P), x)[j] = Kept(s, P)[j] /\ Kept(s, P)[j] = s[at[j]]
      BY <1>7, <1>9, <2>1
    <3> QED  BY <3>2, <3>3, <3>4
  <2>2. CASE j = Len(at) + 1
    BY <1>3, <1>6, <1>8, <1>9, <2>2
  <2>3. j \in 1..Len(at) \/ j = Len(at) + 1
    BY <1>5
  <2> QED  BY <2>1, <2>2, <2>3, Zenon
<1>11. Kept(u, Q) = Append(Kept(s, P), x)
  BY <1>8, <1>9, <1>10, ListsEqual
<1> QED  BY <1>11, Zenon DEF u, Q, n

\* One item fewer
LEMMA KeptDelete ==
  ASSUME NEW T, NEW s \in Seq(T), NEW P \in SUBSET (1..Len(s)), NEW at, Enumerates(at, P),
         NEW x \in 1..Len(at)
  PROVE  Kept(s, P \ {at[x]}) = Delete(Kept(s, P), x)
<1> DEFINE Q == P \ {at[x]}
           bt == Delete(at, x)
           m == Len(at) - 1
<1>0. P \in SUBSET Nat
  OBVIOUS
<1>1. Enumerates(bt, Q)
  BY <1>0, EnumerationDelete
<1>2. /\ Kept(s, P) \in Seq(T) /\ Len(Kept(s, P)) = Len(at) /\ Len(at) \in Nat
      /\ \A j \in 1..Len(at) : at[j] \in P /\ Kept(s, P)[j] = s[at[j]]
  BY KeptAt
<1>3. m \in Nat
  BY <1>2
<1>4. Len(bt) = m /\ \A j \in 1..m : bt[j] = IF j < x THEN at[j] ELSE at[j + 1]
  BY <1>3 DEF Delete
<1>5. Q \in SUBSET (1..Len(s))
  BY Zenon
<1> HIDE DEF bt, Q
<1>6. /\ Kept(s, Q) \in Seq(T) /\ Len(Kept(s, Q)) = m
      /\ \A j \in 1..m : Kept(s, Q)[j] = s[bt[j]]
  BY <1>1, <1>4, <1>5, KeptAt
<1>7. /\ DOMAIN Delete(Kept(s, P), x) = 1..m
      /\ \A j \in 1..m : Delete(Kept(s, P), x)[j] = IF j < x THEN Kept(s, P)[j] ELSE Kept(s, P)[j + 1]
  BY <1>2 DEF Delete
<1>8. \A j \in 1..m : j \in 1..Len(at) /\ j + 1 \in 1..Len(at)
  BY <1>2
<1> HIDE DEF m
<1>9. \A j \in 1..m : Delete(Kept(s, P), x)[j] = s[bt[j]]
  BY <1>2, <1>4, <1>7, <1>8
<1>10. Delete(Kept(s, P), x) = [j \in 1..m |-> Delete(Kept(s, P), x)[j]]
  BY <1>7 DEF Delete
<1>11. Kept(s, Q) = [j \in 1..m |-> Kept(s, Q)[j]]
  BY <1>3, <1>6
<1>12. Kept(s, Q) = Delete(Kept(s, P), x)
  BY <1>6, <1>9, <1>10, <1>11
<1> QED  BY <1>12 DEF Q

(***************************************************************************)
(* Lists of entries with one entry per class of keys.                      *)
(***************************************************************************)

Entry == [key : Keys, value : Values]

Distinct(s) == \A i, j \in 1..Len(s) : ClassOf[s[i].key] = ClassOf[s[j].key] => i = j

Absent(s, k) == \A i \in 1..Len(s) : ClassOf[s[i].key] # ClassOf[k]

\* The list with another value at i
SetValue(s, i, v) == [s EXCEPT ![i] = [s[i] EXCEPT !.value = v]]

\* Vec::remove leaves a list, of what was there.
LEMMA DeleteIs ==
  ASSUME NEW T, NEW s \in Seq(T), NEW x \in 1..Len(s)
  PROVE  /\ Delete(s, x) \in Seq(T) /\ Len(Delete(s, x)) = Len(s) - 1 /\ Len(s) - 1 \in Nat
         /\ \A j \in 1..(Len(s) - 1) : Delete(s, x)[j] = IF j < x THEN s[j] ELSE s[j + 1]
<1>1. Len(s) \in Nat /\ Len(s) - 1 \in Nat
  OBVIOUS
<1>2. \A j \in 1..(Len(s) - 1) : s[j] \in T /\ s[j + 1] \in T
  BY <1>1
<1> QED  BY <1>1, <1>2 DEF Delete

\* Another value at i changes nothing else.
LEMMA SetValueIs ==
  ASSUME NEW s \in Seq(Entry), NEW i \in 1..Len(s), NEW v \in Values
  PROVE  /\ SetValue(s, i, v) \in Seq(Entry) /\ Len(SetValue(s, i, v)) = Len(s)
         /\ \A j \in 1..Len(s) : SetValue(s, i, v)[j].key = s[j].key
         /\ \A j \in 1..Len(s) : SetValue(s, i, v)[j].value = IF j = i THEN v ELSE s[j].value
         /\ [s EXCEPT ![i].value = v] = SetValue(s, i, v)
<1>1. Len(s) \in Nat /\ s[i] \in Entry
  OBVIOUS
<1>2. [s[i] EXCEPT !.value = v] = [key |-> s[i].key, value |-> v]
  BY <1>1 DEF Entry
<1>3. [key |-> s[i].key, value |-> v] \in Entry
  BY <1>1 DEF Entry
<1> QED  BY <1>1, <1>2, <1>3 DEF SetValue

\* Put, when the key is at i
LEMMA PutPresent ==
  ASSUME NEW s \in Seq(Entry), Distinct(s), NEW k \in Keys, NEW v \in Values,
         NEW i \in 1..Len(s), ClassOf[s[i].key] = ClassOf[k]
  PROVE  Association!Put(s, k, v) = SetValue(s, i, v)
<1>1. Association!Put(s, k, v)
        = [j \in 1..Len(s) |-> IF ClassOf[s[j].key] = ClassOf[k] THEN [s[j] EXCEPT !.value = v] ELSE s[j]]
  BY DEF Association!Put, Association!SameKey
<1>2. \A j \in 1..Len(s) : ClassOf[s[j].key] = ClassOf[k] <=> j = i
  BY DEF Distinct
<1>3. s = [j \in 1..Len(s) |-> s[j]]
  OBVIOUS
<1> QED  BY <1>1, <1>2, <1>3, Zenon DEF SetValue

\* Put, when the key is absent
LEMMA PutAbsent ==
  ASSUME NEW s, NEW k, NEW v, Absent(s, k)
  PROVE  Association!Put(s, k, v) = Append(s, [key |-> k, value |-> v])
BY DEF Association!Put, Association!SameKey, Absent

\* Without, when the key is at i
LEMMA WithoutPresent ==
  ASSUME NEW s, Distinct(s), NEW k, NEW i \in 1..Len(s), ClassOf[s[i].key] = ClassOf[k]
  PROVE  Association!Without(s, k) = Delete(s, i)
<1>1. (CHOOSE j \in 1..Len(s) : ClassOf[s[j].key] = ClassOf[k]) = i
  BY DEF Distinct
<1> QED  BY <1>1 DEF Association!Without, Association!SameKey, Delete

\* Without, when the key is absent
LEMMA WithoutAbsent ==
  ASSUME NEW s, NEW k, Absent(s, k)
  PROVE  Association!Without(s, k) = s
BY DEF Association!Without, Association!SameKey, Absent

\* Another value, one entry more of an absent key and one entry fewer keep one
\* entry per class.
LEMMA StayDistinct ==
  ASSUME NEW s \in Seq(Entry), Distinct(s)
  PROVE  /\ \A i \in 1..Len(s), v \in Values : Distinct(SetValue(s, i, v))
         /\ \A k \in Keys, v \in Values :
              Absent(s, k) => Distinct(Append(s, [key |-> k, value |-> v]))
         /\ \A i \in 1..Len(s) : Distinct(Delete(s, i))
<1>1. ASSUME NEW i \in 1..Len(s), NEW v \in Values
      PROVE  Distinct(SetValue(s, i, v))
  <2>1. Len(SetValue(s, i, v)) = Len(s) /\ \A j \in 1..Len(s) : SetValue(s, i, v)[j].key = s[j].key
    BY SetValueIs
  <2> QED  BY <2>1 DEF Distinct
<1>2. ASSUME NEW k \in Keys, NEW v \in Values, Absent(s, k)
      PROVE  Distinct(Append(s, [key |-> k, value |-> v]))
  <2> DEFINE u == Append(s, [key |-> k, value |-> v])
  <2>1. /\ Len(u) = Len(s) + 1 /\ Len(s) \in Nat /\ u[Len(s) + 1].key = k
        /\ \A i \in 1..Len(s) : u[i] = s[i]
    OBVIOUS
  <2> HIDE DEF u
  <2> SUFFICES ASSUME NEW i \in 1..Len(u), NEW j \in 1..Len(u), ClassOf[u[i].key] = ClassOf[u[j].key]
               PROVE  i = j
    BY DEF Distinct, u
  <2>2. (i \in 1..Len(s) \/ i = Len(s) + 1) /\ (j \in 1..Len(s) \/ j = Len(s) + 1)
    BY <2>1
  <2> QED  BY <1>2, <2>1, <2>2 DEF Distinct, Absent
<1>3. ASSUME NEW x \in 1..Len(s)
      PROVE  Distinct(Delete(s, x))
  <2> DEFINE u == Delete(s, x)
  <2>1. /\ Len(u) = Len(s) - 1 /\ Len(s) \in Nat
        /\ \A j \in 1..(Len(s) - 1) : u[j] = IF j < x THEN s[j] ELSE s[j + 1]
    BY DeleteIs
  <2> HIDE DEF u
  <2> SUFFICES ASSUME NEW i \in 1..Len(u), NEW j \in 1..Len(u), ClassOf[u[i].key] = ClassOf[u[j].key]
               PROVE  i = j
    BY DEF Distinct, u
  <2> DEFINE at(y) == IF y < x THEN y ELSE y + 1
  <2>2. at(i) \in 1..Len(s) /\ at(j) \in 1..Len(s) /\ u[i] = s[at(i)] /\ u[j] = s[at(j)]
    BY <2>1
  <2>3. at(i) = at(j) => i = j
    BY <2>1
  <2> HIDE DEF at
  <2> QED  BY <2>2, <2>3 DEF Distinct
<1> QED  BY <1>1, <1>2, <1>3

(***************************************************************************)
(* Buckets.                                                                *)
(***************************************************************************)

\* The buckets name each of the positions P of a list of hashes once, under
\* its hash, and no other position.
IndexesAt(bs, hash, P) ==
  /\ \A h \in DOMAIN bs :
       /\ bs[h] \in Seq(Nat) /\ bs[h] # <<>>
       /\ \A x \in 1..Len(bs[h]) : bs[h][x] \in P /\ hash[bs[h][x]] = h
       /\ \A x, y \in 1..Len(bs[h]) : bs[h][x] = bs[h][y] => x = y
  /\ \A i \in P : hash[i] \in DOMAIN bs /\ \E x \in 1..Len(bs[hash[i]]) : bs[hash[i]][x] = i

Indexes(bs, hash) == IndexesAt(bs, hash, 1..Len(hash))

Hashes(s) == [i \in 1..Len(s) |-> HashOf[s[i].key]]

\* push_bucket_index indexes one more entry.
LEMMA PushIndexes ==
  ASSUME NEW hash \in Seq(Int), NEW bs, Indexes(bs, hash), NEW h \in Int
  PROVE  Indexes(PushIndex(bs, h, Len(hash) + 1), Append(hash, h))
<1> DEFINE n == Len(hash)
           cs == PushIndex(bs, h, n + 1)
           g == Append(hash, h)
<1>0. n \in Nat /\ Len(g) = n + 1 /\ g[n + 1] = h /\ \A i \in 1..n : g[i] = hash[i]
  OBVIOUS
<1>1. /\ DOMAIN cs = DOMAIN bs \cup {h}
      /\ \A x \in DOMAIN bs : x # h => cs[x] = bs[x]
      /\ h \in DOMAIN bs => cs[h] = Append(bs[h], n + 1)
      /\ h \notin DOMAIN bs => cs[h] = <<n + 1>>
  BY DEF PushIndex
<1> HIDE DEF cs, g
<1>2. ASSUME NEW e \in DOMAIN cs
      PROVE  /\ cs[e] \in Seq(Nat) /\ cs[e] # <<>>
             /\ \A x \in 1..Len(cs[e]) : cs[e][x] \in 1..Len(g) /\ g[cs[e][x]] = e
             /\ \A x, y \in 1..Len(cs[e]) : cs[e][x] = cs[e][y] => x = y
  <2>1. CASE e # h
    <3>1. e \in DOMAIN bs /\ cs[e] = bs[e]
      BY <1>1, <1>2, <2>1
    <3>2. /\ bs[e] \in Seq(Nat) /\ bs[e] # <<>>
          /\ \A x \in 1..Len(bs[e]) : bs[e][x] \in 1..n /\ hash[bs[e][x]] = e
          /\ \A x, y \in 1..Len(bs[e]) : bs[e][x] = bs[e][y] => x = y
      BY <3>1 DEF Indexes, IndexesAt
    <3>3. \A i \in 1..n : i \in 1..Len(g) /\ g[i] = hash[i]
      BY <1>0
    <3> QED  BY <3>1, <3>2, <3>3
  <2>2. CASE e = h /\ h \in DOMAIN bs
    <3> DEFINE b == bs[h]
               c == Append(b, n + 1)
    <3>1. /\ b \in Seq(Nat)
          /\ \A x \in 1..Len(b) : b[x] \in 1..n /\ hash[b[x]] = h
          /\ \A x, y \in 1..Len(b) : b[x] = b[y] => x = y
      BY <2>2, Zenon DEF Indexes, IndexesAt
    <3>2. /\ c \in Seq(Nat) /\ Len(c) = Len(b) + 1 /\ c # <<>> /\ Len(b) \in Nat
          /\ c[Len(b) + 1] = n + 1 /\ \A x \in 1..Len(b) : c[x] = b[x]
      <4>1. b \in Seq(Nat) /\ n + 1 \in Nat
        BY <1>0, <3>1
      <4> HIDE DEF b, n
      <4> QED  BY <4>1, AppendIs
    <3>3. cs[e] = c
      BY <1>1, <2>2
    <3> HIDE DEF b, c
    <3>4. \A x \in 1..Len(c) : c[x] \in 1..Len(g) /\ g[c[x]] = h
      <4> SUFFICES ASSUME NEW x \in 1..Len(c) PROVE c[x] \in 1..Len(g) /\ g[c[x]] = h
        OBVIOUS
      <4>1. x \in 1..Len(b) \/ x = Len(b) + 1
        BY <3>2
      <4>2. CASE x \in 1..Len(b)
        <5>1. c[x] \in 1..n /\ hash[c[x]] = h
          BY <3>1, <3>2, <4>2
        <5> QED  BY <1>0, <5>1
      <4>3. CASE x = Len(b) + 1
        BY <1>0, <3>2, <4>3
      <4> QED  BY <4>1, <4>2, <4>3
    <3>5. \A x, y \in 1..Len(c) : c[x] = c[y] => x = y
      <4> SUFFICES ASSUME NEW x \in 1..Len(c), NEW y \in 1..Len(c), c[x] = c[y] PROVE x = y
        OBVIOUS
      <4>1. (x \in 1..Len(b) \/ x = Len(b) + 1) /\ (y \in 1..Len(b) \/ y = Len(b) + 1)
        BY <3>2
      <4>2. \A z \in 1..Len(b) : b[z] # n + 1
        BY <1>0, <3>1
      <4> QED  BY <3>1, <3>2, <4>1, <4>2
    <3> QED  BY <2>2, <3>2, <3>3, <3>4, <3>5
  <2>3. CASE e = h /\ h \notin DOMAIN bs
    <3>1. cs[e] = <<n + 1>>
      BY <1>1, <2>3
    <3>2. <<n + 1>> \in Seq(Nat) /\ Len(<<n + 1>>) = 1 /\ <<n + 1>>[1] = n + 1 /\ <<n + 1>> # <<>>
      BY <1>0
    <3>3. n + 1 \in 1..Len(g) /\ g[n + 1] = e
      BY <1>0, <2>3
    <3> QED  BY <3>1, <3>2, <3>3
  <2> QED  BY <2>1, <2>2, <2>3
<1>3. ASSUME NEW i \in 1..Len(g)
      PROVE  g[i] \in DOMAIN cs /\ \E x \in 1..Len(cs[g[i]]) : cs[g[i]][x] = i
  <2>1. CASE i = n + 1
    <3>1. CASE h \in DOMAIN bs
      <4>1. bs[h] \in Seq(Nat)
        BY <3>1 DEF Indexes, IndexesAt
      <4>2. Len(Append(bs[h], n + 1)) \in 1..Len(Append(bs[h], n + 1))
            /\ Append(bs[h], n + 1)[Len(Append(bs[h], n + 1))] = n + 1
        BY <1>0, <4>1
      <4> QED  BY <1>0, <1>1, <2>1, <3>1, <4>2
    <3>2. CASE h \notin DOMAIN bs
      <4>1. 1 \in 1..Len(<<n + 1>>) /\ <<n + 1>>[1] = n + 1
        BY <1>0
      <4> QED  BY <1>0, <1>1, <2>1, <3>2, <4>1
    <3> QED  BY <3>1, <3>2
  <2>2. CASE i \in 1..n
    <3>1. g[i] = hash[i] /\ hash[i] \in DOMAIN bs
      BY <1>0, <2>2 DEF Indexes, IndexesAt
    <3>2. PICK x \in 1..Len(bs[hash[i]]) : bs[hash[i]][x] = i
      BY <2>2 DEF Indexes, IndexesAt
    <3>3. CASE hash[i] # h
      BY <1>1, <3>1, <3>2, <3>3
    <3>4. CASE hash[i] = h
      <4> DEFINE b == bs[h]
                 c == Append(b, n + 1)
      <4>1. b \in Seq(Nat)
        BY <3>1, <3>4 DEF Indexes, IndexesAt
      <4>2. x \in 1..Len(c) /\ c[x] = i
        <5>1. x \in 1..Len(b) /\ b[x] = i
          BY <3>2, <3>4
        <5> HIDE DEF b
        <5> QED  BY <1>0, <4>1, <5>1
      <4> QED  BY <1>1, <3>1, <3>4, <4>2
    <3> QED  BY <3>3, <3>4
  <2> QED  BY <1>0, <2>1, <2>2
<1>4. Indexes(cs, g)
  BY <1>2, <1>3 DEF Indexes, IndexesAt
<1> QED  BY <1>4 DEF cs, g

\* remove_bucket_index forgets one entry.
LEMMA DropIndexes ==
  ASSUME NEW hash, NEW P, NEW bs, IndexesAt(bs, hash, P), NEW r \in P
  PROVE  IndexesAt(DropIndex(bs, hash[r], r), hash, P \ {r})
<1> DEFINE h == hash[r]
           b == bs[h]
           at == {x \in 1..Len(b) : b[x] = r}
           x0 == CHOOSE x \in at : \A y \in at : x <= y
           c == Delete(b, x0)
           cs == DropIndex(bs, h, r)
<1>1. /\ h \in DOMAIN bs /\ b \in Seq(Nat)
      /\ \A x \in 1..Len(b) : b[x] \in P /\ hash[b[x]] = h
      /\ \A x, y \in 1..Len(b) : b[x] = b[y] => x = y
  BY Zenon DEF IndexesAt
<1>2. PICK z \in 1..Len(b) : b[z] = r
  BY DEF IndexesAt
<1>3. at = {z} /\ x0 = z
  <2>1. at = {z}
    BY <1>1, <1>2
  <2>2. z \in Int
    BY <1>1, <1>2
  <2> QED  BY <2>1, <2>2
<1>4. cs = [x \in IF c = <<>> THEN DOMAIN bs \ {h} ELSE DOMAIN bs |-> IF x = h THEN c ELSE bs[x]]
  <2>1. at # {}
    BY <1>3
  <2> DEFINE rest == IF at = {} THEN b ELSE c
  <2>2. cs = [x \in IF rest = <<>> THEN DOMAIN bs \ {h} ELSE DOMAIN bs |-> IF x = h THEN rest ELSE bs[x]]
    BY DEF DropIndex
  <2>3. rest = c
    BY <2>1
  <2> HIDE DEF rest, c, cs
  <2> QED  BY <2>2, <2>3
<1> HIDE DEF x0, cs
<1>5. /\ c \in Seq(Nat) /\ Len(c) = Len(b) - 1 /\ Len(b) \in Nat
      /\ \A j \in 1..(Len(b) - 1) : c[j] = IF j < z THEN b[j] ELSE b[j + 1]
  <2>1. b \in Seq(Nat) /\ z \in 1..Len(b) /\ c = Delete(b, z)
    BY <1>1, <1>3
  <2> HIDE DEF b, c
  <2>2. Len(b) \in Nat
    BY <2>1
  <2> QED  BY <2>1, <2>2, DeleteIs
<1> HIDE DEF b, c
<1> DEFINE from(j) == IF j < z THEN j ELSE j + 1
<1>6. \A j \in 1..Len(c) : from(j) \in 1..Len(b) /\ from(j) # z /\ c[j] = b[from(j)]
  BY <1>5
<1>7. \A i, j \in 1..Len(c) : from(i) = from(j) => i = j
  BY <1>5
<1>8. \A y \in 1..Len(b) : y # z => \E j \in 1..Len(c) : c[j] = b[y]
  <2> SUFFICES ASSUME NEW y \in 1..Len(b), y # z
               PROVE  \E j \in 1..Len(c) : from(j) = y
    BY <1>6
  <2>1. CASE y < z
    <3>1. y \in 1..Len(c) /\ from(y) = y
      BY <1>5, <2>1
    <3> QED  BY <3>1
  <2>2. CASE z < y
    <3>1. y - 1 \in 1..Len(c) /\ from(y - 1) = y
      BY <1>5, <2>2
    <3> QED  BY <3>1
  <2> QED  BY <1>5, <2>1, <2>2
<1> HIDE DEF from
<1>9. ASSUME NEW e \in DOMAIN cs
      PROVE  /\ cs[e] \in Seq(Nat) /\ cs[e] # <<>>
             /\ \A x \in 1..Len(cs[e]) : cs[e][x] \in P \ {r} /\ hash[cs[e][x]] = e
             /\ \A x, y \in 1..Len(cs[e]) : cs[e][x] = cs[e][y] => x = y
  <2>1. CASE e # h
    <3>1. e \in DOMAIN bs /\ cs[e] = bs[e]
      BY <1>4, <1>9, <2>1
    <3>2. /\ bs[e] \in Seq(Nat) /\ bs[e] # <<>>
          /\ \A x \in 1..Len(bs[e]) : bs[e][x] \in P /\ hash[bs[e][x]] = e
          /\ \A x, y \in 1..Len(bs[e]) : bs[e][x] = bs[e][y] => x = y
      BY <3>1, Zenon DEF IndexesAt
    <3>3. \A x \in 1..Len(bs[e]) : bs[e][x] # r
      BY <2>1, <3>2
    <3> QED  BY <3>1, <3>2, <3>3
  <2>2. CASE e = h
    <3>1. cs[e] = c /\ c # <<>>
      BY <1>4, <1>9, <2>2
    <3>2. \A x \in 1..Len(c) : c[x] \in P \ {r} /\ hash[c[x]] = e
      BY <1>1, <1>2, <1>6, <2>2
    <3>3. \A x, y \in 1..Len(c) : c[x] = c[y] => x = y
      <4> SUFFICES ASSUME NEW x \in 1..Len(c), NEW y \in 1..Len(c), c[x] = c[y]
                   PROVE  from(x) = from(y)
        BY <1>7
      <4>1. from(x) \in 1..Len(b) /\ from(y) \in 1..Len(b) /\ b[from(x)] = b[from(y)]
        BY <1>6
      <4> QED  BY <1>1, <4>1
    <3> QED  BY <1>5, <3>1, <3>2, <3>3
  <2> QED  BY <2>1, <2>2
<1>10. ASSUME NEW i \in P \ {r}
       PROVE  hash[i] \in DOMAIN cs /\ \E x \in 1..Len(cs[hash[i]]) : cs[hash[i]][x] = i
  <2>1. hash[i] \in DOMAIN bs
    BY DEF IndexesAt
  <2>2. PICK y \in 1..Len(bs[hash[i]]) : bs[hash[i]][y] = i
    BY DEF IndexesAt
  <2>3. CASE hash[i] # h
    BY <1>4, <2>1, <2>2, <2>3
  <2>4. CASE hash[i] = h
    <3>1. y \in 1..Len(b) /\ b[y] = i /\ y # z
      BY <1>2, <2>2, <2>4 DEF b
    <3>2. PICK j \in 1..Len(c) : c[j] = i
      BY <1>8, <3>1
    <3>3. c # <<>>
      BY <3>2
    <3> QED  BY <1>4, <2>1, <2>4, <3>2, <3>3
  <2> QED  BY <2>3, <2>4
<1>11. IndexesAt(cs, hash, P \ {r})
  BY <1>9, <1>10 DEF IndexesAt
<1> QED  BY <1>11 DEF cs

\* shift_bucket_indices_after_removal: the entries after the removed one move
\* up.
LEMMA ShiftIndexes ==
  ASSUME NEW hash \in Seq(Int), NEW r \in 1..Len(hash), NEW bs,
         IndexesAt(bs, hash, 1..Len(hash) \ {r})
  PROVE  Indexes(ShiftIndices(bs, r), Delete(hash, r))
<1> DEFINE n == Len(hash)
           P == 1..n \ {r}
           cs == ShiftIndices(bs, r)
           g == Delete(hash, r)
           up(i) == IF i > r THEN i - 1 ELSE i
           from(j) == IF j < r THEN j ELSE j + 1
<1>0. /\ n \in Nat /\ Len(g) = n - 1 /\ n - 1 \in Nat
      /\ \A j \in 1..(n - 1) : g[j] = IF j < r THEN hash[j] ELSE hash[j + 1]
  <2>1. n \in Nat
    OBVIOUS
  <2>2. /\ Len(g) = Len(hash) - 1 /\ Len(hash) - 1 \in Nat
        /\ \A j \in 1..(Len(hash) - 1) : g[j] = IF j < r THEN hash[j] ELSE hash[j + 1]
    BY DeleteIs
  <2> QED  BY <2>1, <2>2
<1>1. /\ DOMAIN cs = DOMAIN bs
      /\ \A e \in DOMAIN bs : cs[e] = [x \in DOMAIN bs[e] |-> up(bs[e][x])]
  BY DEF ShiftIndices
<1> HIDE DEF cs, g
<1>2. \A i \in P : up(i) \in 1..Len(g) /\ g[up(i)] = hash[i]
  <2> SUFFICES ASSUME NEW i \in P PROVE up(i) \in 1..(n - 1) /\ g[up(i)] = hash[i]
    BY <1>0
  <2>1. up(i) \in 1..(n - 1) /\ i = IF up(i) < r THEN up(i) ELSE up(i) + 1
    BY <1>0
  <2> HIDE DEF up
  <2> QED  BY <1>0, <2>1, Zenon
<1>3. \A i, j \in P : up(i) = up(j) => i = j
  BY <1>0
<1>4. \A j \in 1..Len(g) : from(j) \in P /\ up(from(j)) = j /\ g[j] = hash[from(j)]
  BY <1>0
<1> HIDE DEF up, from
<1>5. ASSUME NEW e \in DOMAIN cs
      PROVE  /\ cs[e] \in Seq(Nat) /\ cs[e] # <<>>
             /\ \A x \in 1..Len(cs[e]) : cs[e][x] \in 1..Len(g) /\ g[cs[e][x]] = e
             /\ \A x, y \in 1..Len(cs[e]) : cs[e][x] = cs[e][y] => x = y
  <2> DEFINE b == bs[e]
  <2>1. /\ b \in Seq(Nat) /\ b # <<>>
        /\ \A x \in 1..Len(b) : b[x] \in P /\ hash[b[x]] = e
        /\ \A x, y \in 1..Len(b) : b[x] = b[y] => x = y
    BY <1>1 DEF IndexesAt
  <2>2. cs[e] = [x \in DOMAIN b |-> up(b[x])]
    BY <1>1
  <2> HIDE DEF b, P
  <2>3. Len(b) \in Nat /\ DOMAIN b = 1..Len(b) /\ Len(b) # 0
    BY <2>1
  <2>4. \A x \in 1..Len(b) : up(b[x]) \in Nat
    BY <1>0, <1>2, <2>1
  <2>5. cs[e] \in Seq(Nat) /\ Len(cs[e]) = Len(b)
    BY <2>2, <2>3, <2>4
  <2>6. \A x \in 1..Len(b) : cs[e][x] = up(b[x])
    BY <2>2, <2>3
  <2>7. \A x \in 1..Len(b) : cs[e][x] \in 1..Len(g) /\ g[cs[e][x]] = e
    BY <1>2, <2>1, <2>6
  <2>8. \A x, y \in 1..Len(b) : cs[e][x] = cs[e][y] => x = y
    <3> SUFFICES ASSUME NEW x \in 1..Len(b), NEW y \in 1..Len(b), up(b[x]) = up(b[y])
                 PROVE  b[x] = b[y]
      BY <2>1, <2>6
    <3> QED  BY <1>3, <2>1
  <2>9. cs[e] # <<>>
    BY <2>3, <2>5
  <2> QED  BY <2>5, <2>7, <2>8, <2>9
<1>6. ASSUME NEW j \in 1..Len(g)
      PROVE  g[j] \in DOMAIN cs /\ \E x \in 1..Len(cs[g[j]]) : cs[g[j]][x] = j
  <2> DEFINE i == from(j)
  <2>1. i \in P /\ up(i) = j /\ g[j] = hash[i]
    BY <1>4
  <2>2. hash[i] \in DOMAIN bs
    BY <2>1 DEF IndexesAt
  <2>3. PICK x \in 1..Len(bs[hash[i]]) : bs[hash[i]][x] = i
    BY <2>1, Zenon DEF IndexesAt
  <2>4. bs[hash[i]] \in Seq(Nat)
    BY <2>2 DEF IndexesAt
  <2> HIDE DEF i
  <2>5. cs[hash[i]] = [y \in 1..Len(bs[hash[i]]) |-> up(bs[hash[i]][y])]
    <3>1. DOMAIN bs[hash[i]] = 1..Len(bs[hash[i]])
      BY <2>4
    <3> QED  BY <1>1, <2>2, <3>1, Zenon
  <2>6. Len(cs[hash[i]]) = Len(bs[hash[i]]) /\ cs[hash[i]][x] = j
    <3>1. Len(bs[hash[i]]) \in Nat
      BY <2>4
    <3>2. Len(cs[hash[i]]) = Len(bs[hash[i]])
      <4> HIDE DEF up, cs
      <4> QED  BY <2>5, <3>1
    <3>3. cs[hash[i]][x] = up(bs[hash[i]][x])
      <4> HIDE DEF up, cs
      <4> QED  BY <2>3, <2>5
    <3> QED  BY <2>1, <2>3, <3>2, <3>3
  <2> QED  BY <1>1, <2>1, <2>2, <2>6
<1>7. Indexes(cs, g)
  BY <1>5, <1>6 DEF Indexes, IndexesAt
<1> QED  BY <1>7 DEF cs, g

\* from_entries indexes the entries it is given.
LEMMA BuiltIndexes ==
  ASSUME NEW s \in Seq(Entry)
  PROVE  /\ BucketsFromEntries(s) = [entries |-> s, buckets |-> BucketsFromEntries(s).buckets]
         /\ Indexes(BucketsFromEntries(s).buckets, Hashes(s))
<1> DEFINE n == Len(s)
           hash(i) == HashOf[s[i].key]
           id == [i \in 1..n |-> i]
           P(h) == {i \in 1..n : hash(i) = h}
           bs == [h \in {hash(i) : i \in 1..n} |-> Kept(id, P(h))]
<1>0. n \in Nat /\ id \in Seq(1..n) /\ Len(id) = n /\ \A i \in 1..n : id[i] = i
  OBVIOUS
<1>1. BucketsFromEntries(s) = [entries |-> s, buckets |-> bs]
  BY DEF BucketsFromEntries
<1>2. Len(Hashes(s)) = n /\ \A i \in 1..n : Hashes(s)[i] = hash(i)
  BY <1>0 DEF Hashes
<1>3. /\ DOMAIN bs = {hash(i) : i \in 1..n}
      /\ \A h \in DOMAIN bs : bs[h] = Kept(id, P(h))
  OBVIOUS
<1>4. \A h : P(h) \in SUBSET (1..n)
  OBVIOUS
<1>5. \A h, i : i \in P(h) <=> i \in 1..n /\ hash(i) = h
  OBVIOUS
<1> HIDE DEF bs, id, P, hash
<1>6. ASSUME NEW h
      PROVE  \E at : /\ Enumerates(at, P(h)) /\ Kept(id, P(h)) \in Seq(1..n)
                     /\ Len(Kept(id, P(h))) = Len(at) /\ Len(at) \in Nat
                     /\ \A j \in 1..Len(at) : at[j] \in P(h) /\ Kept(id, P(h))[j] = at[j]
  <2>1. PICK at : Enumerates(at, P(h))
    BY <1>0, <1>4, EnumerationExists
  <2>2. P(h) \in SUBSET (1..Len(id))
    BY <1>0, <1>4
  <2>3. /\ Kept(id, P(h)) \in Seq(1..n) /\ Len(Kept(id, P(h))) = Len(at) /\ Len(at) \in Nat
        /\ \A j \in 1..Len(at) : at[j] \in P(h) /\ Kept(id, P(h))[j] = id[at[j]]
    <3>1. PICK Q, T : Q = P(h) /\ T = 1..n
      OBVIOUS
    <3>2. id \in Seq(T) /\ Q \in SUBSET (1..Len(id)) /\ Enumerates(at, Q)
      BY <1>0, <2>1, <2>2, <3>1
    <3>3. /\ Kept(id, Q) \in Seq(T) /\ Len(Kept(id, Q)) = Len(at) /\ Len(at) \in Nat
          /\ \A j \in 1..Len(at) : at[j] \in Q /\ Kept(id, Q)[j] = id[at[j]]
      BY <3>2, KeptAt
    <3> QED  BY <3>1, <3>3
  <2>4. \A j \in 1..Len(at) : id[at[j]] = at[j]
    BY <1>0, <1>4, <2>3, Zenon
  <2> QED  BY <2>1, <2>3, <2>4
<1>7. ASSUME NEW h \in DOMAIN bs
      PROVE  /\ bs[h] \in Seq(Nat) /\ bs[h] # <<>>
             /\ \A x \in 1..Len(bs[h]) : bs[h][x] \in 1..n /\ hash(bs[h][x]) = h
             /\ \A x, y \in 1..Len(bs[h]) : bs[h][x] = bs[h][y] => x = y
  <2> DEFINE b == Kept(id, P(h))
  <2>1. PICK at : /\ Enumerates(at, P(h)) /\ b \in Seq(1..n) /\ Len(b) = Len(at) /\ Len(at) \in Nat
                  /\ \A j \in 1..Len(at) : at[j] \in P(h) /\ b[j] = at[j]
    BY <1>6
  <2> HIDE DEF b
  <2>2. b \in Seq(Nat)
    <3>1. 1..n \subseteq Nat
      BY <1>0
    <3> QED  BY <2>1, <3>1
  <2>3. b # <<>>
    <3>1. PICK i \in 1..n : hash(i) = h
      BY <1>3
    <3>2. i \in P(h)
      BY <1>5, <3>1
    <3>3. PICK j \in 1..Len(at) : at[j] = i
      BY <2>1, <3>2 DEF Enumerates
    <3> QED  BY <2>1, <3>3
  <2>4. \A x, y \in 1..Len(b) : b[x] = b[y] => x = y
    <3> SUFFICES ASSUME NEW x \in 1..Len(at), NEW y \in 1..Len(at), at[x] = at[y]
                 PROVE  x = y
      BY <2>1
    <3>1. at[x] \in Nat /\ at[y] \in Nat
      BY <1>0, <1>4, <2>1
    <3>2. ~(at[x] < at[y]) /\ ~(at[y] < at[x])
      BY <3>1
    <3>3. ~(x < y) /\ ~(y < x)
      BY <2>1, <3>2 DEF Enumerates
    <3> QED  BY <2>1, <3>3
  <2>5. \A x \in 1..Len(b) : b[x] \in 1..n /\ hash(b[x]) = h
    BY <1>5, <2>1
  <2>6. bs[h] = b
    BY <1>3 DEF b
  <2> QED  BY <2>2, <2>3, <2>4, <2>5, <2>6
<1>8. ASSUME NEW i \in 1..n
      PROVE  hash(i) \in DOMAIN bs /\ \E x \in 1..Len(bs[hash(i)]) : bs[hash(i)][x] = i
  <2>1. hash(i) \in DOMAIN bs /\ i \in P(hash(i))
    BY <1>3, <1>5
  <2>2. bs[hash(i)] = Kept(id, P(hash(i)))
    BY <1>3, <2>1
  <2>3. PICK at : /\ Enumerates(at, P(hash(i))) /\ Len(bs[hash(i)]) = Len(at)
                  /\ \A j \in 1..Len(at) : bs[hash(i)][j] = at[j]
    BY <1>6, <2>2
  <2>4. PICK j \in 1..Len(at) : at[j] = i
    BY <2>1, <2>3 DEF Enumerates
  <2> QED  BY <2>1, <2>3, <2>4
<1>9. Indexes(bs, Hashes(s))
  <2> DEFINE g == Hashes(s)
  <2>1. Len(g) = n /\ \A i \in 1..n : g[i] = hash(i)
    BY <1>2
  <2> HIDE DEF g, n
  <2>2. \A h \in DOMAIN bs : \A x \in 1..Len(bs[h]) : bs[h][x] \in 1..n /\ g[bs[h][x]] = h
    BY <1>7, <2>1
  <2>3. \A i \in 1..n : g[i] \in DOMAIN bs /\ \E x \in 1..Len(bs[g[i]]) : bs[g[i]][x] = i
    BY <1>8, <2>1
  <2>4. IndexesAt(bs, g, 1..n)
    BY <1>7, <2>2, <2>3 DEF IndexesAt
  <2>5. Indexes(bs, g)
    BY <2>1, <2>4 DEF Indexes
  <2> QED  BY <2>5 DEF g
<1> QED  BY <1>1, <1>9

(***************************************************************************)
(* GenericMapValue keeps a list of entries with one per class, indexed by  *)
(* its buckets.                                                            *)
(***************************************************************************)

BucketOK(t) ==
  /\ t = [entries |-> t.entries, buckets |-> t.buckets]
  /\ t.entries \in Seq(Entry) /\ Distinct(t.entries)
  /\ Indexes(t.buckets, Hashes(t.entries))

\* find_index_with finds the one entry of the key's class.
LEMMA FindIndexIs ==
  ASSUME NEW t, BucketOK(t), NEW k \in Keys
  PROVE  \/ FindIndex(t, k) = 0 /\ Absent(t.entries, k)
         \/ /\ FindIndex(t, k) \in 1..Len(t.entries)
            /\ ClassOf[t.entries[FindIndex(t, k)].key] = ClassOf[k]
<1> DEFINE s == t.entries
           bs == t.buckets
           h == HashOf[k]
           b == bs[h]
           equal == {x \in 1..Len(b) : ClassOf[s[b[x]].key] = ClassOf[k]}
<1>1. /\ s \in Seq(Entry) /\ Len(s) \in Nat /\ IndexesAt(bs, Hashes(s), 1..Len(s))
      /\ \A i \in 1..Len(s) : Hashes(s)[i] = HashOf[s[i].key]
  <2>1. s \in Seq(Entry) /\ Indexes(bs, Hashes(s))
    BY DEF BucketOK
  <2>2. Len(s) \in Nat
    BY <2>1
  <2>3. Len(Hashes(s)) = Len(s) /\ \A i \in 1..Len(s) : Hashes(s)[i] = HashOf[s[i].key]
    BY <2>2 DEF Hashes
  <2> QED  BY <2>1, <2>2, <2>3 DEF Indexes
<1>2. ASSUME NEW i \in 1..Len(s), ClassOf[s[i].key] = ClassOf[k]
      PROVE  h \in DOMAIN bs /\ \E x \in equal : b[x] = i
  <2>1. s[i].key \in Keys
    <3>1. s[i] \in Entry
      BY <1>1
    <3> QED  BY <3>1 DEF Entry
  <2>2. HashOf[s[i].key] = h
    BY <1>2, <2>1, KeysAssumption
  <2>3. h \in DOMAIN bs /\ \E x \in 1..Len(b) : b[x] = i
    <3> DEFINE g == Hashes(s)
    <3>1. IndexesAt(bs, g, 1..Len(s)) /\ g[i] = h
      BY <1>1, <2>2
    <3> HIDE DEF g, h, s, bs
    <3>2. g[i] \in DOMAIN bs /\ \E x \in 1..Len(bs[g[i]]) : bs[g[i]][x] = i
      BY <3>1 DEF IndexesAt
    <3> QED  BY <3>1, <3>2
  <2> QED  BY <1>2, <2>3, Zenon
<1>3. FindIndex(t, k) = IF h \notin DOMAIN bs THEN 0
                        ELSE IF equal = {} THEN 0 ELSE b[CHOOSE x \in equal : \A y \in equal : x <= y]
  BY DEF FindIndex
<1>4. CASE h \notin DOMAIN bs \/ equal = {}
  <2>1. FindIndex(t, k) = 0
    BY <1>3, <1>4, Zenon
  <2>2. Absent(s, k)
    <3> SUFFICES ASSUME NEW i \in 1..Len(s), ClassOf[s[i].key] = ClassOf[k] PROVE FALSE
      BY DEF Absent
    <3> HIDE DEF equal
    <3> QED  BY <1>2, <1>4
  <2> QED  BY <2>1, <2>2
<1>5. CASE h \in DOMAIN bs /\ equal # {}
  <2>1. /\ b \in Seq(Nat) /\ \A x \in 1..Len(b) : b[x] \in 1..Len(s)
    BY <1>1, <1>5 DEF IndexesAt
  <2>2. equal \in SUBSET Nat
    <3>1. 1..Len(b) \in SUBSET Nat
      OBVIOUS
    <3> QED  BY <3>1
  <2> DEFINE first == CHOOSE x \in equal : \A y \in equal : x <= y
  <2>3. first \in equal
    <3> HIDE DEF equal
    <3>1. \E x \in equal : \A y \in equal : x <= y
      BY <1>5, <2>2, LeastNumber
    <3> QED  BY <3>1
  <2>4. FindIndex(t, k) = b[first]
    BY <1>3, <1>5, Zenon
  <2>5. first \in 1..Len(b) /\ ClassOf[s[b[first]].key] = ClassOf[k]
    <3> HIDE DEF first
    <3> QED  BY <2>3, Zenon
  <2> HIDE DEF first
  <2> QED  BY <2>1, <2>4, <2>5, Zenon
<1> QED  BY <1>4, <1>5, Zenon

\* The hashes of a list with another value, one more entry or one fewer
LEMMA HashesOf ==
  ASSUME NEW s \in Seq(Entry)
  PROVE  /\ Hashes(s) \in Seq(Int) /\ Len(Hashes(s)) = Len(s)
         /\ \A i \in 1..Len(s), v \in Values : Hashes(SetValue(s, i, v)) = Hashes(s)
         /\ \A k \in Keys, v \in Values :
              Hashes(Append(s, [key |-> k, value |-> v])) = Append(Hashes(s), HashOf[k])
         /\ \A i \in 1..Len(s) : Hashes(Delete(s, i)) = Delete(Hashes(s), i)
<1>0. Len(s) \in Nat
  OBVIOUS
<1>1. \A i \in 1..Len(s) : s[i].key \in Keys
  <2> SUFFICES ASSUME NEW i \in 1..Len(s) PROVE s[i].key \in Keys
    OBVIOUS
  <2>1. s[i] \in Entry
    OBVIOUS
  <2> QED  BY <2>1 DEF Entry
<1>2. \A i \in 1..Len(s) : HashOf[s[i].key] \in Int
  BY <1>1, KeysAssumption
<1>3. Hashes(s) \in Seq(Int) /\ Len(Hashes(s)) = Len(s) /\ \A i \in 1..Len(s) : Hashes(s)[i] = HashOf[s[i].key]
  BY <1>0, <1>2 DEF Hashes
<1>4. ASSUME NEW i \in 1..Len(s), NEW v \in Values
      PROVE  Hashes(SetValue(s, i, v)) = Hashes(s)
  <2>1. Len(SetValue(s, i, v)) = Len(s) /\ \A j \in 1..Len(s) : SetValue(s, i, v)[j].key = s[j].key
    BY SetValueIs
  <2> QED  BY <2>1 DEF Hashes
<1>5. ASSUME NEW k \in Keys, NEW v \in Values
      PROVE  Hashes(Append(s, [key |-> k, value |-> v])) = Append(Hashes(s), HashOf[k])
  <2> DEFINE e == [key |-> k, value |-> v]
             u == Append(s, e)
             g == Append(Hashes(s), HashOf[k])
  <2>1. e \in Entry /\ e.key = k /\ HashOf[k] \in Int
    BY KeysAssumption DEF Entry
  <2> HIDE DEF e
  <2>2. /\ u \in Seq(Entry) /\ Len(u) = Len(s) + 1 /\ u[Len(s) + 1] = e
        /\ \A i \in 1..Len(s) : u[i] = s[i]
    BY <2>1, AppendIs
  <2>3. /\ g \in Seq(Int) /\ Len(g) = Len(s) + 1 /\ g[Len(s) + 1] = HashOf[k]
        /\ \A i \in 1..Len(s) : g[i] = HashOf[s[i].key]
    BY <1>3, <2>1, AppendIs
  <2> HIDE DEF u, g
  <2>4. Hashes(u) = [i \in 1..(Len(s) + 1) |-> HashOf[u[i].key]]
    BY <2>2 DEF Hashes
  <2>5. \A i \in 1..(Len(s) + 1) : HashOf[u[i].key] = g[i]
    <3> SUFFICES ASSUME NEW i \in 1..(Len(s) + 1) PROVE HashOf[u[i].key] = g[i]
      OBVIOUS
    <3>1. i \in 1..Len(s) \/ i = Len(s) + 1
      BY <1>0
    <3> QED  BY <2>1, <2>2, <2>3, <3>1
  <2>6. g = [i \in 1..(Len(s) + 1) |-> g[i]]
    BY <2>3
  <2>7. Hashes(u) = g
    BY <2>4, <2>5, <2>6
  <2> QED  BY <2>7 DEF u, g, e
<1>6. ASSUME NEW x \in 1..Len(s)
      PROVE  Hashes(Delete(s, x)) = Delete(Hashes(s), x)
  <2> DEFINE u == Delete(s, x)
             m == Len(s) - 1
  <2>1. Len(u) = m /\ m \in Nat /\ \A j \in 1..m : u[j] = IF j < x THEN s[j] ELSE s[j + 1]
    BY DeleteIs
  <2> HIDE DEF u
  <2>2. Hashes(u) = [j \in 1..m |-> HashOf[u[j].key]]
    BY <2>1 DEF Hashes
  <2>3. Delete(Hashes(s), x) = [j \in 1..m |-> IF j < x THEN Hashes(s)[j] ELSE Hashes(s)[j + 1]]
    BY <1>3 DEF Delete
  <2>4. \A j \in 1..m : HashOf[u[j].key] = IF j < x THEN Hashes(s)[j] ELSE Hashes(s)[j + 1]
    <3> SUFFICES ASSUME NEW j \in 1..m
                 PROVE  HashOf[u[j].key] = IF j < x THEN Hashes(s)[j] ELSE Hashes(s)[j + 1]
      OBVIOUS
    <3>1. j \in 1..Len(s) /\ j + 1 \in 1..Len(s)
      BY <1>0
    <3> QED  BY <1>3, <2>1, <3>1
  <2>5. Hashes(u) = Delete(Hashes(s), x)
    BY <2>2, <2>3, <2>4
  <2> QED  BY <2>5 DEF u
<1> QED  BY <1>3, <1>4, <1>5, <1>6

\* from_entries of a list with one entry per class
LEMMA BuiltOK ==
  ASSUME NEW s \in Seq(Entry), Distinct(s)
  PROVE  BucketOK(BucketsFromEntries(s)) /\ BucketsFromEntries(s).entries = s
<1> DEFINE t == BucketsFromEntries(s)
<1>1. t = [entries |-> s, buckets |-> t.buckets] /\ Indexes(t.buckets, Hashes(s))
  BY BuiltIndexes
<1> HIDE DEF t
<1>2. t.entries = s
  BY <1>1
<1>3. BucketOK(t)
  BY <1>1, <1>2 DEF BucketOK
<1> QED  BY <1>2, <1>3 DEF t

\* insert_with on a map whose entries and buckets agree puts the entry into
\* the list and keeps the agreement; insert_persistent_with gives the same
\* entries.
LEMMA BucketInsertIs ==
  ASSUME NEW t, BucketOK(t), NEW k \in Keys, NEW v \in Values
  PROVE  /\ BucketOK(BucketInsert(t, k, v))
         /\ BucketInsert(t, k, v).entries = Association!Put(t.entries, k, v)
         /\ BucketOK(BucketInsertPersistent(t, k, v))
         /\ BucketInsertPersistent(t, k, v).entries = Association!Put(t.entries, k, v)
<1> DEFINE s == t.entries
           i == FindIndex(t, k)
           a == Append(s, [key |-> k, value |-> v])
<1>1. /\ t = [entries |-> s, buckets |-> t.buckets] /\ s \in Seq(Entry) /\ Distinct(s)
      /\ Indexes(t.buckets, Hashes(s))
  BY DEF BucketOK
<1>2. CASE i = 0 /\ Absent(s, k)
  <2> DEFINE u == [entries |-> a, buckets |-> PushIndex(t.buckets, HashOf[k], Len(s) + 1)]
  <2>1. BucketInsert(t, k, v) = u
    BY <1>2 DEF BucketInsert
  <2>2. BucketInsertPersistent(t, k, v) = BucketsFromEntries(a)
    BY <1>2 DEF BucketInsertPersistent
  <2>3. a \in Seq(Entry) /\ Distinct(a)
    <3>1. [key |-> k, value |-> v] \in Entry
      BY DEF Entry
    <3>2. a \in Seq(Entry)
      BY <1>1, <3>1, AppendIs
    <3>3. Distinct(a)
      BY <1>1, <1>2, StayDistinct
    <3> QED  BY <3>2, <3>3
  <2>4. a = Association!Put(s, k, v)
    BY <1>2, PutAbsent
  <2>5. Indexes(PushIndex(t.buckets, HashOf[k], Len(s) + 1), Hashes(a))
    <3>1. Hashes(s) \in Seq(Int) /\ Len(Hashes(s)) = Len(s) /\ Hashes(a) = Append(Hashes(s), HashOf[k])
      BY <1>1, HashesOf
    <3>2. HashOf[k] \in Int
      BY KeysAssumption
    <3>3. Indexes(PushIndex(t.buckets, HashOf[k], Len(Hashes(s)) + 1), Append(Hashes(s), HashOf[k]))
      BY <1>1, <3>1, <3>2, PushIndexes
    <3> QED  BY <3>1, <3>3, Zenon
  <2> HIDE DEF a, s
  <2>6. BucketOK(u) /\ u.entries = a
    BY <2>3, <2>5 DEF BucketOK
  <2>7. BucketOK(BucketsFromEntries(a)) /\ BucketsFromEntries(a).entries = a
    BY <2>3, BuiltOK
  <2> QED  BY <2>1, <2>2, <2>4, <2>6, <2>7 DEF s
<1>3. CASE i \in 1..Len(s) /\ ClassOf[s[i].key] = ClassOf[k]
  <2> DEFINE w == SetValue(s, i, v)
             u == [entries |-> w, buckets |-> t.buckets]
  <2>0. i > 0 /\ i # 0
    BY <1>1, <1>3
  <2>1. w \in Seq(Entry) /\ [s EXCEPT ![i].value = v] = w
    BY <1>1, <1>3, SetValueIs
  <2>2. Distinct(w) /\ w = Association!Put(s, k, v) /\ Hashes(w) = Hashes(s)
    BY <1>1, <1>3, StayDistinct, PutPresent, HashesOf
  <2>3. [t EXCEPT !.entries[i].value = v] = [t EXCEPT !.entries = [s EXCEPT ![i].value = v]]
    BY <1>1
  <2>4. [t EXCEPT !.entries[i].value = v] = u
    <3>1. [t EXCEPT !.entries = w] = u
      <4> HIDE DEF w
      <4> QED  BY <1>1
    <3> QED  BY <2>1, <2>3, <3>1, Zenon
  <2>5. BucketInsert(t, k, v) = u
    BY <2>0, <2>4 DEF BucketInsert
  <2>6. BucketInsertPersistent(t, k, v) = IF s[i].value = v THEN t ELSE BucketsFromEntries(w)
    BY <2>0, <2>1 DEF BucketInsertPersistent
  <2>7. s[i].value = v => w = s
    <3> SUFFICES ASSUME s[i].value = v PROVE w = s
      OBVIOUS
    <3>1. s[i] \in Entry
      BY <1>1, <1>3
    <3>2. [s[i] EXCEPT !.value = v] = s[i]
      BY <3>1 DEF Entry
    <3> QED  BY <1>1, <1>3, <3>2 DEF SetValue
  <2> HIDE DEF w, s
  <2>8. BucketOK(u) /\ u.entries = w
    BY <1>1, <2>1, <2>2 DEF BucketOK
  <2>9. BucketOK(BucketsFromEntries(w)) /\ BucketsFromEntries(w).entries = w
    BY <2>1, <2>2, BuiltOK
  <2>10. t.entries = s
    BY DEF s
  <2>11. BucketOK(BucketInsertPersistent(t, k, v)) /\ BucketInsertPersistent(t, k, v).entries = w
    BY <2>6, <2>7, <2>9, <2>10
  <2> QED  BY <2>2, <2>5, <2>8, <2>10, <2>11
<1> QED  BY <1>2, <1>3, FindIndexIs

\* remove_with and remove_persistent_with take the entry out of the list and
\* keep the agreement.
LEMMA BucketRemoveIs ==
  ASSUME NEW t, BucketOK(t), NEW k \in Keys
  PROVE  /\ BucketOK(BucketRemove(t, k))
         /\ BucketRemove(t, k).entries = Association!Without(t.entries, k)
         /\ BucketOK(BucketRemovePersistent(t, k))
         /\ BucketRemovePersistent(t, k).entries = Association!Without(t.entries, k)
<1> DEFINE s == t.entries
           i == FindIndex(t, k)
<1>1. /\ t = [entries |-> s, buckets |-> t.buckets] /\ s \in Seq(Entry) /\ Distinct(s)
      /\ Indexes(t.buckets, Hashes(s))
  BY DEF BucketOK
<1>2. CASE i = 0 /\ Absent(s, k)
  <2>1. BucketRemove(t, k) = t /\ BucketRemovePersistent(t, k) = t
    BY <1>2 DEF BucketRemove, BucketRemovePersistent
  <2>2. s = Association!Without(s, k)
    BY <1>2, WithoutAbsent
  <2> QED  BY <2>1, <2>2
<1>3. CASE i \in 1..Len(s) /\ ClassOf[s[i].key] = ClassOf[k]
  <2> DEFINE w == Delete(s, i)
             h == HashOf[s[i].key]
             cs == ShiftIndices(DropIndex(t.buckets, h, i), i)
             u == [entries |-> w, buckets |-> cs]
  <2>0. i # 0
    BY <1>1, <1>3
  <2>1. BucketRemove(t, k) = u /\ BucketRemovePersistent(t, k) = BucketsFromEntries(w)
    BY <2>0 DEF BucketRemove, BucketRemovePersistent
  <2>2. w \in Seq(Entry)
    BY <1>1, <1>3, DeleteIs
  <2>3. Distinct(w) /\ w = Association!Without(s, k) /\ Hashes(w) = Delete(Hashes(s), i)
    BY <1>1, <1>3, StayDistinct, WithoutPresent, HashesOf
  <2>4. Indexes(cs, Hashes(w))
    <3> DEFINE g == Hashes(s)
               ds == DropIndex(t.buckets, g[i], i)
    <3>1. g \in Seq(Int) /\ Len(g) = Len(s) /\ g[i] = h
      <4>1. Hashes(s) \in Seq(Int) /\ Len(Hashes(s)) = Len(s)
        BY <1>1, HashesOf
      <4> QED  BY <1>3, <4>1 DEF Hashes
    <3>2. IndexesAt(ds, g, 1..Len(g) \ {i})
      <4>1. IndexesAt(t.buckets, g, 1..Len(g)) /\ i \in 1..Len(g)
        BY <1>1, <1>3, <3>1 DEF Indexes
      <4> HIDE DEF g
      <4> QED  BY <4>1, DropIndexes
    <3>3. i \in 1..Len(g)
      BY <1>3, <3>1
    <3>4. Indexes(ShiftIndices(ds, i), Delete(g, i))
      <4> HIDE DEF g, ds, i
      <4> QED  BY <3>1, <3>2, <3>3, ShiftIndexes
    <3> QED  BY <2>3, <3>1, <3>4
  <2> HIDE DEF w, s, cs
  <2>5. BucketOK(u) /\ u.entries = w
    BY <2>2, <2>3, <2>4 DEF BucketOK
  <2>6. BucketOK(BucketsFromEntries(w)) /\ BucketsFromEntries(w).entries = w
    BY <2>2, <2>3, BuiltOK
  <2> QED  BY <2>1, <2>3, <2>5, <2>6 DEF s
<1> QED  BY <1>2, <1>3, FindIndexIs

(***************************************************************************)
(* Sizes of the open-addressing table.                                     *)
(***************************************************************************)

\* A recursive function that stays in S where its rule does
LEMMA StaysIn ==
  ASSUME NEW n \in Nat, NEW S, NEW f, f[0] \in S, \A i \in 1..n : f[i - 1] \in S => f[i] \in S
  PROVE  \A i \in 0..n : f[i] \in S
<1> DEFINE X == {i \in 0..n : f[i] \in S}
<1>1. 0 \in X
  OBVIOUS
<1>2. ASSUME NEW i \in 1..n, i - 1 \in X PROVE i \in X
  <2>1. f[i - 1] \in S /\ i \in 0..n
    BY <1>2
  <2> QED  BY <2>1
<1>3. \A i \in 0..n : i \in X
  <2> HIDE DEF X
  <2> QED  BY <1>1, <1>2, Upwards
<1> QED  BY <1>3

\* next_power_of_two is at least its argument.
LEMMA NextPowerOfTwoIs ==
  ASSUME NEW n \in Nat
  PROVE  NextPowerOfTwo(n) \in Nat /\ NextPowerOfTwo(n) >= n
<1> DEFINE Eq(f) == f = [e \in 0..n |-> IF e = 0 THEN 1 ELSE 2 * f[e - 1]]
           power == CHOOSE f : Eq(f)
           G == [i \in 1..n |-> [x \in Nat |-> 2 * x]]
<1>1. PICK f : Builds(f, n, Nat, 1, G)
  <2>1. G \in [1..n -> [Nat -> Nat]]
    OBVIOUS
  <2> HIDE DEF G
  <2> QED  BY <2>1, Recursion, Zenon
<1>2. f \in [0..n -> Nat] /\ f[0] = 1 /\ \A i \in 1..n : f[i] = G[i][f[i - 1]]
  BY <1>1 DEF Builds
<1>3. \A e \in 0..n : f[e] = IF e = 0 THEN 1 ELSE 2 * f[e - 1]
  <2> SUFFICES ASSUME NEW e \in 0..n PROVE f[e] = IF e = 0 THEN 1 ELSE 2 * f[e - 1]
    OBVIOUS
  <2>1. CASE e = 0
    BY <1>2, <2>1
  <2>2. CASE e \in 1..n
    <3>1. f[e - 1] \in Nat
      BY <1>2, <2>2
    <3> QED  BY <1>2, <2>2, <3>1, Zenon
  <2> QED  BY <2>1, <2>2
<1>4. Eq(f)
  BY <1>2, <1>3
<1>5. Eq(power)
  BY <1>4, Zenon
<1> HIDE DEF power
<1>6. power[0] = 1 /\ \A e \in 1..n : power[e] = 2 * power[e - 1]
  BY <1>5
<1>7. \A e \in 0..n : power[e] \in Nat
  <2>1. \A e \in 1..n : power[e - 1] \in Nat => power[e] \in Nat
    BY <1>6
  <2>2. power[0] \in Nat
    BY <1>6
  <2> QED  BY <2>1, <2>2, StaysIn, Zenon
<1>8. \A e \in 0..n : power[e] >= e + 1
  <2> DEFINE X == {e \in 0..n : power[e] >= e + 1}
  <2>1. 0 \in X
    BY <1>6
  <2>2. ASSUME NEW e \in 1..n, e - 1 \in X PROVE e \in X
    <3>1. power[e - 1] >= e /\ power[e - 1] \in Nat
      BY <1>7, <2>2
    <3>2. power[e] = 2 * power[e - 1] /\ e \in 0..n
      BY <1>6
    <3>3. power[e] >= e + 1
      BY <3>1, <3>2
    <3> QED  BY <3>2, <3>3
  <2>3. \A e \in 0..n : e \in X
    <3> HIDE DEF X
    <3> QED  BY <2>1, <2>2, Upwards
  <2> QED  BY <2>3
<1> DEFINE Y == {e \in 0..n : power[e] >= n}
           first == CHOOSE e \in 0..n : power[e] >= n /\ \A d \in 0..(e - 1) : power[d] < n
<1>9. PICK m \in Y : \A e \in Y : m <= e
  <2>1. n \in Y /\ Y \in SUBSET Nat
    BY <1>7, <1>8
  <2> HIDE DEF Y
  <2> QED  BY <2>1, LeastNumber
<1>10. \A d \in 0..(m - 1) : power[d] < n
  <2> SUFFICES ASSUME NEW d \in 0..(m - 1) PROVE power[d] < n
    OBVIOUS
  <2>1. d \in 0..n /\ d \notin Y
    BY <1>9
  <2> QED  BY <1>7, <2>1
<1>11. first \in 0..n /\ power[first] >= n
  BY <1>9, <1>10
<1>12. NextPowerOfTwo(n) = power[first]
  BY Zenon DEF NextPowerOfTwo, power
<1> HIDE DEF first
<1> QED  BY <1>7, <1>11, <1>12

\* The largest of numbers
LEMMA MaxIs ==
  ASSUME NEW a \in Nat, NEW b \in Nat
  PROVE  Max({a, b}) \in Nat /\ Max({a, b}) >= a /\ Max({a, b}) >= b
<1>1. \E x \in {a, b} : \A y \in {a, b} : x >= y
  OBVIOUS
<1>2. Max({a, b}) \in {a, b} /\ \A y \in {a, b} : Max({a, b}) >= y
  BY <1>1 DEF Max
<1> QED  BY <1>2

\* The same of three
LEMMA MaxOfThree ==
  ASSUME NEW a \in Nat, NEW b \in Nat, NEW c \in Nat
  PROVE  /\ Max({a, b, c}) \in {a, b, c} /\ Max({a, b, c}) \in Nat
         /\ Max({a, b, c}) >= a /\ Max({a, b, c}) >= b /\ Max({a, b, c}) >= c
<1>1. \E x \in {a, b, c} : \A y \in {a, b, c} : x >= y
  <2>1. CASE a >= b /\ a >= c
    BY <2>1
  <2>2. CASE b >= a /\ b >= c
    BY <2>2
  <2>3. CASE c >= a /\ c >= b
    BY <2>3
  <2> QED  BY <2>1, <2>2, <2>3
<1>2. Max({a, b, c}) \in {a, b, c} /\ \A y \in {a, b, c} : Max({a, b, c}) >= y
  BY <1>1 DEF Max
<1> QED  BY <1>2

\* slot_count_for_min_live leaves three tenths of the slots free.
LEMMA SlotCountIs ==
  ASSUME NEW m \in Nat
  PROVE  /\ SlotCountForMinLive(m) \in Nat
         /\ m > 0 => 7 * SlotCountForMinLive(m) >= 10 * m /\ SlotCountForMinLive(m) >= MinSlots
<1>1. CASE m = 0
  BY <1>1 DEF SlotCountForMinLive
<1>2. CASE m > 0
  <2> DEFINE q == (10 * m + 6) \div 7
             x == Max({q, MinSlots})
  <2>1. q \in Nat /\ 7 * q >= 10 * m
    OBVIOUS
  <2>2. MinSlots \in Nat
    BY MinSlotsAssumption
  <2>3. SlotCountForMinLive(m) = NextPowerOfTwo(x)
    BY <1>2 DEF SlotCountForMinLive
  <2> HIDE DEF q
  <2>4. x \in Nat /\ x >= q /\ x >= MinSlots
    BY <2>1, <2>2, MaxIs
  <2> HIDE DEF x
  <2>5. NextPowerOfTwo(x) \in Nat /\ NextPowerOfTwo(x) >= x
    BY <2>4, NextPowerOfTwoIs
  <2> QED  BY <1>2, <2>1, <2>2, <2>3, <2>4, <2>5
<1> QED  BY <1>1, <1>2

(***************************************************************************)
(* Probing.                                                                *)
(***************************************************************************)

\* What a division leaves
LEMMA Remainder ==
  ASSUME NEW x \in Int, NEW n \in Int, n > 0
  PROVE  x \div n \in Int /\ x % n \in 0..(n - 1) /\ x = n * (x \div n) + (x % n)
<1>1. x \div n \in Int /\ x % n \in 0..(n - 1)
  OBVIOUS
<1>2. x = n * (x \div n) + (x % n)
  OBVIOUS
<1> QED  BY <1>1, <1>2

\* Two numbers below n that differ by a multiple of n are the same.
LEMMA RemainderUnique ==
  ASSUME NEW n \in Int, n > 0, NEW r \in 0..(n - 1), NEW s \in 0..(n - 1), NEW z \in Int, r - s = n * z
  PROVE  r = s
<1>1. CASE z >= 1
  <2>1. n * z >= n
    BY <1>1
  <2> QED  BY <2>1
<1>2. CASE z <= -1
  <2>1. n * z <= -n
    BY <1>2
  <2> QED  BY <2>1
<1>3. CASE z = 0
  BY <1>3
<1> QED  BY <1>1, <1>2, <1>3

\* Probing visits slots, and every slot within n steps.
LEMMA ProbeReaches ==
  ASSUME NEW n \in Nat, n > 0, NEW h \in Int
  PROVE  /\ \A d \in Nat : SlotAt(n, h, d) \in 0..(n - 1)
         /\ \A p \in 0..(n - 1) : \E d \in 0..(n - 1) : SlotAt(n, h, d) = p
<1>1. \A d \in Nat : SlotAt(n, h, d) \in 0..(n - 1)
  <2> SUFFICES ASSUME NEW d \in Nat PROVE (h + d) % n \in 0..(n - 1)
    BY DEF SlotAt
  <2>1. h + d \in Int /\ n \in Int
    OBVIOUS
  <2> QED  BY <2>1, Remainder
<1>2. ASSUME NEW p \in 0..(n - 1)
      PROVE  \E d \in 0..(n - 1) : SlotAt(n, h, d) = p
  <2> DEFINE d == (p - h) % n
             q == (p - h) \div n
             a == (h + d) \div n
             r == (h + d) % n
  <2>1. p - h \in Int /\ n \in Int
    OBVIOUS
  <2>2. q \in Int /\ d \in 0..(n - 1) /\ p - h = n * q + d
    BY <2>1, Remainder
  <2> HIDE DEF d, q
  <2>3. h + d \in Int
    BY <2>2
  <2>4. a \in Int /\ r \in 0..(n - 1) /\ h + d = n * a + r
    BY <2>1, <2>3, Remainder
  <2>5. SlotAt(n, h, d) = r
    BY DEF SlotAt
  <2> HIDE DEF a, r
  <2>6. p - r = n * q + n * a
    BY <2>1, <2>2, <2>4
  <2>7. n * q + n * a = n * (q + a)
    BY <2>2, <2>4
  <2>8. q + a \in Int /\ p - r = n * (q + a)
    BY <2>2, <2>4, <2>6, <2>7
  <2>9. p = r
    BY <2>1, <2>4, <2>8, RemainderUnique
  <2> QED  BY <2>2, <2>5, <2>9
<1> QED  BY <1>1, <1>2

\* Slots in which the entries E of es are seated: each is reached from the
\* home slot of its key before any empty slot, and no other entry is in a slot.
Seated(s, n, es, E) ==
  /\ s \in [0..(n - 1) -> Int]
  /\ \A p \in 0..(n - 1) : s[p] \in E \cup {Empty, Tombstone}
  /\ \A p, q \in 0..(n - 1) : s[p] > 0 /\ s[p] = s[q] => p = q
  /\ \A e \in E :
       \E d \in 0..(n - 1) : /\ s[SlotAt(n, HashOf[es[e].key], d)] = e
                             /\ \A c \in 0..(d - 1) : s[SlotAt(n, HashOf[es[e].key], c)] # Empty

\* An entry put where the probe for its key finds a free slot is seated.
LEMMA Seat ==
  ASSUME NEW n \in Nat, NEW s, NEW es, NEW E \in SUBSET (Nat \ {0}), Seated(s, n, es, E),
         NEW e \in Nat \ {0}, e \notin E, \A f \in E \cup {e} : HashOf[es[f].key] \in Int,
         NEW d \in 0..(n - 1), s[SlotAt(n, HashOf[es[e].key], d)] \in {Empty, Tombstone},
         \A c \in 0..(d - 1) : s[SlotAt(n, HashOf[es[e].key], c)] # Empty
  PROVE  Seated([s EXCEPT ![SlotAt(n, HashOf[es[e].key], d)] = e], n, es, E \cup {e})
<1> DEFINE at == SlotAt(n, HashOf[es[e].key], d)
           u == [s EXCEPT ![at] = e]
<1>1. /\ s \in [0..(n - 1) -> Int]
      /\ \A p \in 0..(n - 1) : s[p] \in E \cup {Empty, Tombstone}
      /\ \A p, q \in 0..(n - 1) : s[p] > 0 /\ s[p] = s[q] => p = q
  BY DEF Seated
<1>2. n > 0 /\ d \in Nat
  OBVIOUS
<1>3. \A f \in E \cup {e} : \A c \in 0..(n - 1) : SlotAt(n, HashOf[es[f].key], c) \in 0..(n - 1)
  <2> SUFFICES ASSUME NEW f \in E \cup {e}, NEW c \in 0..(n - 1)
               PROVE  SlotAt(n, HashOf[es[f].key], c) \in 0..(n - 1)
    OBVIOUS
  <2>1. HashOf[es[f].key] \in Int /\ c \in Nat
    OBVIOUS
  <2> QED  BY <1>2, <2>1, ProbeReaches
<1>4. at \in 0..(n - 1)
  BY <1>3
<1>5. /\ u \in [0..(n - 1) -> Int] /\ u[at] = e
      /\ \A p \in 0..(n - 1) : p # at => u[p] = s[p]
  <2> HIDE DEF at
  <2> QED  BY <1>1, <1>4
<1>6. s[at] \in {Empty, Tombstone}
  OBVIOUS
<1>7. \A p \in 0..(n - 1) : s[p] # Empty => u[p] # Empty
  BY <1>5 DEF Empty
<1> HIDE DEF u
<1>8. \A p \in 0..(n - 1) : u[p] \in E \cup {e} \cup {Empty, Tombstone}
  BY <1>1, <1>5
<1>9. \A p, q \in 0..(n - 1) : u[p] > 0 /\ u[p] = u[q] => p = q
  <2> SUFFICES ASSUME NEW p \in 0..(n - 1), NEW q \in 0..(n - 1), u[p] > 0, u[p] = u[q]
               PROVE  p = q
    OBVIOUS
  <2>1. \A x \in 0..(n - 1) : s[x] # e
    BY <1>1, SMTT(20) DEF Empty, Tombstone
  <2> QED  BY <1>1, <1>5, <2>1, Zenon
<1>10. ASSUME NEW f \in E \cup {e}
       PROVE  \E b \in 0..(n - 1) : /\ u[SlotAt(n, HashOf[es[f].key], b)] = f
                                    /\ \A c \in 0..(b - 1) : u[SlotAt(n, HashOf[es[f].key], c)] # Empty
  <2>1. CASE f = e
    <3>1. \A c \in 0..(d - 1) : SlotAt(n, HashOf[es[e].key], c) \in 0..(n - 1)
      BY <1>3
    <3>2. \A c \in 0..(d - 1) : u[SlotAt(n, HashOf[es[e].key], c)] # Empty
      BY <1>7, <3>1
    <3> QED  BY <1>5, <2>1, <3>2, Zenon
  <2>2. CASE f \in E
    <3>1. PICK b \in 0..(n - 1) : /\ s[SlotAt(n, HashOf[es[f].key], b)] = f
                                  /\ \A c \in 0..(b - 1) : s[SlotAt(n, HashOf[es[f].key], c)] # Empty
      BY <2>2 DEF Seated
    <3>2. SlotAt(n, HashOf[es[f].key], b) \in 0..(n - 1)
      BY <1>3
    <3>3. SlotAt(n, HashOf[es[f].key], b) # at
      <4>1. f \notin {Empty, Tombstone}
        BY <2>2 DEF Empty, Tombstone
      <4> HIDE DEF at
      <4> QED  BY <1>6, <3>1, <4>1, Zenon
    <3>4. \A c \in 0..(b - 1) : SlotAt(n, HashOf[es[f].key], c) \in 0..(n - 1)
      <4>1. \A c \in 0..(b - 1) : c \in 0..(n - 1)
        OBVIOUS
      <4> QED  BY <1>3, <4>1, Zenon
    <3>5. \A c \in 0..(b - 1) : u[SlotAt(n, HashOf[es[f].key], c)] # Empty
      BY <1>7, <3>1, <3>4, SMTT(20)
    <3> QED  BY <1>5, <3>1, <3>2, <3>3, <3>5
  <2> QED  BY <2>1, <2>2, SMTT(20)
<1>11. Seated(u, n, es, E \cup {e})
  BY <1>5, <1>8, <1>9, <1>10, Zenon DEF Seated
<1> QED  BY <1>11 DEF u

\* An entry whose slot becomes a tombstone is no longer seated; the others are.
LEMMA Unseat ==
  ASSUME NEW n \in Nat, NEW s, NEW es, NEW E \in SUBSET (Nat \ {0}), Seated(s, n, es, E),
         \A f \in E : HashOf[es[f].key] \in Int,
         NEW at \in 0..(n - 1), s[at] \in E
  PROVE  Seated([s EXCEPT ![at] = Tombstone], n, es, E \ {s[at]})
<1> DEFINE u == [s EXCEPT ![at] = Tombstone]
           e == s[at]
<1>1. /\ s \in [0..(n - 1) -> Int]
      /\ \A p \in 0..(n - 1) : s[p] \in E \cup {Empty, Tombstone}
      /\ \A p, q \in 0..(n - 1) : s[p] > 0 /\ s[p] = s[q] => p = q
  BY DEF Seated
<1>2. /\ u \in [0..(n - 1) -> Int] /\ u[at] = Tombstone
      /\ \A p \in 0..(n - 1) : p # at => u[p] = s[p]
  BY <1>1 DEF Tombstone
<1>3. e \in Nat /\ e > 0
  <2>1. e \in Nat \ {0}
    BY Zenon
  <2> QED  BY <2>1
<1> HIDE DEF u
<1>4. \A p \in 0..(n - 1) : u[p] \in (E \ {e}) \cup {Empty, Tombstone}
  BY <1>1, <1>2, <1>3
<1>5. \A p, q \in 0..(n - 1) : u[p] > 0 /\ u[p] = u[q] => p = q
  <2> SUFFICES ASSUME NEW p \in 0..(n - 1), NEW q \in 0..(n - 1), u[p] > 0, u[p] = u[q]
               PROVE  p = q
    OBVIOUS
  <2>1. p # at /\ q # at
    BY <1>2 DEF Tombstone
  <2> QED  BY <1>1, <1>2, <2>1
<1>6. ASSUME NEW f \in E \ {e}
      PROVE  \E b \in 0..(n - 1) : /\ u[SlotAt(n, HashOf[es[f].key], b)] = f
                                   /\ \A c \in 0..(b - 1) : u[SlotAt(n, HashOf[es[f].key], c)] # Empty
  <2>1. PICK b \in 0..(n - 1) : /\ s[SlotAt(n, HashOf[es[f].key], b)] = f
                                /\ \A c \in 0..(b - 1) : s[SlotAt(n, HashOf[es[f].key], c)] # Empty
    BY Zenon DEF Seated
  <2>2. n > 0 /\ HashOf[es[f].key] \in Int
    OBVIOUS
  <2>3. \A c \in Nat : SlotAt(n, HashOf[es[f].key], c) \in 0..(n - 1)
    BY <2>2, ProbeReaches, Zenon
  <2>4. b \in Nat /\ \A c \in 0..(b - 1) : c \in Nat
    OBVIOUS
  <2>5. SlotAt(n, HashOf[es[f].key], b) # at
    BY <2>1
  <2>6. u[SlotAt(n, HashOf[es[f].key], b)] = f
    BY <1>2, <2>1, <2>3, <2>4, <2>5, Zenon
  <2>7. \A p \in 0..(n - 1) : s[p] # Empty => u[p] # Empty
    BY <1>2 DEF Empty, Tombstone
  <2>8. \A c \in 0..(b - 1) : u[SlotAt(n, HashOf[es[f].key], c)] # Empty
    BY <2>1, <2>3, <2>4, <2>7
  <2> QED  BY <2>6, <2>8
<1>7. Seated(u, n, es, E \ {e})
  BY <1>2, <1>4, <1>5, <1>6 DEF Seated
<1> QED  BY <1>7 DEF u

\* Only the keys of the entries matter.
LEMMA SeatedSameKeys ==
  ASSUME NEW n, NEW s, NEW es, NEW fs, NEW E, Seated(s, n, es, E), \A e \in E : fs[e].key = es[e].key
  PROVE  Seated(s, n, fs, E)
<1>1. ASSUME NEW e \in E
      PROVE  \E d \in 0..(n - 1) : /\ s[SlotAt(n, HashOf[fs[e].key], d)] = e
                                   /\ \A c \in 0..(d - 1) : s[SlotAt(n, HashOf[fs[e].key], c)] # Empty
  <2>1. fs[e].key = es[e].key
    OBVIOUS
  <2>2. \E d \in 0..(n - 1) : /\ s[SlotAt(n, HashOf[es[e].key], d)] = e
                              /\ \A c \in 0..(d - 1) : s[SlotAt(n, HashOf[es[e].key], c)] # Empty
    BY Zenon DEF Seated
  <2> QED  BY <2>1, <2>2
<1> QED  BY <1>1, Zenon DEF Seated

\* The slot at which rehash puts entry i, and the slots with it
PlaceIn(s, n, h) == SlotAt(n, h, Min({c \in 0..(n - 1) : s[SlotAt(n, h, c)] = Empty}))

\* place is the recursive function of Placed(es, n).
Places(place, es, n) ==
  /\ place \in [0..Len(es) -> [0..(n - 1) -> Nat]]
  /\ place[0] = [j \in 0..(n - 1) |-> Empty] /\ place[Len(es)] = Placed(es, n)
  /\ \A i \in 1..Len(es) :
       place[i] = [place[i - 1] EXCEPT ![PlaceIn(place[i - 1], n, HashOf[es[i].key])] = i]

\* That function satisfies the equation that defines it.
LEMMA PlacedEquation ==
  ASSUME NEW T, NEW es \in Seq(T), NEW n \in Nat
  PROVE  \E place : Places(place, es, n)
<1> DEFINE m == Len(es)
           S == [0..(n - 1) -> Nat]
           none == [j \in 0..(n - 1) |-> Empty]
           next(i, s) == [s EXCEPT ![PlaceIn(s, n, HashOf[es[i].key])] = i]
           G == [i \in 1..m |-> [s \in S |-> next(i, s)]]
           Eq(f) == f = [i \in 0..m |-> IF i = 0 THEN none ELSE next(i, f[i - 1])]
           place == CHOOSE f : Eq(f)
<1>0. m \in Nat /\ none \in S
  BY DEF Empty
<1>1. \A i \in 1..m, s \in S : next(i, s) \in S
  <2> SUFFICES ASSUME NEW i \in 1..m, NEW s \in S PROVE next(i, s) \in S
    OBVIOUS
  <2> DEFINE p == PlaceIn(s, n, HashOf[es[i].key])
  <2>1. i \in Nat
    BY <1>0
  <2>2. [s EXCEPT ![p] = i] \in S
    <3> HIDE DEF p
    <3> QED  BY <2>1, Zenon
  <2> QED  BY <2>2
<1>2. Placed(es, n) = place[m]
  BY DEF Placed, PlaceIn
<1> HIDE DEF S, none, next, m
<1>3. PICK f : Builds(f, m, S, none, G)
  <2>1. G \in [1..m -> [S -> S]]
    BY <1>1
  <2> HIDE DEF G
  <2> QED  BY <1>0, <2>1, Recursion
<1>4. f \in [0..m -> S] /\ f[0] = none /\ \A i \in 1..m : f[i] = G[i][f[i - 1]]
  BY <1>3 DEF Builds
<1>5. \A i \in 0..m : f[i] = IF i = 0 THEN none ELSE next(i, f[i - 1])
  <2> SUFFICES ASSUME NEW i \in 0..m PROVE f[i] = IF i = 0 THEN none ELSE next(i, f[i - 1])
    OBVIOUS
  <2>1. CASE i = 0
    BY <1>4, <2>1
  <2>2. CASE i \in 1..m
    <3>1. f[i - 1] \in S
      BY <1>0, <1>4, <2>2
    <3> QED  BY <1>0, <1>4, <2>2, <3>1
  <2> QED  BY <1>0, <2>1, <2>2
<1>6. Eq(f)
  BY <1>4, <1>5
<1>7. Eq(place)
  BY <1>6, Zenon
<1> HIDE DEF place
<1>8. DOMAIN place = 0..m /\ place[0] = none /\ \A i \in 1..m : place[i] = next(i, place[i - 1])
  <2>1. \A i \in 0..m : place[i] = IF i = 0 THEN none ELSE next(i, place[i - 1])
    BY <1>7, Zenon
  <2> QED  BY <1>0, <1>7, <2>1
<1>9. \A i \in 0..m : place[i] \in S
  <2>1. \A i \in 1..m : place[i - 1] \in S => place[i] \in S
    BY <1>1, <1>8
  <2>2. place[0] \in S
    BY <1>0, <1>8
  <2> QED  BY <1>0, <2>1, <2>2, StaysIn
<1>10. place \in [0..m -> S]
  <2>1. place = [i \in 0..m |-> place[i]]
    BY <1>7, <1>8, Zenon
  <2> QED  BY <1>9, <2>1
<1>11. Places(place, es, n)
  BY <1>2, <1>8, <1>10 DEF Places, S, none, next, m
<1> QED  BY <1>11

\* The number of slots
LEMMA NumSlotsIs ==
  ASSUME NEW t, NEW n \in Nat, DOMAIN t.slots = 0..(n - 1)
  PROVE  NumSlots(t) = n
<1>1. Cardinality(0..(n - 1)) = IF 0 > n - 1 THEN 0 ELSE (n - 1) - 0 + 1
  BY FS_Interval
<1> QED  BY <1>1 DEF NumSlots

\* Fewer entries and tombstones than slots leave an empty slot.
LEMMA FreeSlot ==
  ASSUME NEW n \in Nat, NEW s, NEW es, NEW E \in SUBSET (Nat \ {0}), Seated(s, n, es, E), IsFiniteSet(E),
         Cardinality(E) + Cardinality({p \in 0..(n - 1) : s[p] = Tombstone}) < n
  PROVE  \E p \in 0..(n - 1) : s[p] = Empty
<1> SUFFICES ASSUME \A p \in 0..(n - 1) : s[p] # Empty
             PROVE  FALSE
  OBVIOUS
<1> DEFINE All == 0..(n - 1)
           Occupied == {p \in All : s[p] \in E}
           Tombs == {p \in All : s[p] = Tombstone}
           f == [p \in Occupied |-> s[p]]
<1>1. /\ s \in [0..(n - 1) -> Int]
      /\ \A p \in 0..(n - 1) : s[p] \in E \cup {Empty, Tombstone}
      /\ \A p, q \in 0..(n - 1) : s[p] > 0 /\ s[p] = s[q] => p = q
  BY DEF Seated
<1>2. IsFiniteSet(All) /\ Cardinality(All) = n
  <2>1. 0 \in Int /\ n - 1 \in Int
    OBVIOUS
  <2>2. IsFiniteSet(0..(n - 1)) /\ Cardinality(0..(n - 1)) = IF 0 > n - 1 THEN 0 ELSE (n - 1) - 0 + 1
    BY <2>1, FS_Interval
  <2> QED  BY <2>2
<1>3. f \in Injection(Occupied, E)
  <2>1. f \in [Occupied -> E]
    OBVIOUS
  <2>2. \A p, q \in Occupied : f[p] = f[q] => p = q
    BY <1>1
  <2> HIDE DEF f, Occupied
  <2> QED  BY <2>1, <2>2 DEF Injection, IsInjective
<1>4. Cardinality(Occupied) <= Cardinality(E)
  <2> HIDE DEF f, Occupied
  <2> QED  BY <1>3, FS_Injection
<1>5. All = Occupied \cup Tombs
  BY <1>1
<1> HIDE DEF All, Occupied, Tombs
<1>6. Occupied \in SUBSET All /\ Tombs \in SUBSET All
  BY <1>5
<1>7. IsFiniteSet(Occupied) /\ IsFiniteSet(Tombs)
  BY <1>2, <1>6, FS_Subset
<1>8. IsFiniteSet(Occupied \cap Tombs)
  BY <1>7, FS_Intersection
<1>9. /\ Cardinality(E) \in Nat /\ Cardinality(Occupied) \in Nat /\ Cardinality(Tombs) \in Nat
      /\ Cardinality(Occupied \cap Tombs) \in Nat
  BY <1>7, <1>8, FS_CardinalityType
<1>10. Cardinality(All) = Cardinality(Occupied) + Cardinality(Tombs) - Cardinality(Occupied \cap Tombs)
  BY <1>5, <1>7, FS_Union
<1>11. Cardinality(E) + Cardinality(Tombs) < n
  BY DEF Tombs, All
<1> QED  BY <1>2, <1>4, <1>9, <1>10, <1>11

\* rehash seats every entry, when there are more slots than entries.
LEMMA PlacedIs ==
  ASSUME NEW T, NEW es \in Seq(T), NEW n \in Nat, Len(es) < n \/ es = <<>>,
         \A i \in 1..Len(es) : HashOf[es[i].key] \in Int
  PROVE  /\ Seated(Placed(es, n), n, es, 1..Len(es)) /\ Placed(es, n) \in [0..(n - 1) -> Nat]
         /\ \A p \in 0..(n - 1) : Placed(es, n)[p] # Tombstone
<1> DEFINE m == Len(es)
<1>0. m \in Nat
  OBVIOUS
<1>1. PICK place : Places(place, es, n)
  BY PlacedEquation
<1>2. /\ place \in [0..m -> [0..(n - 1) -> Nat]] /\ place[m] = Placed(es, n)
      /\ place[0] = [j \in 0..(n - 1) |-> Empty]
      /\ \A i \in 1..m : place[i] = [place[i - 1] EXCEPT ![PlaceIn(place[i - 1], n, HashOf[es[i].key])] = i]
  BY <1>1 DEF Places
<1> DEFINE X == {i \in 0..m : Seated(place[i], n, es, 1..i)}
<1>3. \A i \in 0..m : place[i] \in [0..(n - 1) -> Nat] /\ \A p \in 0..(n - 1) : place[i][p] # Tombstone
  <2> SUFFICES ASSUME NEW i \in 0..m
               PROVE  place[i] \in [0..(n - 1) -> Nat] /\ \A p \in 0..(n - 1) : place[i][p] # Tombstone
    OBVIOUS
  <2>1. place[i] \in [0..(n - 1) -> Nat]
    BY <1>2
  <2> QED  BY <2>1 DEF Tombstone
<1>4. 0 \in X
  <2>1. Seated([j \in 0..(n - 1) |-> Empty], n, es, 1..0)
    BY DEF Seated, Empty
  <2>2. 0 \in 0..m
    BY <1>0
  <2>3. Seated(place[0], n, es, 1..0)
    BY <1>2, <2>1, Zenon
  <2> QED  BY <2>2, <2>3, Zenon
<1>5. ASSUME NEW i \in 1..m, i - 1 \in X
      PROVE  i \in X
  <2> DEFINE s == place[i - 1]
             h == HashOf[es[i].key]
             free == {c \in 0..(n - 1) : s[SlotAt(n, h, c)] = Empty}
             d == Min(free)
             E == 1..(i - 1)
             T1 == {p \in 0..(n - 1) : s[p] = Tombstone}
  <2>0. i - 1 \in 0..m /\ i \in 0..m /\ i \in Nat \ {0} /\ m < n /\ n > 0
    <3>1. i - 1 \in 0..m /\ i \in 0..m /\ i \in Nat \ {0}
      BY <1>0
    <3>2. es # <<>>
      OBVIOUS
    <3> QED  BY <1>0, <3>1, <3>2
  <2>1. Seated(s, n, es, E)
    BY <1>5
  <2>2. s \in [0..(n - 1) -> Nat] /\ \A p \in 0..(n - 1) : s[p] # Tombstone
    BY <1>3, <2>0
  <2>3. h \in Int /\ \A f \in E \cup {i} : HashOf[es[f].key] \in Int
    BY <1>0
  <2>4. E \in SUBSET (Nat \ {0}) /\ IsFiniteSet(E) /\ Cardinality(E) = i - 1 /\ i \notin E
    <3>0. 1 \in Int /\ i - 1 \in Int
      BY <2>0
    <3>1. IsFiniteSet(1..(i - 1)) /\ Cardinality(1..(i - 1)) = IF 1 > i - 1 THEN 0 ELSE (i - 1) - 1 + 1
      BY <3>0, FS_Interval, Zenon
    <3> QED  BY <1>0, <3>1
  <2>5. T1 = {} /\ Cardinality(T1) = 0
    BY <2>2, FS_EmptySet, Zenon
  <2>6. PICK p \in 0..(n - 1) : s[p] = Empty
    <3>1. Cardinality(E) + Cardinality(T1) < n
      BY <1>0, <2>0, <2>4, <2>5
    <3> HIDE DEF E, s
    <3> QED  BY <2>1, <2>4, <3>1, FreeSlot, Zenon
  <2>7. free # {} /\ free \in SUBSET Nat
    <3>1. PICK c \in 0..(n - 1) : SlotAt(n, h, c) = p
      <4> HIDE DEF h
      <4> QED  BY <2>0, <2>3, ProbeReaches, Zenon
    <3> QED  BY <2>6, <3>1
  <2>8. d \in free /\ \A c \in free : d <= c
    <3> HIDE DEF free
    <3> QED  BY <2>7, MinIs
  <2>9. d \in 0..(n - 1) /\ s[SlotAt(n, h, d)] = Empty
    <3> HIDE DEF d
    <3> QED  BY <2>8
  <2>10. \A c \in 0..(d - 1) : s[SlotAt(n, h, c)] # Empty
    <3> HIDE DEF d
    <3> SUFFICES ASSUME NEW c \in 0..(d - 1), s[SlotAt(n, h, c)] = Empty PROVE FALSE
      OBVIOUS
    <3>1. c \in 0..(n - 1)
      BY <2>0, <2>9
    <3>2. c \in free
      BY <3>1
    <3>3. d <= c
      BY <2>8, <3>2, Zenon
    <3> HIDE DEF free
    <3> QED  BY <2>0, <2>9, <3>3
  <2>11. place[i] = [s EXCEPT ![SlotAt(n, h, d)] = i]
    BY <1>2, Zenon DEF PlaceIn
  <2> HIDE DEF d
  <2>12. Seated([s EXCEPT ![SlotAt(n, h, d)] = i], n, es, E \cup {i})
    <3> HIDE DEF s, E
    <3> QED  BY <2>0, <2>1, <2>3, <2>4, <2>9, <2>10, Seat, Zenon
  <2>13. E \cup {i} = 1..i
    BY <1>0
  <2>14. Seated(place[i], n, es, 1..i)
    BY <2>11, <2>12, <2>13, Zenon
  <2> QED  BY <2>0, <2>14
<1>6. m \in X
  <2> HIDE DEF X, m
  <2>1. \A i \in 0..m : i \in X
    BY <1>0, <1>4, <1>5, Upwards, Zenon
  <2> QED  BY <1>0, <2>1
<1>7. Seated(place[m], n, es, 1..m)
  BY <1>6
<1>8. m \in 0..m
  BY <1>0
<1> HIDE DEF X
<1> QED  BY <1>2, <1>3, <1>7, <1>8, Zenon

(***************************************************************************)
(* The open-addressing table.                                              *)
(***************************************************************************)

Slot == [key : Primitive, value : Values, live : BOOLEAN]

Stripped(es) == [i \in 1..Len(es) |-> [key |-> es[i].key, value |-> es[i].value]]

TombsOf(t) == {p \in DOMAIN t.slots : t.slots[p] = Tombstone}

\* The entries of a table: one live entry per key
EntriesOK(t) ==
  /\ t.entries \in Seq(Slot)
  /\ \A i, j \in LiveAt(t) : t.entries[i].key = t.entries[j].key => i = j

\* A table of n slots: the live entries are seated and counted, and the
\* tombstones.
TableOf(t, n) ==
  /\ t = [entries |-> t.entries, slots |-> t.slots, live |-> t.live, tombs |-> t.tombs]
  /\ EntriesOK(t)
  /\ n \in Nat /\ Seated(t.slots, n, t.entries, LiveAt(t))
  /\ t.live = Cardinality(LiveAt(t)) /\ t.tombs = Cardinality(TombsOf(t))

\* A table has no slots, or at least the smallest number and one of them free.
TableOK(t) == \E n : TableOf(t, n) /\ (n = 0 \/ (n >= MinSlots /\ t.live + t.tombs < n))

\* What the parts of a table are
LEMMA TableParts ==
  ASSUME NEW t, NEW n, TableOf(t, n)
  PROVE  /\ n \in Nat /\ NumSlots(t) = n /\ DOMAIN t.slots = 0..(n - 1)
         /\ t.entries \in Seq(Slot) /\ Len(t.entries) \in Nat
         /\ LiveAt(t) \in SUBSET (1..Len(t.entries)) /\ LiveAt(t) \in SUBSET (Nat \ {0})
         /\ IsFiniteSet(LiveAt(t)) /\ t.live \in Nat
         /\ IsFiniteSet(TombsOf(t)) /\ t.tombs \in Nat
         /\ \A i \in 1..Len(t.entries) : t.entries[i].key \in Primitive /\ HashOf[t.entries[i].key] \in Int
<1>1. n \in Nat /\ DOMAIN t.slots = 0..(n - 1)
  BY DEF TableOf, Seated
<1>2. NumSlots(t) = n
  BY <1>1, NumSlotsIs
<1>3. t.entries \in Seq(Slot) /\ Len(t.entries) \in Nat
  <2>1. t.entries \in Seq(Slot)
    BY DEF TableOf, EntriesOK
  <2> QED  BY <2>1
<1>4. LiveAt(t) \in SUBSET (1..Len(t.entries))
  BY DEF LiveAt
<1>5. LiveAt(t) \in SUBSET (Nat \ {0})
  BY <1>3, <1>4
<1>6. IsFiniteSet(LiveAt(t)) /\ t.live \in Nat
  <2>1. 1 \in Int /\ Len(t.entries) \in Int
    BY <1>3
  <2>2. IsFiniteSet(1..Len(t.entries))
    BY <2>1, FS_Interval
  <2>3. IsFiniteSet(LiveAt(t))
    BY <1>4, <2>2, FS_Subset
  <2> QED  BY <2>3, FS_CardinalityType DEF TableOf
<1>7. IsFiniteSet(TombsOf(t)) /\ t.tombs \in Nat
  <2>1. 0 \in Int /\ n - 1 \in Int
    BY <1>1
  <2>2. IsFiniteSet(0..(n - 1))
    BY <2>1, FS_Interval
  <2>3. TombsOf(t) \in SUBSET (0..(n - 1))
    BY <1>1 DEF TombsOf
  <2>4. IsFiniteSet(TombsOf(t))
    BY <2>2, <2>3, FS_Subset, Zenon
  <2> QED  BY <2>4, FS_CardinalityType DEF TableOf
<1>8. \A i \in 1..Len(t.entries) : t.entries[i].key \in Primitive /\ HashOf[t.entries[i].key] \in Int
  <2> SUFFICES ASSUME NEW i \in 1..Len(t.entries)
               PROVE  t.entries[i].key \in Primitive /\ HashOf[t.entries[i].key] \in Int
    OBVIOUS
  <2>1. t.entries[i] \in Slot
    BY <1>3
  <2>2. t.entries[i].key \in Primitive
    BY <2>1 DEF Slot
  <2> QED  BY <2>2, KeysAssumption DEF Keys
<1> QED  BY <1>1, <1>2, <1>3, <1>4, <1>5, <1>6, <1>7, <1>8

\* Every probe of a table with a free slot stops; at an entry of its key, and
\* if there is a live one, it is that.
LEMMA ProbeStops ==
  ASSUME NEW t, NEW n, TableOf(t, n), n > 0, t.live + t.tombs < n, NEW k \in Primitive
  PROVE  LET d == Min(Stops(t, k))
             at == SlotAt(n, HashOf[k], d)
         IN  /\ Stops(t, k) # {} /\ d \in 0..(n - 1) /\ at \in 0..(n - 1) /\ Lookup(t, k) = t.slots[at]
             /\ \A c \in 0..(d - 1) : t.slots[SlotAt(n, HashOf[k], c)] # Empty
             /\ \/ /\ Lookup(t, k) \in LiveAt(t) /\ t.entries[Lookup(t, k)].key = k
                \/ /\ Lookup(t, k) = Empty /\ \A i \in LiveAt(t) : t.entries[i].key # k
<1> DEFINE s == t.slots
           h == HashOf[k]
           E == LiveAt(t)
           P == Stops(t, k)
           d == Min(P)
           at == SlotAt(n, h, d)
<1>0. /\ n \in Nat /\ NumSlots(t) = n /\ DOMAIN s = 0..(n - 1)
      /\ E \in SUBSET (Nat \ {0}) /\ IsFiniteSet(E) /\ h \in Int
  <2>1. h \in Int
    BY KeysAssumption DEF Keys
  <2> QED  BY <2>1, TableParts
<1>1. Seated(s, n, t.entries, E)
  BY DEF TableOf
<1>2. PICK p \in 0..(n - 1) : s[p] = Empty
  <2>1. TombsOf(t) = {q \in 0..(n - 1) : s[q] = Tombstone}
    BY <1>0 DEF TombsOf
  <2>2. Cardinality(E) + Cardinality({q \in 0..(n - 1) : s[q] = Tombstone}) < n
    BY <2>1 DEF TableOf
  <2> HIDE DEF E, s
  <2> QED  BY <1>0, <1>1, <2>2, FreeSlot
<1>3. P = {c \in 0..(n - 1) : s[SlotAt(n, h, c)] = Empty \/ Matches(t, s[SlotAt(n, h, c)], k)}
  BY <1>0 DEF Stops
<1>4. P # {} /\ P \in SUBSET Nat
  <2>1. PICK c \in 0..(n - 1) : SlotAt(n, h, c) = p
    <3> HIDE DEF h
    <3>1. n \in Nat /\ n > 0 /\ h \in Int
      BY <1>0
    <3>2. \A q \in 0..(n - 1) : \E c \in 0..(n - 1) : SlotAt(n, h, c) = q
      BY <3>1, ProbeReaches
    <3> QED  BY <3>2, Zenon
  <2>2. c \in P
    BY <1>2, <1>3, <2>1
  <2>3. \A x \in P : x \in Nat
    BY <1>3
  <2> QED  BY <2>2, <2>3, Zenon
<1>5. d \in P /\ \A c \in P : d <= c
  <2> HIDE DEF P
  <2> QED  BY <1>4, MinIs
<1> HIDE DEF d, P
<1>6. d \in 0..(n - 1) /\ (s[at] = Empty \/ Matches(t, s[at], k))
  BY <1>3, <1>5
<1>7. \A c \in 0..(d - 1) : s[SlotAt(n, h, c)] # Empty /\ ~Matches(t, s[SlotAt(n, h, c)], k)
  <2> SUFFICES ASSUME NEW c \in 0..(d - 1), s[SlotAt(n, h, c)] = Empty \/ Matches(t, s[SlotAt(n, h, c)], k)
               PROVE  FALSE
    OBVIOUS
  <2>1. c \in 0..(n - 1)
    BY <1>0, <1>6
  <2>2. c \in P
    BY <1>3, <2>1
  <2>3. d <= c
    BY <1>5, <2>2
  <2> QED  BY <1>0, <1>6, <2>3
<1>8. at \in 0..(n - 1)
  <2>1. d \in Nat
    BY <1>6
  <2> HIDE DEF h
  <2> QED  BY <1>0, <2>1, ProbeReaches
<1>9. Lookup(t, k) = s[at]
  BY <1>0 DEF Lookup, d, P
<1> HIDE DEF s, at, h
<1>10. \/ s[at] \in E /\ t.entries[s[at]].key = k
       \/ s[at] = Empty /\ \A i \in E : t.entries[i].key # k
  <2>1. CASE Matches(t, s[at], k)
    <3>1. s[at] \in E \cup {Empty, Tombstone}
      BY <1>1, <1>8 DEF Seated
    <3>2. s[at] > 0 /\ t.entries[s[at]].key = k
      BY <2>1 DEF Matches
    <3> QED  BY <3>1, <3>2 DEF Empty, Tombstone
  <2>2. CASE s[at] = Empty
    <3> SUFFICES ASSUME NEW i \in E, t.entries[i].key = k
                 PROVE  FALSE
      BY <2>2
    <3>1. HashOf[t.entries[i].key] = h
      BY DEF h
    <3>2. PICK b \in 0..(n - 1) : /\ s[SlotAt(n, h, b)] = i
                                  /\ \A c \in 0..(b - 1) : s[SlotAt(n, h, c)] # Empty
      <4>1. \A e \in E : \E b \in 0..(n - 1) :
              /\ s[SlotAt(n, HashOf[t.entries[e].key], b)] = e
              /\ \A c \in 0..(b - 1) : s[SlotAt(n, HashOf[t.entries[e].key], c)] # Empty
        BY <1>1 DEF Seated
      <4> HIDE DEF E
      <4>2. \E b \in 0..(n - 1) :
              /\ s[SlotAt(n, HashOf[t.entries[i].key], b)] = i
              /\ \A c \in 0..(b - 1) : s[SlotAt(n, HashOf[t.entries[i].key], c)] # Empty
        BY <4>1, Zenon
      <4> QED  BY <3>1, <4>2, SMTT(20)
    <3>3. i > 0 /\ t.entries[i].live
      <4>1. i \in 1..Len(t.entries) /\ t.entries[i].live
        BY DEF LiveAt
      <4>2. Len(t.entries) \in Nat
        BY <1>0
      <4> QED  BY <4>1, <4>2
    <3>4. Matches(t, s[SlotAt(n, h, b)], k)
      BY <3>2, <3>3 DEF Matches
    <3>5. b \in P
      BY <1>3, <3>4
    <3>6. d <= b
      BY <1>5, <3>5
    <3>7. d # b
      BY <1>0, <2>2, <3>2 DEF at, Empty
    <3>8. d \in 0..(b - 1)
      BY <1>0, <1>6, <3>6, <3>7
    <3> QED  BY <2>2, <3>2, <3>8 DEF at
  <2> QED  BY <1>6, <2>1, <2>2
<1> QED  BY <1>4, <1>6, <1>7, <1>8, <1>9, <1>10, Zenon DEF s, at, h, d, P

\* A list has as many items as the set it lists.
LEMMA EnumerationCount ==
  ASSUME NEW P \in SUBSET Nat, NEW at, Enumerates(at, P)
  PROVE  Cardinality(P) = Len(at)
<1>1. at \in Seq(P) /\ Len(at) \in Nat
  BY DEF Enumerates
<1>2. at \in [1..Len(at) -> P]
  BY <1>1
<1>3. \A i, j \in 1..Len(at) : at[i] = at[j] => i = j
  <2> SUFFICES ASSUME NEW i \in 1..Len(at), NEW j \in 1..Len(at), at[i] = at[j] PROVE i = j
    OBVIOUS
  <2>1. at[i] \in Nat /\ at[j] \in Nat
    BY <1>2, Zenon
  <2>2. ~(at[i] < at[j]) /\ ~(at[j] < at[i])
    BY <2>1
  <2>3. ~(i < j) /\ ~(j < i)
    BY <2>2 DEF Enumerates
  <2> QED  BY <1>1, <2>3
<1>4. at \in Injection(1..Len(at), P)
  BY <1>2, <1>3 DEF Injection, IsInjective
<1>5. at \in Surjection(1..Len(at), P)
  BY <1>2 DEF Surjection, Enumerates
<1>6. ExistsBijection(1..Len(at), P)
  BY <1>4, <1>5 DEF ExistsBijection, Bijection
<1>7. IsFiniteSet(1..Len(at)) /\ Cardinality(1..Len(at)) = Len(at)
  <2>1. 1 \in Int /\ Len(at) \in Int
    BY <1>1
  <2>2. /\ IsFiniteSet(1..Len(at))
        /\ Cardinality(1..Len(at)) = IF 1 > Len(at) THEN 0 ELSE Len(at) - 1 + 1
    BY <2>1, FS_Interval
  <2> QED  BY <1>1, <2>2
<1> QED  BY <1>6, <1>7, FS_Bijection

\* The entries without their marks
LEMMA StrippedIs ==
  ASSUME NEW es \in Seq(Slot)
  PROVE  /\ Stripped(es) \in Seq(Entry) /\ Len(Stripped(es)) = Len(es) /\ Len(es) \in Nat
         /\ \A i \in 1..Len(es) : Stripped(es)[i] = [key |-> es[i].key, value |-> es[i].value]
<1>1. Len(es) \in Nat
  OBVIOUS
<1>2. \A i \in 1..Len(es) : [key |-> es[i].key, value |-> es[i].value] \in Entry
  <2> SUFFICES ASSUME NEW i \in 1..Len(es) PROVE [key |-> es[i].key, value |-> es[i].value] \in Entry
    OBVIOUS
  <2>1. es[i] \in Slot
    OBVIOUS
  <2>2. es[i].key \in Keys /\ es[i].value \in Values
    BY <2>1, SMTT(20) DEF Slot, Keys
  <2> QED  BY <2>2 DEF Entry
<1> QED  BY <1>1, <1>2 DEF Stripped

\* The list s has what is in es at the positions at, all of them in P.
Shows(s, es, P, at) ==
  /\ s \in Seq(Entry) /\ Len(s) = Len(at) /\ Len(at) \in Nat
  /\ \A j \in 1..Len(at) :
       /\ at[j] \in P /\ at[j] \in 1..Len(es)
       /\ s[j] = [key |-> es[at[j]].key, value |-> es[at[j]].value]

\* The snapshot of a table is a list of its live entries,
LEMMA SnapshotIs ==
  ASSUME NEW t, EntriesOK(t)
  PROVE  /\ Snapshot(t) = Kept(Stripped(t.entries), LiveAt(t))
         /\ LiveAt(t) \in SUBSET (1..Len(t.entries)) /\ LiveAt(t) \in SUBSET Nat
         /\ \E at : Enumerates(at, LiveAt(t))
<1> DEFINE es == t.entries
           P == LiveAt(t)
<1>1. es \in Seq(Slot) /\ Len(es) \in Nat
  BY DEF EntriesOK
<1>2. Snapshot(t) = Kept(Stripped(es), P)
  BY DEF Snapshot, Stripped
<1>3. P \in SUBSET (1..Len(es))
  BY DEF LiveAt
<1> HIDE DEF P, es
<1>4. P \in SUBSET Nat
  BY <1>1, <1>3
<1>5. \E at : Enumerates(at, P)
  BY <1>1, <1>3, EnumerationExists
<1> QED  BY <1>2, <1>3, <1>4, <1>5 DEF P, es

\* in the order of their positions.
LEMMA SnapshotAt ==
  ASSUME NEW t, EntriesOK(t), NEW at, Enumerates(at, LiveAt(t))
  PROVE  Shows(Snapshot(t), t.entries, LiveAt(t), at)
<1> DEFINE es == t.entries
           s == Stripped(es)
           P == LiveAt(t)
<1>0. es \in Seq(Slot)
  BY DEF EntriesOK
<1>1. /\ s \in Seq(Entry) /\ Len(s) = Len(es) /\ Len(es) \in Nat
      /\ \A i \in 1..Len(es) : s[i] = [key |-> es[i].key, value |-> es[i].value]
  <2> HIDE DEF es
  <2> QED  BY <1>0, StrippedIs
<1>2. Snapshot(t) = Kept(s, P) /\ Enumerates(at, P)
  BY DEF Snapshot, Stripped
<1>3. P \in SUBSET (1..Len(es))
  BY DEF LiveAt
<1> HIDE DEF s, P, es
<1>4. P \in SUBSET (1..Len(s))
  BY <1>1, <1>3
<1>5. /\ Kept(s, P) \in Seq(Entry) /\ Len(Kept(s, P)) = Len(at) /\ Len(at) \in Nat
      /\ \A j \in 1..Len(at) : at[j] \in P /\ Kept(s, P)[j] = s[at[j]]
  <2>1. s \in Seq(Entry)
    BY <1>1
  <2> QED  BY <1>2, <1>4, <2>1, KeptAt
<1>6. \A j \in 1..Len(at) : at[j] \in 1..Len(es)
  BY <1>3, <1>5
<1>7. Shows(Kept(s, P), es, P, at)
  BY <1>1, <1>5, <1>6 DEF Shows
<1> QED  BY <1>2, <1>7 DEF P, es

\* rehash keeps the live entries in their order, seats them in at least count
\* slots, at most seven tenths of them taken, and leaves no tombstone.
LEMMA RehashIs ==
  ASSUME NEW t, EntriesOK(t), NEW count \in Nat
  PROVE  LET u == Rehash(t, count)
         IN  /\ Snapshot(u) = Snapshot(t) /\ u.live = Cardinality(LiveAt(t)) /\ u.live \in Nat /\ u.tombs = 0
             /\ \E n : /\ TableOf(u, n) /\ n >= count
                       /\ \/ u.live = 0 /\ n = count
                          \/ u.live > 0 /\ 7 * n >= 10 * u.live /\ n >= MinSlots
<1> DEFINE es == t.entries
           P == LiveAt(t)
           ls == Kept(es, P)
           L == Len(ls)
           least == IF ls = <<>> THEN 0 ELSE MinSlots
           n == Max({count, SlotCountForMinLive(L), least})
           sl == Placed(ls, n)
           u == [entries |-> ls, slots |-> sl, live |-> L, tombs |-> 0]
<1>0. Rehash(t, count) = u
  BY SMTT(20) DEF Rehash
<1>1. PICK at : Enumerates(at, P)
  BY SnapshotIs, SMTT(20)
<1>2. es \in Seq(Slot) /\ P \in SUBSET (1..Len(es)) /\ P \in SUBSET Nat
  BY SnapshotIs DEF EntriesOK
<1>3. /\ ls \in Seq(Slot) /\ L = Len(at) /\ L \in Nat
      /\ \A j \in 1..L : at[j] \in P /\ ls[j] = es[at[j]]
  <2> HIDE DEF es, P
  <2> QED  BY <1>1, <1>2, KeptAt
<1>4. L = Cardinality(P)
  BY <1>1, <1>2, <1>3, EnumerationCount
<1>5. \A j \in 1..L : es[at[j]].live = TRUE /\ ls[j].live = TRUE
  <2> SUFFICES ASSUME NEW j \in 1..L PROVE es[at[j]].live = TRUE
    BY <1>3, Zenon
  <2>1. at[j] \in P
    BY <1>3
  <2>2. es[at[j]] \in Slot
    BY <1>2, <2>1
  <2>3. es[at[j]].live
    BY <2>1 DEF LiveAt
  <2>4. es[at[j]].live \in BOOLEAN
    BY <2>2 DEF Slot
  <2> QED  BY <2>3, <2>4
<1>6. \A i, j \in 1..L : ls[i].key = ls[j].key => i = j
  <2> SUFFICES ASSUME NEW i \in 1..L, NEW j \in 1..L, ls[i].key = ls[j].key PROVE i = j
    OBVIOUS
  <2>1. at[i] \in P /\ at[j] \in P /\ es[at[i]].key = es[at[j]].key
    BY <1>3
  <2>2. at[i] = at[j]
    BY <2>1 DEF EntriesOK
  <2>3. at[i] \in Nat
    BY <1>2, <2>1
  <2>4. ~(i < j) /\ ~(j < i)
    BY <1>1, <1>3, <2>2, <2>3 DEF Enumerates
  <2> QED  BY <1>3, <2>4
<1> HIDE DEF ls, sl, L
<1>7. LiveAt(u) = 1..L
  <2>1. u.entries = ls /\ Len(ls) = L
    BY DEF L
  <2>2. LiveAt(u) = {i \in 1..L : ls[i].live}
    BY <2>1 DEF LiveAt
  <2> HIDE DEF u
  <2> QED  BY <1>5, <2>2
<1>8. EntriesOK(u)
  <2>1. u.entries = ls
    OBVIOUS
  <2> QED  BY <1>3, <1>6, <1>7, <2>1 DEF EntriesOK
<1>9. SlotCountForMinLive(L) \in Nat
      /\ (L > 0 => 7 * SlotCountForMinLive(L) >= 10 * L /\ SlotCountForMinLive(L) >= MinSlots)
  BY <1>3, SlotCountIs
<1>10. /\ n \in {count, SlotCountForMinLive(L), least} /\ n \in Nat
       /\ n >= count /\ n >= SlotCountForMinLive(L)
  <2>1. least \in Nat
    BY MinSlotsAssumption
  <2> HIDE DEF least
  <2> QED  BY <1>9, <2>1, MaxOfThree
<1>11. L = 0 => n = count
  <2> SUFFICES ASSUME L = 0 PROVE n = count
    OBVIOUS
  <2>1. ls = <<>>
    BY <1>3 DEF L
  <2>2. least = 0 /\ SlotCountForMinLive(L) = 0
    BY <2>1 DEF SlotCountForMinLive
  <2> HIDE DEF n, least
  <2> QED  BY <1>10, <2>2
<1> HIDE DEF n
<1>12. L > 0 => 7 * n >= 10 * L /\ n >= MinSlots
  BY <1>3, <1>9, <1>10, MinSlotsAssumption
<1>13. /\ Seated(sl, n, ls, 1..L) /\ sl \in [0..(n - 1) -> Nat]
       /\ \A p \in 0..(n - 1) : sl[p] # Tombstone
  <2>1. Len(ls) < n \/ ls = <<>>
    <3>1. CASE L = 0
      BY <1>3, <3>1 DEF L
    <3>2. CASE L > 0
      BY <1>3, <1>10, <1>12, <3>2 DEF L
    <3> QED  BY <1>3, <3>1, <3>2
  <2>2. \A i \in 1..Len(ls) : HashOf[ls[i].key] \in Int
    <3> SUFFICES ASSUME NEW i \in 1..Len(ls) PROVE HashOf[ls[i].key] \in Int
      OBVIOUS
    <3>1. ls[i] \in Slot
      BY <1>3
    <3>2. ls[i].key \in Keys
      BY <3>1 DEF Slot, Keys
    <3> QED  BY <3>2, KeysAssumption
  <2>3. /\ Seated(Placed(ls, n), n, ls, 1..Len(ls)) /\ Placed(ls, n) \in [0..(n - 1) -> Nat]
        /\ \A p \in 0..(n - 1) : Placed(ls, n)[p] # Tombstone
    BY <1>3, <1>10, <2>1, <2>2, PlacedIs
  <2> QED  BY <2>3 DEF sl, L
<1>14. Cardinality(LiveAt(u)) = L
  <2>1. 1 \in Int /\ L \in Int
    BY <1>3
  <2>2. Cardinality(1..L) = IF 1 > L THEN 0 ELSE L - 1 + 1
    BY <2>1, FS_Interval
  <2> QED  BY <1>3, <1>7, <2>2
<1>15. Cardinality(TombsOf(u)) = 0
  <2>1. TombsOf(u) = {}
    BY <1>13, SMTT(20) DEF TombsOf
  <2> QED  BY <2>1, FS_EmptySet
<1>16. TableOf(u, n)
  <2>1. u.entries = ls /\ u.slots = sl /\ u.live = L /\ u.tombs = 0
    OBVIOUS
  <2>2. Seated(u.slots, n, u.entries, LiveAt(u))
    BY <1>7, <1>13, <2>1
  <2> QED  BY <1>8, <1>10, <1>14, <1>15, <2>2 DEF TableOf
<1>17. Snapshot(u) = Snapshot(t)
  <2> DEFINE id == [i \in 1..L |-> i]
  <2>0. Enumerates(id, 1..L) /\ Len(id) = L /\ \A j \in 1..L : id[j] = j
    BY <1>3, EnumerationAll
  <2> HIDE DEF id
  <2>1. Enumerates(id, LiveAt(u))
    BY <1>7, <2>0
  <2>2. /\ Snapshot(u) \in Seq(Entry) /\ Len(Snapshot(u)) = L
        /\ \A j \in 1..L : Snapshot(u)[j] = [key |-> u.entries[id[j]].key, value |-> u.entries[id[j]].value]
    <3> HIDE DEF u
    <3>1. Shows(Snapshot(u), u.entries, LiveAt(u), id)
      BY <1>8, <2>1, SnapshotAt
    <3> QED  BY <2>0, <3>1 DEF Shows
  <2>3. /\ Snapshot(t) \in Seq(Entry) /\ Len(Snapshot(t)) = L
        /\ \A j \in 1..L : Snapshot(t)[j] = [key |-> es[at[j]].key, value |-> es[at[j]].value]
    <3>1. Shows(Snapshot(t), es, P, at)
      BY <1>1, SnapshotAt
    <3> QED  BY <1>3, <3>1 DEF Shows
  <2>4. \A j \in 1..L : Snapshot(u)[j] = Snapshot(t)[j]
    <3>1. u.entries = ls
      OBVIOUS
    <3> HIDE DEF u
    <3> SUFFICES ASSUME NEW j \in 1..L PROVE Snapshot(u)[j] = Snapshot(t)[j]
      OBVIOUS
    <3>2. Snapshot(u)[j] = [key |-> ls[j].key, value |-> ls[j].value]
      BY <2>0, <2>2, <3>1
    <3>3. ls[j] = es[at[j]]
      BY <1>3
    <3> QED  BY <2>3, <3>2, <3>3
  <2> QED  BY <2>2, <2>3, <2>4, ListsEqual, Zenon
<1>18. u.live = L /\ u.tombs = 0
  OBVIOUS
<1> HIDE DEF u
<1>19. \/ L = 0 /\ n = count
       \/ L > 0 /\ 7 * n >= 10 * L /\ n >= MinSlots
  BY <1>3, <1>11, <1>12
<1> QED  BY <1>0, <1>3, <1>4, <1>10, <1>16, <1>17, <1>18, <1>19

\* A table rehashed into a non-empty one has a free slot.
LEMMA RehashOK ==
  ASSUME NEW t, EntriesOK(t), NEW count \in Nat, count >= MinSlots
  PROVE  LET u == Rehash(t, count)
         IN  /\ Snapshot(u) = Snapshot(t) /\ u.live = Cardinality(LiveAt(t)) /\ u.live \in Nat /\ u.tombs = 0
             /\ \E n : TableOf(u, n) /\ n >= count /\ u.live + u.tombs < n
<1> DEFINE u == Rehash(t, count)
<1>1. /\ Snapshot(u) = Snapshot(t) /\ u.live = Cardinality(LiveAt(t)) /\ u.live \in Nat /\ u.tombs = 0
      /\ \E n : /\ TableOf(u, n) /\ n >= count
                /\ \/ u.live = 0 /\ n = count
                   \/ u.live > 0 /\ 7 * n >= 10 * u.live /\ n >= MinSlots
  BY RehashIs
<1> HIDE DEF u
<1>2. PICK n : /\ TableOf(u, n) /\ n >= count
               /\ \/ u.live = 0 /\ n = count
                  \/ u.live > 0 /\ 7 * n >= 10 * u.live /\ n >= MinSlots
  BY <1>1
<1>3. n \in Nat
  BY <1>2 DEF TableOf
<1>4. u.live + u.tombs < n
  BY <1>1, <1>2, <1>3, MinSlotsAssumption
<1> QED  BY <1>1, <1>2, <1>4 DEF u

\* A table without slots holds nothing.
LEMMA NoSlotsNoEntries ==
  ASSUME NEW t, TableOf(t, 0)
  PROVE  LiveAt(t) = {}
<1>1. Seated(t.slots, 0, t.entries, LiveAt(t))
  BY DEF TableOf
<1>2. 0..(0 - 1) = {}
  OBVIOUS
<1> QED  BY <1>1, <1>2 DEF Seated

\* ensure_ready_for_insert leaves room for one more entry and keeps the ones
\* there are.
LEMMA EnsureReadyIs ==
  ASSUME NEW t, TableOK(t)
  PROVE  LET u == EnsureReady(t)
         IN  /\ Snapshot(u) = Snapshot(t)
             /\ \E n : TableOf(u, n) /\ n >= MinSlots /\ u.live + u.tombs + 1 < n
<1>0. PICK n : TableOf(t, n) /\ (n = 0 \/ (n >= MinSlots /\ t.live + t.tombs < n))
  BY DEF TableOK
<1>1. n \in Nat /\ NumSlots(t) = n /\ EntriesOK(t) /\ t.live \in Nat /\ t.tombs \in Nat
  BY <1>0, TableParts DEF TableOf
<1>2. MinSlots \in Nat /\ MinSlots >= 4
  BY MinSlotsAssumption
<1>3. CASE n = 0
  <2> DEFINE count == SlotCountForMinLive(1)
             u == Rehash(t, count)
  <2>1. EnsureReady(t) = u
    BY <1>1, <1>3 DEF EnsureReady
  <2>2. count \in Nat /\ count >= MinSlots
    BY SlotCountIs
  <2>3. LiveAt(t) = {} /\ Cardinality(LiveAt(t)) = 0
    BY <1>0, <1>3, NoSlotsNoEntries, FS_EmptySet
  <2> HIDE DEF count
  <2>4. /\ Snapshot(u) = Snapshot(t) /\ u.live = 0 /\ u.tombs = 0
        /\ \E m : TableOf(u, m) /\ m >= count /\ u.live + u.tombs < m
    BY <1>1, <2>2, <2>3, RehashOK
  <2> HIDE DEF u
  <2>5. PICK m : TableOf(u, m) /\ m >= count
    BY <2>4
  <2>6. m \in Nat
    BY <2>5 DEF TableOf
  <2>7. m >= MinSlots /\ u.live + u.tombs + 1 < m
    BY <1>2, <2>2, <2>4, <2>5, <2>6
  <2> QED  BY <2>1, <2>4, <2>5, <2>7
<1>4. CASE n # 0
  <2> DEFINE u == IF t.tombs > t.live THEN Rehash(t, n) ELSE t
             count(m) == Max({2 * m, SlotCountForMinLive(u.live + 1)})
             r(m) == IF (u.live + u.tombs) * 10 >= m * 7 THEN Rehash(u, count(m)) ELSE u
  <2>0. n >= MinSlots /\ t.live + t.tombs < n
    BY <1>0, <1>4
  <2>1. /\ Snapshot(u) = Snapshot(t)
        /\ \E m : TableOf(u, m) /\ m >= n /\ u.live + u.tombs < m
    <3>1. CASE t.tombs > t.live
      <4>1. /\ Snapshot(Rehash(t, n)) = Snapshot(t)
            /\ \E m : TableOf(Rehash(t, n), m) /\ m >= n /\ Rehash(t, n).live + Rehash(t, n).tombs < m
        BY <1>1, <2>0, RehashOK
      <4> QED  BY <3>1, <4>1
    <3>2. CASE ~(t.tombs > t.live)
      <4>1. u = t /\ n >= n
        BY <1>1, <3>2
      <4> QED  BY <1>0, <2>0, <4>1
    <3> QED  BY <3>1, <3>2
  <2>2. PICK m : TableOf(u, m) /\ m >= n /\ u.live + u.tombs < m
    BY <2>1
  <2>3. EnsureReady(t) = r(NumSlots(u))
    BY <1>1, <1>4 DEF EnsureReady
  <2> HIDE DEF u
  <2>4. m \in Nat /\ NumSlots(u) = m /\ EntriesOK(u) /\ u.live \in Nat /\ u.tombs \in Nat
    BY <2>2, TableParts DEF TableOf
  <2>5. m >= MinSlots /\ m >= 4
    BY <1>1, <1>2, <2>0, <2>2, <2>4
  <2>6. CASE (u.live + u.tombs) * 10 >= m * 7
    <3> DEFINE w == Rehash(u, count(m))
    <3>1. EnsureReady(t) = w
      BY <2>3, <2>4, <2>6
    <3>2. /\ SlotCountForMinLive(u.live + 1) \in Nat /\ SlotCountForMinLive(u.live + 1) >= MinSlots
          /\ 7 * SlotCountForMinLive(u.live + 1) >= 10 * (u.live + 1)
      <4>1. u.live + 1 \in Nat /\ u.live + 1 > 0
        BY <2>4
      <4> QED  BY <4>1, SlotCountIs
    <3>3. count(m) \in Nat /\ count(m) >= SlotCountForMinLive(u.live + 1)
      <4>1. 2 * m \in Nat
        BY <2>4
      <4> QED  BY <3>2, <4>1, MaxIs
    <3> HIDE DEF count
    <3>4. count(m) >= MinSlots /\ 7 * count(m) >= 10 * (u.live + 1)
      BY <1>2, <2>4, <3>2, <3>3
    <3>5. /\ Snapshot(w) = Snapshot(u) /\ w.live = Cardinality(LiveAt(u)) /\ w.tombs = 0
          /\ \E x : TableOf(w, x) /\ x >= count(m) /\ w.live + w.tombs < x
      BY <2>4, <3>3, <3>4, RehashOK
    <3> HIDE DEF w
    <3>6. w.live = u.live
      BY <2>2, <3>5 DEF TableOf
    <3>7. PICK x : TableOf(w, x) /\ x >= count(m)
      BY <3>5
    <3>8. x \in Nat
      BY <3>7 DEF TableOf
    <3>9. x >= MinSlots /\ 7 * x >= 10 * (u.live + 1)
      BY <1>2, <2>4, <3>3, <3>4, <3>7, <3>8
    <3>10. w.live + w.tombs + 1 < x
      BY <1>2, <2>4, <3>5, <3>6, <3>8, <3>9
    <3> QED  BY <2>1, <3>1, <3>5, <3>7, <3>9, <3>10
  <2>7. CASE ~((u.live + u.tombs) * 10 >= m * 7)
    <3>1. EnsureReady(t) = u
      BY <2>3, <2>4, <2>7
    <3>2. u.live + u.tombs + 1 < m
      BY <2>4, <2>5, <2>7
    <3> QED  BY <2>1, <2>2, <2>5, <3>1, <3>2
  <2> QED  BY <2>6, <2>7
<1> QED  BY <1>3, <1>4

\* The snapshot of a table has primitive keys, one entry per class; it has an
\* entry for a primitive key when there is a live one.
LEMMA SnapshotDistinct ==
  ASSUME NEW t, EntriesOK(t)
  PROVE  /\ Snapshot(t) \in Seq(Entry) /\ Distinct(Snapshot(t))
         /\ \A j \in 1..Len(Snapshot(t)) : Snapshot(t)[j].key \in Primitive
         /\ \A k \in Primitive : (\A i \in LiveAt(t) : t.entries[i].key # k) => Absent(Snapshot(t), k)
<1> DEFINE s == Snapshot(t)
           es == t.entries
<1>1. PICK at : Enumerates(at, LiveAt(t))
  BY SnapshotIs, Zenon
<1>2. /\ s \in Seq(Entry) /\ Len(s) = Len(at) /\ Len(at) \in Nat
      /\ \A j \in 1..Len(at) :
           /\ at[j] \in LiveAt(t) /\ at[j] \in 1..Len(es)
           /\ s[j] = [key |-> es[at[j]].key, value |-> es[at[j]].value]
  <2>1. Shows(s, es, LiveAt(t), at)
    BY <1>1, SnapshotAt
  <2> HIDE DEF s, es
  <2> QED  BY <2>1 DEF Shows
<1> HIDE DEF s
<1>2a. es \in Seq(Slot) /\ \A i, j \in LiveAt(t) : es[i].key = es[j].key => i = j
  BY DEF EntriesOK
<1> HIDE DEF es
<1>2b. \A j \in 1..Len(at) : at[j] \in LiveAt(t) /\ at[j] \in Nat /\ es[at[j]] \in Slot
  <2> SUFFICES ASSUME NEW j \in 1..Len(at) PROVE at[j] \in LiveAt(t) /\ at[j] \in Nat /\ es[at[j]] \in Slot
    OBVIOUS
  <2>1. at[j] \in LiveAt(t) /\ at[j] \in 1..Len(es)
    BY <1>2, Zenon
  <2> QED  BY <1>2a, <2>1
<1>3. \A j \in 1..Len(at) : s[j].key = es[at[j]].key /\ s[j].key \in Primitive
  <2> SUFFICES ASSUME NEW j \in 1..Len(at) PROVE s[j].key = es[at[j]].key /\ s[j].key \in Primitive
    OBVIOUS
  <2>0. s[j] = [key |-> es[at[j]].key, value |-> es[at[j]].value]
    BY <1>2
  <2>1. s[j].key = es[at[j]].key
    BY <2>0
  <2>2. es[at[j]] \in Slot
    BY <1>2b, SMTT(20)
  <2> QED  BY <2>1, <2>2 DEF Slot
<1>4. \A i, j \in 1..Len(at) : ClassOf[s[i].key] = ClassOf[s[j].key] => i = j
  <2> SUFFICES ASSUME NEW i \in 1..Len(at), NEW j \in 1..Len(at), ClassOf[s[i].key] = ClassOf[s[j].key]
               PROVE  i = j
    BY SMTT(20)
  <2>1. s[i].key = s[j].key
    BY <1>3, KeysAssumption DEF Keys
  <2>2. at[i] = at[j]
    BY <1>2a, <1>2b, <1>3, <2>1
  <2>3. at[i] \in Nat
    BY <1>2b
  <2>4. ~(i < j) /\ ~(j < i)
    <3>1. (i < j => at[i] < at[j]) /\ (j < i => at[j] < at[i])
      BY <1>1, Zenon DEF Enumerates
    <3> QED  BY <2>2, <2>3, <3>1
  <2> QED  BY <1>2, <2>4
<1>5. ASSUME NEW k \in Primitive, \A i \in LiveAt(t) : es[i].key # k
      PROVE  Absent(s, k)
  <2> SUFFICES ASSUME NEW j \in 1..Len(at), ClassOf[s[j].key] = ClassOf[k] PROVE FALSE
    BY <1>2 DEF Absent
  <2>1. s[j].key = k
    BY <1>3, KeysAssumption DEF Keys
  <2> QED  BY <1>2b, <1>3, <1>5, <2>1
<1>6. Distinct(s)
  BY <1>2, <1>4 DEF Distinct
<1> QED  BY <1>2, <1>3, <1>5, <1>6, Zenon DEF s, es

\* Another value for the live entry e
LEMMA ReplaceIs ==
  ASSUME NEW u, NEW n, TableOf(u, n), NEW e \in LiveAt(u), NEW v \in Values, NEW k, u.entries[e].key = k
  PROVE  LET w == [u EXCEPT !.entries[e].value = v]
         IN  /\ TableOf(w, n) /\ w.live = u.live /\ w.tombs = u.tombs
             /\ Snapshot(w) = Association!Put(Snapshot(u), k, v)
<1> DEFINE es == u.entries
           E == LiveAt(u)
           fs == [es EXCEPT ![e] = [es[e] EXCEPT !.value = v]]
           w == [entries |-> fs, slots |-> u.slots, live |-> u.live, tombs |-> u.tombs]
<1>0. /\ u = [entries |-> es, slots |-> u.slots, live |-> u.live, tombs |-> u.tombs]
      /\ EntriesOK(u) /\ n \in Nat /\ Seated(u.slots, n, es, E)
      /\ u.live = Cardinality(E) /\ u.tombs = Cardinality(TombsOf(u))
  BY DEF TableOf
<1>1. [u EXCEPT !.entries[e].value = v] = w
  <2>1. [u EXCEPT !.entries[e].value = v] = [u EXCEPT !.entries = fs]
    OBVIOUS
  <2>2. [u EXCEPT !.entries = fs] = w
    <3> HIDE DEF fs, es
    <3> QED  BY <1>0
  <2> QED  BY <2>1, <2>2, Zenon
<1>2. es \in Seq(Slot) /\ Len(es) \in Nat /\ e \in 1..Len(es) /\ \A i \in 1..Len(es) : es[i] \in Slot
  <2>1. es \in Seq(Slot) /\ e \in 1..Len(es)
    BY TableParts
  <2> QED  BY <2>1
<1>3. [es[e] EXCEPT !.value = v] = [key |-> k, value |-> v, live |-> es[e].live]
  <2>1. es[e] \in Slot
    BY <1>2
  <2> QED  BY <2>1 DEF Slot
<1>4. [key |-> k, value |-> v, live |-> es[e].live] \in Slot
  <2>1. es[e] \in Slot
    BY <1>2
  <2> QED  BY <2>1 DEF Slot
<1> HIDE DEF es
<1>5. fs \in Seq(Slot) /\ Len(fs) = Len(es) /\ fs[e] = [key |-> k, value |-> v, live |-> es[e].live]
      /\ \A i \in 1..Len(es) : i # e => fs[i] = es[i]
  BY <1>2, <1>3, <1>4
<1>6. \A i \in 1..Len(es) : fs[i].key = es[i].key /\ fs[i].live = es[i].live
  <2>1. es[e].key = k
    BY DEF es
  <2> HIDE DEF fs
  <2> QED  BY <1>5, <2>1
<1> HIDE DEF fs
<1>7. LiveAt(w) = E /\ TombsOf(w) = TombsOf(u) /\ w.entries = fs
  <2>1. LiveAt(w) = {i \in 1..Len(fs) : fs[i].live}
    BY DEF LiveAt
  <2>2. E = {i \in 1..Len(es) : es[i].live}
    BY DEF LiveAt, es
  <2>3. TombsOf(w) = TombsOf(u)
    BY SMTT(20) DEF TombsOf
  <2>4. {i \in 1..Len(fs) : fs[i].live} = {i \in 1..Len(es) : es[i].live}
    BY <1>5, <1>6
  <2> QED  BY <2>1, <2>2, <2>3, <2>4, SMTT(20)
<1>8. \A i \in E : i \in 1..Len(es)
  BY SMTT(20) DEF LiveAt, es
<1> HIDE DEF E
<1>9. TableOf(w, n)
  <2>1. w.entries = fs /\ w.slots = u.slots /\ w.live = u.live /\ w.tombs = u.tombs
    OBVIOUS
  <2>2. Seated(w.slots, n, w.entries, LiveAt(w))
    <3>1. Seated(u.slots, n, fs, E)
      BY <1>0, <1>6, <1>8, SeatedSameKeys
    <3> QED  BY <1>7, <2>1, <3>1
  <2>3. EntriesOK(w)
    <3>1. \A i, j \in E : es[i].key = es[j].key => i = j
      BY <1>0 DEF EntriesOK, es, E
    <3>2. \A i, j \in E : fs[i].key = fs[j].key => i = j
      BY <1>6, <1>8, <3>1
    <3> QED  BY <1>5, <1>7, <3>2 DEF EntriesOK
  <2> QED  BY <1>0, <1>7, <2>1, <2>2, <2>3 DEF TableOf
<1>10. Snapshot(w) = Association!Put(Snapshot(u), k, v)
  <2> DEFINE s == Snapshot(u)
             r == Snapshot(w)
  <2>1. PICK at : Enumerates(at, E)
    BY <1>0, SnapshotIs, SMTT(20) DEF E
  <2>2. /\ s \in Seq(Entry) /\ Len(s) = Len(at) /\ Len(at) \in Nat
        /\ \A j \in 1..Len(at) :
             /\ at[j] \in E /\ at[j] \in 1..Len(es)
             /\ s[j] = [key |-> es[at[j]].key, value |-> es[at[j]].value]
    <3>1. Shows(s, es, E, at)
      BY <1>0, <2>1, SnapshotAt DEF E, es
    <3> HIDE DEF s, es, E
    <3> QED  BY <3>1 DEF Shows
  <2>3. Enumerates(at, LiveAt(w)) /\ EntriesOK(w) /\ w.entries = fs
    BY <1>7, <1>9, <2>1, SMTT(20) DEF TableOf
  <2>4. /\ r \in Seq(Entry) /\ Len(r) = Len(at)
        /\ \A j \in 1..Len(at) : r[j] = [key |-> fs[at[j]].key, value |-> fs[at[j]].value]
    <3> HIDE DEF w
    <3>1. Shows(r, w.entries, LiveAt(w), at)
      BY <2>3, SnapshotAt
    <3>2. Shows(r, fs, LiveAt(w), at)
      BY <2>3, <3>1
    <3> HIDE DEF r, fs
    <3> QED  BY <3>2 DEF Shows
  <2>5. PICK x \in 1..Len(at) : at[x] = e
    BY <2>1 DEF Enumerates, E
  <2>6. Distinct(s) /\ s[x].key = k /\ k \in Primitive
    <3>1. Distinct(s) /\ s[x].key \in Primitive
      BY <1>0, <2>2, <2>5, SnapshotDistinct
    <3>2. s[x].key = k
      <4>1. s[x] = [key |-> es[e].key, value |-> es[e].value]
        BY <2>2, <2>5
      <4>2. es[e].key = k
        BY SMTT(20) DEF es
      <4> HIDE DEF s, es
      <4> QED  BY <4>1, <4>2, SMTT(20)
    <3> QED  BY <3>1, <3>2
  <2> HIDE DEF s, r, w
  <2>7. x \in 1..Len(s) /\ ClassOf[s[x].key] = ClassOf[k] /\ k \in Keys
    <3> HIDE DEF es, E
    <3>1. x \in 1..Len(s)
      BY <2>2, <2>5
    <3>2. k \in Keys
      BY <2>6 DEF Keys
    <3> QED  BY <2>6, <3>1, <3>2, Zenon
  <2>8. Association!Put(s, k, v) = SetValue(s, x, v)
    BY <2>2, <2>6, <2>7, PutPresent
  <2>9. SetValue(s, x, v) \in Seq(Entry) /\ Len(SetValue(s, x, v)) = Len(at)
    BY <2>2, <2>7, SetValueIs
  <2>10. ASSUME NEW j \in 1..Len(at)
         PROVE  r[j] = SetValue(s, x, v)[j]
    <3>1. j \in 1..Len(s)
      BY <2>2
    <3>2. CASE j = x
      <4>1. SetValue(s, x, v)[x] = [s[x] EXCEPT !.value = v]
        BY <2>2, <2>7 DEF SetValue
      <4>2. s[x] = [key |-> es[e].key, value |-> es[e].value]
        BY <2>2, <2>5
      <4>3. [s[x] EXCEPT !.value = v] = [key |-> es[e].key, value |-> v]
        BY <4>2
      <4>4. r[x] = [key |-> fs[e].key, value |-> fs[e].value]
        BY <2>4, <2>5, SMTT(20)
      <4>5. fs[e].key = es[e].key /\ fs[e].value = v
        BY <1>2, <1>5, <1>6, SMTT(20)
      <4> QED  BY <3>2, <4>1, <4>3, <4>4, <4>5
    <3>3. CASE j # x
      <4>1. SetValue(s, x, v)[j] = s[j]
        BY <2>2, <2>7, <3>1, <3>3 DEF SetValue
      <4>2. at[j] # e
        <5>0. E \in SUBSET Nat /\ at[j] \in E /\ at[x] \in E
          BY <1>0, <2>2, SnapshotIs, Zenon DEF E
        <5>1. at[j] \in Nat /\ at[x] \in Nat
          BY <5>0, Zenon
        <5>2. j < x \/ x < j
          <6>1. j \in Int /\ x \in Int
            OBVIOUS
          <6> QED  BY <3>3, <6>1
        <5>3. at[j] < at[x] \/ at[x] < at[j]
          BY <2>1, <5>2, SMTT(20) DEF Enumerates
        <5> QED  BY <2>5, <5>1, <5>3, SMTT(20)
      <4>3. fs[at[j]] = es[at[j]]
        BY <1>5, <2>2, <4>2
      <4>4. r[j] = [key |-> fs[at[j]].key, value |-> fs[at[j]].value]
        BY <2>4
      <4>5. s[j] = [key |-> es[at[j]].key, value |-> es[at[j]].value]
        BY <2>2, SMTT(20)
      <4> HIDE DEF fs, es
      <4> QED  BY <4>1, <4>3, <4>4, <4>5
    <3> QED  BY <3>2, <3>3, SMTT(20)
  <2>11. r = SetValue(s, x, v)
    BY <2>4, <2>9, <2>10, ListsEqual
  <2> QED  BY <2>8, <2>11 DEF s, r
<1>11. w.live = u.live /\ w.tombs = u.tombs
  OBVIOUS
<1> HIDE DEF w
<1> QED  BY <1>1, <1>9, <1>10, <1>11
=============================================================================
