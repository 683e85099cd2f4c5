----------------------------- MODULE PbtProofs ------------------------------
(***************************************************************************)
(* Theorems about Shrink, for all recordings and every limit on attempts,  *)
(* and about PbtRunner, for every set of cases and every configuration.    *)
(***************************************************************************)
EXTENDS Shrink, PbtRunner, SequenceTheorems, TLAPS

\* A candidate that may replace b: drawable, and smaller.
Improves(c, b) == IsRecording(c) /\ Smaller(c.choices, b.choices)

(***************************************************************************)
(* The four kinds of candidate.                                            *)
(***************************************************************************)

\* What SubSeq keeps of a sequence.
LEMMA Part ==
  ASSUME NEW s \in Seq(Nat), NEW from \in Nat \ {0}, NEW to \in 0..Len(s)
  PROVE  /\ SubSeq(s, from, to) \in Seq(Nat)
         /\ Len(SubSeq(s, from, to)) = IF from <= to THEN to - from + 1 ELSE 0
         /\ \A j \in 1..(to - from + 1) : SubSeq(s, from, to)[j] = s[from + j - 1]
<1>1. \A j \in from..to : s[j] \in Nat
  BY ElementOfSeq
<1>. QED
  BY <1>1, SubSeqProperties

\* A prefix of a sequence.
LEMMA Prefix ==
  ASSUME NEW s \in Seq(Nat), NEW to \in 0..Len(s)
  PROVE  /\ SubSeq(s, 1, to) \in Seq(Nat)
         /\ Len(SubSeq(s, 1, to)) = to
         /\ \A j \in 1..to : SubSeq(s, 1, to)[j] = s[j]
<1>. DEFINE p == SubSeq(s, 1, to)
<1>1. /\ p \in Seq(Nat)
      /\ Len(p) = IF 1 <= to THEN to - 1 + 1 ELSE 0
      /\ \A j \in 1..(to - 1 + 1) : p[j] = s[1 + j - 1]
  BY Part
<1>. HIDE DEF p
<1>2. p \in Seq(Nat) /\ Len(p) = to /\ \A j \in 1..to : p[j] = s[j]
  BY <1>1
<1>. QED  BY <1>2 DEF p

\* A truncated sequence with a zero at its end is a shorter recording.
LEMMA ZeroedImproves ==
  ASSUME NEW b, IsRecording(b), NEW k \in 1..(Len(b.choices) - 1)
  PROVE  Improves(ZeroedFrom(b, k), b)
<1>. DEFINE s == SubSeq(b.choices, 1, k - 1)
            m == SubSeq(b.maxima, 1, k)
            c == Append(s, 0)
<1>1. b.choices \in Seq(Nat) /\ b.maxima \in Seq(Nat) /\ Len(b.choices) = Len(b.maxima) /\ Len(b.choices) \in Nat
  BY DEF IsRecording
<1>2. s \in Seq(Nat) /\ Len(s) = k - 1 /\ \A j \in 1..(k - 1) : s[j] = b.choices[j]
  <2>1. k - 1 \in 0..Len(b.choices)
    BY <1>1
  <2>. QED  BY <1>1, <2>1, Prefix
<1>3. m \in Seq(Nat) /\ Len(m) = k /\ \A j \in 1..k : m[j] = b.maxima[j]
  <2>1. k \in 0..Len(b.maxima)
    BY <1>1
  <2>. QED  BY <1>1, <2>1, Prefix
<1>4. /\ c \in Seq(Nat)
      /\ Len(c) = k
      /\ \A j \in 1..(k - 1) : c[j] = b.choices[j]
      /\ c[k] = 0
  <2>. HIDE DEF s
  <2>1. /\ Append(s, 0) \in Seq(Nat)
        /\ Len(Append(s, 0)) = Len(s) + 1
        /\ \A j \in 1..Len(s) : Append(s, 0)[j] = s[j]
        /\ Append(s, 0)[Len(s) + 1] = 0
    BY <1>2, AppendProperties
  <2>. QED  BY <1>2, <2>1
<1>. HIDE DEF c, m
<1>5. \A j \in 1..k : c[j] <= m[j]
  <2>1. \A j \in 1..Len(b.choices) : b.choices[j] <= b.maxima[j]
    BY <1>1 DEF IsRecording
  <2>2. m[k] \in Nat
    BY <1>3, ElementOfSeq
  <2>3. ASSUME NEW j \in 1..k PROVE c[j] <= m[j]
    <3>1. CASE j = k
      BY <3>1, <2>2, <1>4
    <3>2. CASE j # k
      <4>1. c[j] = b.choices[j] /\ m[j] = b.maxima[j]
        BY <3>2, <1>3, <1>4
      <4>. QED  BY <4>1, <2>1, <1>1
    <3>. QED  BY <3>1, <3>2
  <2>. QED  BY <2>3
<1>6. ZeroedFrom(b, k) = [choices |-> c, maxima |-> m]
  BY DEF ZeroedFrom, c, m
<1>7. IsRecording([choices |-> c, maxima |-> m])
  BY <1>3, <1>4, <1>5 DEF IsRecording
<1>8. Smaller(c, b.choices)
  BY <1>1, <1>4 DEF Smaller
<1>. QED  BY <1>6, <1>7, <1>8 DEF Improves

\* What is left of a sequence when a block is drained.
LEMMA Drained ==
  ASSUME NEW s \in Seq(Nat), NEW size \in Nat \ {0}, NEW k \in 1..(Len(s) + 1 - size)
  PROVE  /\ Drain(s, k, size) \in Seq(Nat)
         /\ Len(Drain(s, k, size)) = Len(s) - size
         /\ \A j \in 1..(Len(s) - size) : Drain(s, k, size)[j] = IF j < k THEN s[j] ELSE s[j + size]
<1>. DEFINE f == SubSeq(s, 1, k - 1)
            g == SubSeq(s, k + size, Len(s))
<1>0. Len(s) \in Nat /\ k \in Nat \ {0}
  OBVIOUS
<1>1. f \in Seq(Nat) /\ Len(f) = k - 1 /\ \A j \in 1..(k - 1) : f[j] = s[j]
  BY <1>0, Prefix, k - 1 \in 0..Len(s)
<1>2. /\ g \in Seq(Nat)
      /\ Len(g) = Len(s) + 1 - (k + size)
      /\ \A j \in 1..(Len(s) + 1 - (k + size)) : g[j] = s[k + size + j - 1]
  <2>1. k + size \in Nat \ {0} /\ Len(s) \in 0..Len(s)
    BY <1>0
  <2>2. /\ g \in Seq(Nat)
        /\ Len(g) = IF k + size <= Len(s) THEN Len(s) - (k + size) + 1 ELSE 0
        /\ \A j \in 1..(Len(s) - (k + size) + 1) : g[j] = s[k + size + j - 1]
    BY <2>1, Part, Zenon
  <2>3. (IF k + size <= Len(s) THEN Len(s) - (k + size) + 1 ELSE 0) = Len(s) + 1 - (k + size)
    BY <1>0
  <2>4. Len(s) - (k + size) + 1 = Len(s) + 1 - (k + size)
    BY <1>0
  <2>. QED  BY <2>2, <2>3, <2>4
<1>3. Drain(s, k, size) = f \o g
  BY DEF Drain
<1>. HIDE DEF f, g
<1>4. /\ f \o g \in Seq(Nat)
      /\ Len(f \o g) = Len(f) + Len(g)
      /\ \A j \in 1..(Len(f) + Len(g)) : (f \o g)[j] = IF j <= Len(f) THEN f[j] ELSE g[j - Len(f)]
  BY <1>1, <1>2, ConcatProperties
<1>5. Len(f) + Len(g) = Len(s) - size
  BY <1>0, <1>1, <1>2
<1>6. ASSUME NEW j \in 1..(Len(s) - size)
      PROVE  (f \o g)[j] = IF j < k THEN s[j] ELSE s[j + size]
  <2>1. CASE j < k
    BY <2>1, <1>0, <1>1, <1>4, <1>5
  <2>2. CASE ~(j < k)
    <3>0. j \in 1..(Len(f) + Len(g)) /\ ~(j <= Len(f)) /\ Len(f) = k - 1
      BY <2>2, <1>0, <1>1, <1>5
    <3>1. (f \o g)[j] = g[j - (k - 1)]
      BY <3>0, <1>4, Zenon
    <3>2. j - (k - 1) \in 1..(Len(s) + 1 - (k + size)) /\ k + size + (j - (k - 1)) - 1 = j + size
      BY <2>2, <1>0
    <3>3. g[j - (k - 1)] = s[j + size]
      BY <3>2, <1>2
    <3>. QED  BY <2>2, <3>1, <3>3
  <2>. QED  BY <2>1, <2>2
<1>. QED  BY <1>3, <1>4, <1>5, <1>6, Zenon

\* A recording without one of its blocks is a shorter recording.
LEMMA WithoutImproves ==
  ASSUME NEW b, IsRecording(b), NEW size \in Nat \ {0}, NEW k \in 1..(Len(b.choices) + 1 - size)
  PROVE  Improves(Without(b, k, size), b)
<1>. DEFINE c == Drain(b.choices, k, size)
            m == Drain(b.maxima, k, size)
            n == Len(b.choices)
<1>1. b.choices \in Seq(Nat) /\ b.maxima \in Seq(Nat) /\ Len(b.choices) = Len(b.maxima) /\ n \in Nat
  BY DEF IsRecording
<1>2. c \in Seq(Nat) /\ Len(c) = n - size
  BY <1>1, Drained, Zenon
<1>0. k \in 1..(Len(b.maxima) + 1 - size) /\ Len(b.maxima) = n
  BY <1>1
<1>3. m \in Seq(Nat) /\ Len(m) = n - size
  <2>1. m \in Seq(Nat) /\ Len(m) = Len(b.maxima) - size
    BY <1>0, <1>1, Drained, Zenon
  <2>. HIDE DEF m
  <2>. QED  BY <2>1, <1>0
<1>4. ASSUME NEW j \in 1..(n - size) PROVE c[j] <= m[j]
  <2>1. c[j] = (IF j < k THEN b.choices[j] ELSE b.choices[j + size])
    BY <1>1, Drained, Zenon
  <2>2. m[j] = (IF j < k THEN b.maxima[j] ELSE b.maxima[j + size])
    <3>1. j \in 1..(Len(b.maxima) - size)
      BY <1>0
    <3>. QED  BY <3>1, <1>0, <1>1, Drained, Zenon
  <2>3. j \in 1..n /\ j + size \in 1..n
    BY <1>1
  <2>4. b.choices[j] <= b.maxima[j] /\ b.choices[j + size] <= b.maxima[j + size]
    BY <1>1, <2>3 DEF IsRecording
  <2>. QED  BY <2>1, <2>2, <2>4
<1>5. Without(b, k, size) = [choices |-> c, maxima |-> m]
  BY DEF Without
<1>. HIDE DEF c, m
<1>6. IsRecording([choices |-> c, maxima |-> m])
  <2>1. DOMAIN c = 1..(n - size)
    BY <1>2
  <2>. QED  BY <1>2, <1>3, <1>4, <2>1 DEF IsRecording
<1>7. Smaller(c, b.choices)
  BY <1>1, <1>2 DEF Smaller
<1>. QED  BY <1>5, <1>6, <1>7 DEF Improves

\* Lowering one choice keeps the recording and makes it smaller.
LEMMA WithImproves ==
  ASSUME NEW b, IsRecording(b), NEW k \in 1..Len(b.choices), NEW v \in Nat, v < b.choices[k]
  PROVE  Improves(With(b, k, v), b) /\ With(b, k, v).choices[k] = v /\ Len(With(b, k, v).choices) = Len(b.choices)
<1>. DEFINE c == [b.choices EXCEPT ![k] = v]
<1>1. /\ b.choices \in Seq(Nat) /\ b.maxima \in Seq(Nat) /\ Len(b.choices) = Len(b.maxima)
      /\ \A j \in 1..Len(b.choices) : b.choices[j] <= b.maxima[j] /\ b.choices[j] \in Nat /\ b.maxima[j] \in Nat
  BY ElementOfSeq, SMTT(40) DEF IsRecording
<1>2. c \in Seq(Nat) /\ Len(c) = Len(b.choices) /\ \A j \in 1..Len(b.choices) : c[j] = IF j = k THEN v ELSE b.choices[j]
  BY <1>1, ExceptSeq, SMTT(40)
<1>3. With(b, k, v) = [choices |-> c, maxima |-> b.maxima]
  BY DEF With
<1>. HIDE DEF c
<1>4. ASSUME NEW j \in 1..Len(b.choices) PROVE c[j] <= b.maxima[j]
  <2>1. c[j] = (IF j = k THEN v ELSE b.choices[j]) /\ b.choices[j] <= b.maxima[j]
    BY <1>1, <1>2
  <2>2. b.choices[j] \in Nat /\ b.maxima[j] \in Nat
    BY <1>1
  <2>. QED  BY <2>1, <2>2
<1>5. IsRecording([choices |-> c, maxima |-> b.maxima])
  <2>1. DOMAIN c = 1..Len(b.choices)
    BY <1>2
  <2>. QED  BY <1>1, <1>2, <1>4, <2>1 DEF IsRecording
<1>6. Smaller(c, b.choices)
  <2>1. k \in 1..Len(c) /\ c[k] < b.choices[k]
    BY <1>1, <1>2
  <2>2. ASSUME NEW j \in 1..k-1 PROVE c[j] = b.choices[j]
    <3>1. j \in 1..Len(b.choices) /\ j # k /\ j # k + 1
      OBVIOUS
    <3>. QED  BY <3>1, <1>2
  <2>. QED  BY <1>2, <2>1, <2>2 DEF Smaller
<1>. QED  BY <1>2, <1>3, <1>5, <1>6 DEF Improves

\* A swap in a sequence.
LEMMA SwapAtProperties ==
  ASSUME NEW s \in Seq(Nat), NEW k \in 1..(Len(s) - 1)
  PROVE  /\ SwapAt(s, k) \in Seq(Nat)
         /\ Len(SwapAt(s, k)) = Len(s)
         /\ \A j \in 1..Len(s) :
              SwapAt(s, k)[j] = IF j = k THEN s[k + 1] ELSE IF j = k + 1 THEN s[k] ELSE s[j]
<1>. DEFINE r == [s EXCEPT ![k] = s[k + 1]]
<1>1. Len(s) \in Nat /\ k \in 1..Len(s) /\ k + 1 \in 1..Len(s) /\ s[k] \in Nat /\ s[k + 1] \in Nat /\ k # k + 1
  BY ElementOfSeq
<1>2. r \in Seq(Nat) /\ Len(r) = Len(s) /\ \A j \in 1..Len(s) : r[j] = IF j = k THEN s[k + 1] ELSE s[j]
  BY <1>1, ExceptSeq
<1>3. SwapAt(s, k) = [r EXCEPT ![k + 1] = s[k]]
  BY DEF SwapAt
<1>. HIDE DEF r
<1>4. /\ [r EXCEPT ![k + 1] = s[k]] \in Seq(Nat)
      /\ Len([r EXCEPT ![k + 1] = s[k]]) = Len(r)
      /\ \A j \in 1..Len(r) : [r EXCEPT ![k + 1] = s[k]][j] = IF j = k + 1 THEN s[k] ELSE r[j]
  BY <1>1, <1>2, ExceptSeq
<1>. QED  BY <1>1, <1>2, <1>3, <1>4

\* Moving a smaller choice forward, with its maximum, makes the recording smaller.
LEMMA SwappedImproves ==
  ASSUME NEW b, IsRecording(b), NEW k \in 1..(Len(b.choices) - 1), b.choices[k] > b.choices[k + 1]
  PROVE  Improves(Swapped(b, k), b)
<1>. DEFINE c == SwapAt(b.choices, k)
            m == SwapAt(b.maxima, k)
            n == Len(b.choices)
<1>1. /\ b.choices \in Seq(Nat) /\ b.maxima \in Seq(Nat) /\ Len(b.maxima) = n /\ n \in Nat
      /\ \A j \in 1..n : b.choices[j] <= b.maxima[j] /\ b.choices[j] \in Nat
  BY ElementOfSeq, SMTT(40) DEF IsRecording
<1>2. /\ c \in Seq(Nat) /\ Len(c) = n
      /\ \A j \in 1..n : c[j] = IF j = k THEN b.choices[k + 1] ELSE IF j = k + 1 THEN b.choices[k] ELSE b.choices[j]
  BY <1>1, SwapAtProperties, Zenon
<1>3. /\ m \in Seq(Nat) /\ Len(m) = n
      /\ \A j \in 1..n : m[j] = IF j = k THEN b.maxima[k + 1] ELSE IF j = k + 1 THEN b.maxima[k] ELSE b.maxima[j]
  <2>1. k \in 1..(Len(b.maxima) - 1)
    BY <1>1
  <2>2. /\ m \in Seq(Nat) /\ Len(m) = Len(b.maxima)
        /\ \A j \in 1..Len(b.maxima) :
             m[j] = IF j = k THEN b.maxima[k + 1] ELSE IF j = k + 1 THEN b.maxima[k] ELSE b.maxima[j]
    BY <1>1, <2>1, SwapAtProperties, Zenon
  <2>. HIDE DEF m
  <2>. QED  BY <1>1, <2>2
<1>4. Swapped(b, k) = [choices |-> c, maxima |-> m]
  BY DEF Swapped
<1>. HIDE DEF c, m
<1>5. \A j \in 1..n : c[j] <= m[j]
  BY <1>1, <1>2, <1>3, k \in 1..n, k + 1 \in 1..n, Zenon
<1>6. IsRecording([choices |-> c, maxima |-> m])
  <2>1. DOMAIN c = 1..n
    BY <1>2
  <2>. QED  BY <1>2, <1>3, <1>5, <2>1, Zenon DEF IsRecording
<1>7. Smaller(c, b.choices)
  <2>1. k \in 1..Len(c) /\ c[k] < b.choices[k]
    <3>1. k \in 1..n
      BY <1>1
    <3>2. c[k] = b.choices[k + 1]
      BY <1>2, <3>1
    <3>. QED  BY <1>2, <3>1, <3>2
  <2>2. ASSUME NEW j \in 1..k-1 PROVE c[j] = b.choices[j]
    <3>1. j \in 1..Len(b.choices) /\ j # k /\ j # k + 1
      OBVIOUS
    <3>. QED  BY <3>1, <1>2
  <2>. QED  BY <1>2, <2>1, <2>2 DEF Smaller
<1>. QED  BY <1>4, <1>6, <1>7 DEF Improves

(***************************************************************************)
(* The inductive invariant.  LocalMinimum speaks of the last round only;   *)
(* the invariant says how much of it the round in progress has established *)
(* while nothing was found in it, and what the binary search has excluded. *)
(***************************************************************************)
Size == Len(best.choices)

\* The search at i is about the choice as it is.
Searching == pass = 3 /\ i <= Size => lo <= hi /\ hi = best.choices[i]

\* Nothing was found in this round and attempts are left.
Fruitless == ~progress /\ More

ZeroTried ==
  \A k \in 1..(Size - 1) : pass > 1 \/ k < i => ZeroedFrom(best, k).choices \in rejected

BlocksTried ==
  \A size \in BlockSizes : \A k \in 1..(Size + 1 - size) :
    pass > 2 \/ (pass = 2 /\ (size > block \/ (size = block /\ k < i))) =>
      Without(best, k, size).choices \in rejected

LowerTried ==
  \A k \in 1..Size :
    (pass > 3 \/ (pass = 3 /\ k < i)) /\ best.choices[k] > 0 =>
      With(best, k, best.choices[k] - 1).choices \in rejected

SearchTried == pass = 3 /\ i <= Size /\ lo > 0 => With(best, i, lo - 1).choices \in rejected

SwapsTried ==
  \A k \in 1..(Size - 1) :
    (pass > 4 \/ (pass = 4 /\ k < i)) /\ best.choices[k] > best.choices[k + 1] =>
      Swapped(best, k).choices \in rejected

Tried == ZeroTried /\ BlocksTried /\ LowerTried /\ SearchTried /\ SwapsTried

IInv ==
  /\ TypeOK
  /\ StaysRecording
  /\ StillFails
  /\ Searching
  /\ Fruitless => Tried
  /\ pass = 6 /\ More => ~progress

(***************************************************************************)
(* What every step does to the data.                                       *)
(***************************************************************************)
Data ==
  /\ best \in [choices : Seq(Nat), maxima : Seq(Nat)]
  /\ failing \subseteq Seq(Nat)
  /\ rejected \subseteq Seq(Nat)
  /\ attempts \in 0..MaxAttempts
  /\ progress \in BOOLEAN
  /\ StaysRecording
  /\ StillFails

Place ==
  /\ pass \in 1..6
  /\ i \in Nat \ {0}
  /\ block \in BlockSizes
  /\ lo \in Nat
  /\ hi \in Nat

\* The invariant, by what a step disturbs.
LEMMA Parts == IInv <=> Data /\ Place /\ Searching /\ (Fruitless => Tried) /\ (pass = 6 /\ More => ~progress)
BY DEF IInv, TypeOK, Data, Place

\* The same, of the next state.
LEMMA PartsNext ==
  ASSUME Data', Place', Searching', Fruitless' => Tried', pass' # 6 \/ ~progress'
  PROVE  IInv'
BY DEF IInv, TypeOK, Data, Place

\* A candidate that was refused, and a state in which all else is the same.
Refuse(c) ==
  /\ best' = best
  /\ rejected' = rejected \cup {c.choices}
  /\ progress' = progress
  /\ attempts' = attempts + 1

\* Trying a candidate that improves on the best one.
LEMMA TryData ==
  ASSUME Data, More, NEW c, Improves(c, best), NEW ACTION K, NEW ACTION R, Try(c, K, R)
  PROVE  /\ Data'
         /\ best' # best => Smaller(best'.choices, best.choices)
         /\ (best' = c /\ progress' = TRUE /\ K) \/ (Refuse(c) /\ R)
<1>1. IsRecording(c) /\ Smaller(c.choices, best.choices) /\ c.choices \in Seq(Nat)
  BY DEF Improves, IsRecording
<1>2. attempts' \in 0..MaxAttempts /\ attempts' = attempts + 1
  BY ShrinkAssumption DEF Data, More, Try
<1>3. CASE /\ c.choices \notin rejected
           /\ failing' = failing \cup {c.choices}
           /\ best' = c
           /\ progress' = TRUE
           /\ UNCHANGED rejected
           /\ K
  <2>1. StillFails'
    BY <1>3 DEF Data, StillFails
  <2>2. best' \in [choices : Seq(Nat), maxima : Seq(Nat)] /\ StaysRecording'
    BY <1>1, <1>3 DEF IsRecording, StaysRecording
  <2>3. failing' \subseteq Seq(Nat) /\ rejected' \subseteq Seq(Nat)
    BY <1>1, <1>3 DEF Data
  <2>. QED  BY <1>1, <1>2, <1>3, <2>1, <2>2, <2>3 DEF Data
<1>4. CASE /\ c.choices \notin failing
           /\ rejected' = rejected \cup {c.choices}
           /\ UNCHANGED <<best, failing, progress>>
           /\ R
  <2>1. StillFails'
    BY <1>4 DEF Data, StillFails
  <2>2. best' \in [choices : Seq(Nat), maxima : Seq(Nat)] /\ StaysRecording'
    BY <1>4 DEF Data, StaysRecording
  <2>3. failing' \subseteq Seq(Nat) /\ rejected' \subseteq Seq(Nat) /\ progress' \in BOOLEAN
    BY <1>1, <1>4 DEF Data
  <2>4. Refuse(c)
    BY <1>2, <1>4 DEF Refuse
  <2>. QED  BY <1>2, <1>4, <2>1, <2>2, <2>3, <2>4 DEF Data
<1>. QED  BY <1>3, <1>4 DEF Try

\* A step that tries nothing.
LEMMA IdleData ==
  ASSUME Data, Idle
  PROVE  Data' /\ best' = best /\ rejected' = rejected /\ progress' = progress /\ attempts' = attempts
BY DEF Data, Idle, StaysRecording, StillFails

\* What earlier passes of a round have tried stays tried, while the best
\* sequence stays.
LEMMA EarlierPasses ==
  ASSUME best' = best, rejected \subseteq rejected'
  PROVE  /\ ZeroTried /\ pass > 1 /\ pass' > 1 => ZeroTried'
         /\ BlocksTried /\ pass > 2 /\ pass' > 2 => BlocksTried'
         /\ LowerTried /\ pass > 3 /\ pass' > 3 => LowerTried'
         /\ SwapsTried /\ pass > 4 /\ pass' > 4 => SwapsTried'
<1>1. ZeroTried /\ pass > 1 /\ pass' > 1 => ZeroTried'
  BY DEF ZeroTried, Size
<1>2. BlocksTried /\ pass > 2 /\ pass' > 2 => BlocksTried'
  BY DEF BlocksTried, Size
<1>3. LowerTried /\ pass > 3 /\ pass' > 3 => LowerTried'
  BY DEF LowerTried, Size
<1>4. SwapsTried /\ pass > 4 /\ pass' > 4 => SwapsTried'
  BY DEF SwapsTried, Size
<1>. QED  BY <1>1, <1>2, <1>3, <1>4

\* What a pass that has not begun must have tried: nothing.
LEMMA LaterPasses ==
  ASSUME pass' \in 1..6
  PROVE  /\ pass' < 2 => BlocksTried'
         /\ pass' < 3 => LowerTried'
         /\ pass' # 3 => SearchTried' /\ Searching'
         /\ pass' < 4 => SwapsTried'
BY DEF BlocksTried, LowerTried, SearchTried, SwapsTried, Searching

\* The length of a recording.
LEMMA SizeNat == ASSUME Data PROVE Size \in Nat /\ best.choices \in Seq(Nat)
BY DEF Data, Size

\* Pass 1 preserves the invariant and accepts smaller sequences only.
LEMMA ZeroSuffixStep ==
  ASSUME IInv, ZeroSuffix
  PROVE  IInv' /\ (best' # best => Smaller(best'.choices, best.choices))
<1>0. Data /\ Place /\ (Fruitless => Tried) /\ pass = 1 /\ lo' = lo /\ hi' = hi /\ Size \in Nat
  BY Parts, SizeNat DEF ZeroSuffix
<1>1. CASE i < Size /\ More
  <2>. DEFINE c == ZeroedFrom(best, i)
  <2>1. Try(c, i' = i, i' = i + 1) /\ pass' = pass /\ block' = block
    BY <1>0, <1>1 DEF ZeroSuffix, Size, Place
  <2>2. Improves(c, best)
    <3>1. i \in 1..(Len(best.choices) - 1)
      BY <1>0, <1>1 DEF Size, Place
    <3>. QED  BY <3>1, <1>0, ZeroedImproves DEF Data, StaysRecording
  <2>. HIDE DEF c
  <2>3. /\ Data'
        /\ best' # best => Smaller(best'.choices, best.choices)
        /\ (best' = c /\ progress' = TRUE /\ i' = i) \/ (Refuse(c) /\ i' = i + 1)
    BY <1>0, <1>1, <2>1, <2>2, TryData
  <2>4. Place' /\ pass' = 1
    BY <1>0, <2>1, <2>3 DEF Place
  <2>5. ASSUME Fruitless' PROVE ZeroTried'
    <3>1. Refuse(c) /\ i' = i + 1 /\ ~progress
      BY <2>3, <2>5 DEF Fruitless, Refuse
    <3>2. ZeroTried
      BY <1>0, <1>1, <3>1 DEF Fruitless, Tried
    <3>3. ASSUME NEW k \in 1..(Size - 1), k < i + 1 PROVE ZeroedFrom(best, k).choices \in rejected'
      <4>1. CASE k = i
        BY <4>1, <3>1 DEF Refuse, c
      <4>2. CASE k < i
        BY <4>2, <3>1, <3>2 DEF Refuse, ZeroTried
      <4>. QED  BY <4>1, <4>2, <1>0, <3>3 DEF Place
    <3>4. best' = best
      BY <3>1 DEF Refuse
    <3>. QED  BY <3>1, <3>3, <3>4, <2>4 DEF ZeroTried, Size
  <2>6. BlocksTried' /\ LowerTried' /\ SearchTried' /\ Searching' /\ SwapsTried'
    BY <2>4, LaterPasses
  <2>. QED  BY <2>3, <2>4, <2>5, <2>6, PartsNext DEF Tried
<1>2. CASE ~(i < Size) /\ i <= Size /\ More
  <2>1. Idle /\ i' = i + 1 /\ pass' = 1 /\ block' = block
    BY <1>0, <1>2 DEF ZeroSuffix, Size, Place
  <2>2. Data' /\ best' = best /\ rejected' = rejected /\ progress' = progress /\ attempts' = attempts
    BY <1>0, <2>1, IdleData
  <2>3. Place'
    BY <1>0, <2>1 DEF Place
  <2>4. ASSUME Fruitless' PROVE ZeroTried'
    <3>1. ZeroTried
      BY <1>0, <2>2, <2>4 DEF Fruitless, Tried, More
    <3>. QED  BY <1>0, <1>2, <2>1, <2>2, <3>1 DEF ZeroTried, Size, Place
  <2>5. BlocksTried' /\ LowerTried' /\ SearchTried' /\ Searching' /\ SwapsTried'
    BY <2>1, LaterPasses
  <2>. QED  BY <2>1, <2>2, <2>3, <2>4, <2>5, PartsNext DEF Tried
<1>3. CASE ~(i <= Size /\ More)
  <2>1. Idle /\ i' = 1 /\ pass' = 2 /\ block' = 8
    BY <1>0, <1>3 DEF ZeroSuffix, Size
  <2>2. Data' /\ best' = best /\ rejected' = rejected /\ progress' = progress /\ attempts' = attempts
    BY <1>0, <2>1, IdleData
  <2>3. Place'
    BY <1>0, <2>1 DEF Place, BlockSizes
  <2>4. ASSUME Fruitless' PROVE ZeroTried' /\ BlocksTried'
    <3>1. ZeroTried /\ i > Size
      BY <1>0, <1>3, <2>2, <2>4 DEF Fruitless, Tried, More, Place
    <3>2. ZeroTried'
      BY <1>0, <2>1, <2>2, <3>1 DEF ZeroTried, Size, Place
    <3>3. BlocksTried'
      BY <2>1 DEF BlocksTried, BlockSizes
    <3>. QED  BY <3>2, <3>3
  <2>5. LowerTried' /\ SearchTried' /\ Searching' /\ SwapsTried'
    BY <2>1, LaterPasses
  <2>. QED  BY <2>1, <2>2, <2>3, <2>4, <2>5, PartsNext DEF Tried
<1>. QED  BY <1>1, <1>2, <1>3, <1>0 DEF Place

\* Pass 2 preserves the invariant and accepts smaller sequences only.
LEMMA DeleteBlockStep ==
  ASSUME IInv, DeleteBlock
  PROVE  IInv' /\ (best' # best => Smaller(best'.choices, best.choices))
<1>0. Data /\ Place /\ (Fruitless => Tried) /\ pass = 2 /\ Size \in Nat
  BY Parts, SizeNat DEF DeleteBlock
<1>b. i \in Nat \ {0} /\ block \in {8, 4, 2, 1}
  BY <1>0 DEF Place, BlockSizes
<1>1. CASE i + block - 1 <= Size /\ More
  <2>. DEFINE c == Without(best, i, block)
  <2>1. Try(c, i' = i, i' = i + 1) /\ pass' = 2 /\ block' = block /\ lo' = lo /\ hi' = hi
    BY <1>0, <1>1 DEF DeleteBlock, Size
  <2>2. Improves(c, best)
    <3>1. block \in Nat \ {0} /\ i \in 1..(Len(best.choices) + 1 - block)
      BY <1>0, <1>b, <1>1 DEF Size
    <3>. QED  BY <3>1, <1>0, WithoutImproves DEF Data, StaysRecording
  <2>. HIDE DEF c
  <2>3. /\ Data'
        /\ best' # best => Smaller(best'.choices, best.choices)
        /\ (best' = c /\ progress' = TRUE /\ i' = i) \/ (Refuse(c) /\ i' = i + 1)
    BY <1>0, <1>1, <2>1, <2>2, TryData
  <2>4. Place'
    BY <1>0, <2>1, <2>3 DEF Place
  <2>5. ASSUME Fruitless' PROVE ZeroTried' /\ BlocksTried'
    <3>1. Refuse(c) /\ i' = i + 1 /\ ~progress
      BY <2>3, <2>5 DEF Fruitless, Refuse
    <3>2. ZeroTried /\ BlocksTried
      BY <1>0, <1>1, <3>1 DEF Fruitless, Tried
    <3>3. best' = best /\ rejected \subseteq rejected' /\ c.choices \in rejected'
      BY <3>1 DEF Refuse
    <3>4. ZeroTried'
      BY <1>0, <2>1, <3>2, <3>3, EarlierPasses
    <3>5. ASSUME NEW size \in BlockSizes, NEW k \in 1..(Size + 1 - size),
                 size > block \/ (size = block /\ k < i + 1)
          PROVE  Without(best, k, size).choices \in rejected'
      <4>1. CASE size = block /\ k = i
        BY <4>1, <3>3 DEF c
      <4>2. CASE ~(size = block /\ k = i)
        <5>1. size > block \/ (size = block /\ k < i)
          BY <4>2, <3>5, <1>b, <1>0 DEF BlockSizes
        <5>. QED  BY <5>1, <1>0, <3>2, <3>3 DEF BlocksTried
      <4>. QED  BY <4>1, <4>2
    <3>6. BlocksTried'
      BY <2>1, <3>1, <3>3, <3>5 DEF BlocksTried, Size
    <3>. QED  BY <3>4, <3>6
  <2>6. LowerTried' /\ SearchTried' /\ Searching' /\ SwapsTried'
    BY <2>1, LaterPasses
  <2>. QED  BY <2>1, <2>3, <2>4, <2>5, <2>6, PartsNext DEF Tried
<1>2. CASE ~(i + block - 1 <= Size /\ More)
  <2>1. Idle /\ i' = 1
    BY <1>2 DEF DeleteBlock, Size, StartSearch
  <2>2. Data' /\ best' = best /\ rejected' = rejected /\ progress' = progress /\ attempts' = attempts
    BY <1>0, <2>1, IdleData
  <2>3. ASSUME Fruitless' PROVE ZeroTried /\ BlocksTried /\ i + block - 1 > Size
    BY <1>0, <1>2, <1>b, <2>2, <2>3 DEF Fruitless, Tried, More
  <2>4. CASE block > 1
    <3>1. pass' = 2 /\ block' = block \div 2 /\ lo' = lo /\ hi' = hi
      BY <1>0, <1>2, <2>4 DEF DeleteBlock, Size
    <3>2. block' \in {4, 2, 1} /\ \A size \in BlockSizes : size > block' => size >= block
      BY <1>b, <2>4, <3>1 DEF BlockSizes
    <3>3. Place'
      BY <1>0, <2>1, <3>1, <3>2 DEF Place, BlockSizes
    <3>4. ASSUME Fruitless' PROVE ZeroTried' /\ BlocksTried'
      <4>1. ZeroTried'
        BY <1>0, <2>2, <2>3, <3>1, <3>4, EarlierPasses
      <4>2. ASSUME NEW size \in BlockSizes, NEW k \in 1..(Size + 1 - size), size > block'
            PROVE  Without(best, k, size).choices \in rejected
        <5>1. size \in Nat /\ (size > block \/ (size = block /\ k < i))
          BY <1>0, <1>b, <2>3, <3>2, <3>4, <4>2 DEF BlockSizes
        <5>. QED  BY <5>1, <1>0, <2>3, <3>4 DEF BlocksTried
      <4>3. BlocksTried'
        BY <2>1, <2>2, <3>1, <4>2 DEF BlocksTried, Size
      <4>. QED  BY <4>1, <4>3
    <3>5. LowerTried' /\ SearchTried' /\ Searching' /\ SwapsTried'
      BY <3>1, LaterPasses
    <3>. QED  BY <2>2, <3>1, <3>3, <3>4, <3>5, PartsNext DEF Tried
  <2>5. CASE ~(block > 1)
    <3>1. pass' = 3 /\ block' = block /\ lo' = 0 /\ hi' = IF 1 <= Size THEN best.choices[1] ELSE 0
      BY <1>0, <1>2, <2>5 DEF DeleteBlock, Size, StartSearch
    <3>2. hi' \in Nat
      BY <1>0, <3>1, SizeNat, ElementOfSeq DEF Size
    <3>3. Place'
      BY <1>0, <2>1, <3>1, <3>2 DEF Place
    <3>4. ASSUME Fruitless' PROVE ZeroTried' /\ BlocksTried'
      <4>1. ZeroTried'
        BY <1>0, <2>2, <2>3, <3>1, <3>4, EarlierPasses
      <4>2. ASSUME NEW size \in BlockSizes, NEW k \in 1..(Size + 1 - size)
            PROVE  Without(best, k, size).choices \in rejected
        <5>1. size \in Nat /\ (size > block \/ (size = block /\ k < i))
          BY <1>0, <1>b, <2>3, <2>5, <3>4 DEF BlockSizes
        <5>. QED  BY <5>1, <1>0, <2>3, <3>4 DEF BlocksTried
      <4>3. BlocksTried'
        BY <2>2, <4>2 DEF BlocksTried, Size
      <4>. QED  BY <4>1, <4>3
    <3>5. LowerTried' /\ SearchTried' /\ Searching'
      BY <1>0, <2>1, <2>2, <3>1, SizeNat, ElementOfSeq DEF LowerTried, SearchTried, Searching, Size
    <3>6. SwapsTried'
      BY <3>1, LaterPasses
    <3>. QED  BY <2>2, <3>1, <3>3, <3>4, <3>5, <3>6, PartsNext DEF Tried
  <2>. QED  BY <2>4, <2>5
<1>. QED  BY <1>1, <1>2

\* Pass 3 preserves the invariant and accepts smaller sequences only.
LEMMA MinimizeStep ==
  ASSUME IInv, Minimize
  PROVE  IInv' /\ (best' # best => Smaller(best'.choices, best.choices))
<1>0. /\ Data /\ Place /\ Searching /\ (Fruitless => Tried) /\ pass = 3 /\ block' = block
      /\ Size \in Nat /\ best.choices \in Seq(Nat) /\ i \in Nat \ {0} /\ lo \in Nat /\ hi \in Nat
  BY Parts, SizeNat DEF Minimize, Place
<1>1. CASE i <= Size /\ More /\ lo < hi
  <2>. DEFINE mid == lo + (hi - lo) \div 2
              c == With(best, i, mid)
  <2>1. Try(c, hi' = mid /\ lo' = lo, lo' = mid + 1 /\ hi' = hi) /\ pass' = 3 /\ i' = i
    BY <1>0, <1>1 DEF Minimize, Size
  <2>2. mid \in Nat /\ lo <= mid /\ mid < hi
    BY <1>0, <1>1
  <2>3. hi = best.choices[i] /\ i \in 1..Len(best.choices)
    BY <1>0, <1>1 DEF Searching, Size
  <2>. HIDE DEF mid
  <2>4. Improves(c, best) /\ c.choices[i] = mid /\ Len(c.choices) = Size
    BY <1>0, <2>2, <2>3, WithImproves DEF Data, StaysRecording, Size
  <2>. HIDE DEF c
  <2>5. /\ Data'
        /\ best' # best => Smaller(best'.choices, best.choices)
        /\ \/ best' = c /\ progress' = TRUE /\ hi' = mid /\ lo' = lo
           \/ Refuse(c) /\ lo' = mid + 1 /\ hi' = hi
    BY <1>0, <1>1, <2>1, <2>4, TryData
  <2>6. Place'
    BY <1>0, <2>1, <2>2, <2>5 DEF Place
  <2>7. Searching'
    <3>1. CASE best' = c /\ hi' = mid /\ lo' = lo
      BY <3>1, <2>1, <2>2, <2>4 DEF Searching
    <3>2. CASE Refuse(c) /\ lo' = mid + 1 /\ hi' = hi
      BY <3>2, <1>0, <2>1, <2>2, <2>3 DEF Searching, Refuse
    <3>. QED  BY <3>1, <3>2, <2>5
  <2>8. ASSUME Fruitless' PROVE ZeroTried' /\ BlocksTried' /\ LowerTried' /\ SearchTried'
    <3>1. Refuse(c) /\ lo' = mid + 1 /\ ~progress
      BY <2>5, <2>8 DEF Fruitless, Refuse
    <3>2. ZeroTried /\ BlocksTried /\ LowerTried
      BY <1>0, <1>1, <3>1 DEF Fruitless, Tried
    <3>3. best' = best /\ rejected \subseteq rejected' /\ c.choices \in rejected'
      BY <3>1 DEF Refuse
    <3>4. ZeroTried' /\ BlocksTried'
      BY <1>0, <2>1, <3>2, <3>3, EarlierPasses
    <3>5. LowerTried'
      BY <1>0, <2>1, <3>2, <3>3 DEF LowerTried, Size
    <3>6. lo' - 1 = mid
      BY <2>2, <3>1
    <3>7. SearchTried'
      BY <2>1, <3>3, <3>6 DEF SearchTried, c
    <3>. QED  BY <3>4, <3>5, <3>7
  <2>9. SwapsTried'
    BY <2>1, LaterPasses
  <2>. QED  BY <2>1, <2>5, <2>6, <2>7, <2>8, <2>9, PartsNext DEF Tried
<1>2. CASE i <= Size /\ More /\ ~(lo < hi)
  <2>1. Idle /\ pass' = 3 /\ i' = i + 1 /\ lo' = 0 /\ hi' = IF i + 1 <= Size THEN best.choices[i + 1] ELSE 0
    BY <1>0, <1>2 DEF Minimize, Size, StartSearch
  <2>2. Data' /\ best' = best /\ rejected' = rejected /\ progress' = progress /\ attempts' = attempts
    BY <1>0, <2>1, IdleData
  <2>3. hi' \in Nat
    BY <1>0, <2>1, ElementOfSeq DEF Size
  <2>4. Place'
    BY <1>0, <2>1, <2>3 DEF Place
  <2>5. Searching' /\ SearchTried'
    BY <2>1, <2>2, <2>3 DEF Searching, SearchTried, Size
  <2>6. ASSUME Fruitless' PROVE ZeroTried' /\ BlocksTried' /\ LowerTried'
    <3>1. ZeroTried /\ BlocksTried /\ LowerTried /\ SearchTried
      BY <1>0, <2>2, <2>6 DEF Fruitless, Tried, More
    <3>2. ZeroTried' /\ BlocksTried'
      BY <1>0, <2>1, <2>2, <3>1, EarlierPasses
    <3>3. lo = best.choices[i]
      BY <1>0, <1>2 DEF Searching
    <3>4. ASSUME NEW k \in 1..Size, k < i + 1, best.choices[k] > 0
          PROVE  With(best, k, best.choices[k] - 1).choices \in rejected
      <4>1. CASE k = i
        BY <4>1, <1>0, <1>2, <3>1, <3>3, <3>4 DEF SearchTried
      <4>2. CASE k < i
        BY <4>2, <1>0, <3>1, <3>4 DEF LowerTried
      <4>. QED  BY <4>1, <4>2, <1>0, <3>4
    <3>5. LowerTried'
      BY <2>1, <2>2, <3>4 DEF LowerTried, Size
    <3>. QED  BY <3>2, <3>5
  <2>7. SwapsTried'
    BY <2>1, LaterPasses
  <2>. QED  BY <2>1, <2>2, <2>4, <2>5, <2>6, <2>7, PartsNext DEF Tried
<1>3. CASE ~(i <= Size /\ More)
  <2>1. Idle /\ pass' = 4 /\ i' = 1 /\ lo' = lo /\ hi' = hi
    BY <1>0, <1>3 DEF Minimize, Size
  <2>2. Data' /\ best' = best /\ rejected' = rejected /\ progress' = progress /\ attempts' = attempts
    BY <1>0, <2>1, IdleData
  <2>3. Place'
    BY <1>0, <2>1 DEF Place
  <2>4. SearchTried' /\ Searching'
    BY <2>1, LaterPasses
  <2>5. ASSUME Fruitless' PROVE ZeroTried' /\ BlocksTried' /\ LowerTried' /\ SwapsTried'
    <3>1. ZeroTried /\ BlocksTried /\ LowerTried /\ i > Size
      BY <1>0, <1>3, <2>2, <2>5 DEF Fruitless, Tried, More
    <3>2. ZeroTried' /\ BlocksTried'
      BY <1>0, <2>1, <2>2, <3>1, EarlierPasses
    <3>3. LowerTried'
      BY <1>0, <2>2, <3>1 DEF LowerTried, Size
    <3>4. SwapsTried'
      BY <2>1 DEF SwapsTried
    <3>. QED  BY <3>2, <3>3, <3>4
  <2>. QED  BY <2>1, <2>2, <2>3, <2>4, <2>5, PartsNext DEF Tried
<1>. QED  BY <1>1, <1>2, <1>3

\* Pass 4 preserves the invariant and accepts smaller sequences only.
LEMMA SwapPairStep ==
  ASSUME IInv, SwapPair
  PROVE  IInv' /\ (best' # best => Smaller(best'.choices, best.choices))
<1>0. /\ Data /\ Place /\ (Fruitless => Tried) /\ pass = 4
      /\ block' = block /\ lo' = lo /\ hi' = hi /\ Size \in Nat /\ i \in Nat \ {0}
  BY Parts, SizeNat DEF SwapPair, Place
<1>1. CASE i < Size /\ More /\ best.choices[i] > best.choices[i + 1]
  <2>. DEFINE c == Swapped(best, i)
  <2>1. Try(c, i' = i + 1, i' = i + 1) /\ pass' = 4
    BY <1>0, <1>1 DEF SwapPair, Size
  <2>2. Improves(c, best)
    <3>1. i \in 1..(Len(best.choices) - 1)
      BY <1>0, <1>1 DEF Size
    <3>. QED  BY <3>1, <1>0, <1>1, SwappedImproves DEF Data, StaysRecording
  <2>. HIDE DEF c
  <2>3. /\ Data'
        /\ best' # best => Smaller(best'.choices, best.choices)
        /\ (best' = c /\ progress' = TRUE /\ i' = i + 1) \/ (Refuse(c) /\ i' = i + 1)
    BY <1>0, <1>1, <2>1, <2>2, TryData, Zenon
  <2>4. Place'
    BY <1>0, <2>1, <2>3 DEF Place
  <2>5. ASSUME Fruitless' PROVE ZeroTried' /\ BlocksTried' /\ LowerTried' /\ SwapsTried'
    <3>1. Refuse(c) /\ i' = i + 1 /\ ~progress
      BY <2>3, <2>5 DEF Fruitless, Refuse
    <3>2. ZeroTried /\ BlocksTried /\ LowerTried /\ SwapsTried
      BY <1>0, <1>1, <3>1 DEF Fruitless, Tried
    <3>3. best' = best /\ rejected \subseteq rejected' /\ c.choices \in rejected'
      BY <3>1 DEF Refuse
    <3>4. ZeroTried' /\ BlocksTried' /\ LowerTried'
      BY <1>0, <2>1, <3>2, <3>3, EarlierPasses
    <3>5. ASSUME NEW k \in 1..(Size - 1), k < i + 1, best.choices[k] > best.choices[k + 1]
          PROVE  Swapped(best, k).choices \in rejected'
      <4>1. CASE k = i
        BY <4>1, <3>3 DEF c
      <4>2. CASE k < i
        BY <4>2, <1>0, <3>2, <3>3, <3>5 DEF SwapsTried
      <4>. QED  BY <4>1, <4>2, <1>0, <3>5
    <3>6. SwapsTried'
      BY <2>1, <3>1, <3>3, <3>5 DEF SwapsTried, Size
    <3>. QED  BY <3>4, <3>6
  <2>6. SearchTried' /\ Searching'
    BY <2>1, LaterPasses
  <2>. QED  BY <2>1, <2>3, <2>4, <2>5, <2>6, PartsNext DEF Tried
<1>2. CASE ~(i < Size /\ More /\ best.choices[i] > best.choices[i + 1])
  <2>1. /\ Idle
        /\ \/ i < Size /\ ~(best.choices[i] > best.choices[i + 1]) /\ pass' = 4 /\ i' = i + 1
           \/ ~(i < Size /\ More) /\ pass' = 5 /\ i' = i
    BY <1>0, <1>2 DEF SwapPair, Size
  <2>2. Data' /\ best' = best /\ rejected' = rejected /\ progress' = progress /\ attempts' = attempts
    BY <1>0, <2>1, IdleData
  <2>3. Place'
    BY <1>0, <2>1 DEF Place
  <2>4. SearchTried' /\ Searching'
    BY <2>1, LaterPasses
  <2>5. ASSUME Fruitless' PROVE ZeroTried' /\ BlocksTried' /\ LowerTried' /\ SwapsTried'
    <3>1. ZeroTried /\ BlocksTried /\ LowerTried /\ SwapsTried /\ More
      BY <1>0, <2>2, <2>5 DEF Fruitless, Tried, More
    <3>2. ZeroTried' /\ BlocksTried' /\ LowerTried'
      BY <1>0, <2>1, <2>2, <3>1, EarlierPasses
    <3>3. ASSUME NEW k \in 1..(Size - 1), pass' = 5 \/ k < i', best.choices[k] > best.choices[k + 1]
          PROVE  Swapped(best, k).choices \in rejected
      <4>1. k < i
        BY <1>0, <2>1, <3>1, <3>3
      <4>. QED  BY <4>1, <1>0, <3>1, <3>3 DEF SwapsTried
    <3>4. SwapsTried'
      BY <2>1, <2>2, <3>3 DEF SwapsTried, Size
    <3>. QED  BY <3>2, <3>4
  <2>. QED  BY <2>1, <2>2, <2>3, <2>4, <2>5, PartsNext DEF Tried
<1>. QED  BY <1>1, <1>2

\* The end of a round preserves the invariant: what a fruitless round tried
\* is what LocalMinimum asks for, and a new round starts with nothing tried.
LEMMA EndRoundStep ==
  ASSUME IInv, EndRound
  PROVE  IInv' /\ best' = best
<1>0. /\ Data /\ Place /\ (Fruitless => Tried) /\ pass = 5
      /\ UNCHANGED <<best, failing, rejected, attempts, block, lo, hi>>
  BY Parts DEF EndRound
<1>1. More' <=> More
  BY <1>0 DEF More
<1>2. CASE progress /\ More
  <2>1. pass' = 1 /\ i' = 1 /\ progress' = FALSE
    BY <1>2 DEF EndRound
  <2>2. Data'
    BY <1>0, <2>1, Zenon DEF Data, StaysRecording, StillFails
  <2>3. Place'
    BY <1>0, <2>1 DEF Place
  <2>4. ZeroTried'
    BY <2>1 DEF ZeroTried
  <2>5. BlocksTried' /\ LowerTried' /\ SearchTried' /\ Searching' /\ SwapsTried'
    BY <2>1, LaterPasses
  <2>. QED  BY <1>0, <2>1, <2>2, <2>3, <2>4, <2>5, PartsNext DEF Tried
<1>3. CASE ~(progress /\ More)
  <2>1. pass' = 6 /\ i' = i /\ progress' = progress
    BY <1>3 DEF EndRound
  <2>2. Data'
    BY <1>0, <2>1 DEF Data, StaysRecording, StillFails
  <2>3. Place'
    BY <1>0, <2>1 DEF Place
  <2>4. Searching' /\ SearchTried'
    BY <2>1, LaterPasses
  <2>5. ASSUME Fruitless' PROVE ZeroTried' /\ BlocksTried' /\ LowerTried' /\ SwapsTried'
    <3>1. ZeroTried /\ BlocksTried /\ LowerTried /\ SwapsTried
      BY <1>0, <1>1, <2>1, <2>5 DEF Fruitless, Tried
    <3>. QED  BY <1>0, <2>1, <3>1, EarlierPasses
  <2>6. More' => ~progress'
    BY <1>1, <1>3, <2>1
  <2>. QED  BY <1>0, <2>1, <2>2, <2>3, <2>4, <2>5, <2>6 DEF IInv, TypeOK, Data, Place, Tried
<1>. QED  BY <1>2, <1>3

\* A recording starts the invariant.
LEMMA InitIInv == Init => IInv
<1>. SUFFICES ASSUME Init PROVE IInv
  OBVIOUS
<1>1. IsRecording(best)
  BY ShrinkAssumption DEF Init
<1>2. Data
  <2>1. best \in [choices : Seq(Nat), maxima : Seq(Nat)] /\ best.choices \in Seq(Nat)
    BY <1>1 DEF IsRecording
  <2>2. failing \subseteq Seq(Nat) /\ rejected \subseteq Seq(Nat) /\ best.choices \in failing /\ failing \cap rejected = {}
    BY <2>1 DEF Init
  <2>3. attempts \in 0..MaxAttempts
    BY ShrinkAssumption DEF Init
  <2>4. progress \in BOOLEAN
    BY Zenon DEF Init
  <2>. QED  BY <1>1, <2>1, <2>2, <2>3, <2>4 DEF Data, StaysRecording, StillFails
<1>3. Place /\ Searching
  BY DEF Init, Place, BlockSizes, Searching
<1>4. Tried
  BY DEF Init, Tried, ZeroTried, BlocksTried, LowerTried, SearchTried, SwapsTried
<1>5. pass = 1
  BY DEF Init
<1>. QED  BY <1>2, <1>3, <1>4, <1>5, Parts

\* Every step preserves the invariant and accepts smaller sequences only.
LEMMA NextIInv == IInv /\ [Next]_vars => IInv' /\ (best' # best => Smaller(best'.choices, best.choices))
<1>. SUFFICES ASSUME IInv, [Next]_vars
              PROVE  IInv' /\ (best' # best => Smaller(best'.choices, best.choices))
  OBVIOUS
<1>1. CASE ZeroSuffix
  BY <1>1, ZeroSuffixStep
<1>2. CASE DeleteBlock
  BY <1>2, DeleteBlockStep
<1>3. CASE Minimize
  BY <1>3, MinimizeStep
<1>4. CASE SwapPair
  BY <1>4, SwapPairStep
<1>5. CASE EndRound
  BY <1>5, EndRoundStep
<1>6. CASE UNCHANGED vars
  <2>1. Data' /\ Place' /\ Searching' /\ (pass' = 6 /\ More' => ~progress')
    BY <1>6, Parts DEF vars, Data, Place, Searching, Size, More, StaysRecording, StillFails
  <2>2. Fruitless' => Tried'
    BY <1>6, Parts, Zenon DEF vars, Fruitless, More, Tried, ZeroTried, BlocksTried, LowerTried, SearchTried, SwapsTried, Size
  <2>. QED  BY <1>6, <2>1, <2>2, SMTT(20) DEF IInv, TypeOK, Data, Place, vars
<1>. QED  BY <1>1, <1>2, <1>3, <1>4, <1>5, <1>6 DEF Next

\* The invariant says what LocalMinimum does once shrinking is over.
LEMMA IInvMinimum == IInv => LocalMinimum
<1>. SUFFICES ASSUME IInv, pass = 6, More PROVE LocalMinimum
  BY Zenon DEF LocalMinimum
<1>1. Tried /\ Size = Len(best.choices)
  BY DEF IInv, Fruitless, Size
<1>. QED  BY <1>1, SMTT(40) DEF LocalMinimum, Tried, ZeroTried, BlocksTried, LowerTried, SwapsTried, Size

-----------------------------------------------------------------------------
\* Shrinking keeps a drawable recording that was seen to fail, and the
\* variables of the loops in their ranges.
THEOREM ShrunkCaseFails == Spec => [](TypeOK /\ StaysRecording /\ StillFails)
<1>1. IInv => TypeOK /\ StaysRecording /\ StillFails
  BY DEF IInv
<1>. QED  BY <1>1, InitIInv, NextIInv, PTL DEF Spec

\* Every accepted candidate of `shrink` is smaller in shortlex order.
THEOREM ShrinkingDescends == Spec => OnlySmaller
<1>1. IInv /\ [Next]_vars => [best' # best => Smaller(best'.choices, best.choices)]_vars
  BY NextIInv
<1>. QED  BY <1>1, InitIInv, NextIInv, PTL DEF Spec, OnlySmaller

\* Shrinking that ends within its attempts ends in a local minimum of all
\* four passes.
THEOREM ShrinkingIsLocallyMinimal == Spec => []LocalMinimum
BY InitIInv, NextIInv, IInvMinimum, PTL DEF Spec

-----------------------------------------------------------------------------
(***************************************************************************)
(* Both invariants hold for every set of cases, corpus and configuration.  *)
(* The verdict says nothing of the steps before it, so the invariant says  *)
(* what each phase has established: which entries were replayed without a  *)
(* failure, and that the case to be saved fails.                           *)
(***************************************************************************)
Harmless(slots) == \A s \in slots : Outcome(corpus[s]) # "fail"

RunnerInv ==
  /\ pc # "idle" => verdict = None
  /\ pc = "replay" => Harmless(Readable \ pending)
  /\ pc \in {"explore", "shrink", "save", "finish"} => Harmless(Readable)
  /\ pc = "save" => Outcome(found) = "fail"
  /\ NoSavedFailureMissed
  /\ ReportedCaseFails

\* No run has reported anything yet.
LEMMA InitRunner == RunnerInit => RunnerInv
  BY DEF RunnerInit, RunnerInv, NoSavedFailureMissed, ReportedCaseFails, None, Ok

\* Replaying one entry: it is harmless, or it is the one that is reported.
LEMMA ReplayKeeps == RunnerInv /\ ReplayEntry => RunnerInv'
<1> SUFFICES ASSUME RunnerInv, ReplayEntry PROVE RunnerInv'
  OBVIOUS
<1>1. PICK s \in pending :
        /\ pending' = pending \ {s}
        /\ IF Outcome(corpus[s]) = "fail" THEN pc' = "idle" /\ verdict' = Failed(corpus[s])
           ELSE UNCHANGED <<pc, verdict>>
  BY DEF ReplayEntry
<1>2. /\ UNCHANGED <<kind, program, corpus, found>>
      /\ pc = "replay" /\ verdict = None /\ Harmless(Readable \ pending)
  BY DEF RunnerInv, ReplayEntry
<1>3. Readable' = Readable /\ \A c : Outcome(c)' = Outcome(c)
  BY <1>2 DEF Readable, Outcome
<1>4. CASE Outcome(corpus[s]) = "fail"
  BY <1>1, <1>2, <1>3, <1>4 DEF RunnerInv, NoSavedFailureMissed, ReportedCaseFails, Failed, Ok
<1>5. CASE Outcome(corpus[s]) # "fail"
  <2>1. Harmless(Readable \ pending)'
    BY <1>1, <1>2, <1>3, <1>5 DEF Harmless
  <2> QED
    BY <2>1, <1>1, <1>2, <1>5 DEF RunnerInv, NoSavedFailureMissed, ReportedCaseFails, None, Ok
<1> QED
  BY <1>4, <1>5

\* Exploring: only a case that fails is kept, or reported.
LEMMA ExploreKeeps == RunnerInv /\ Explore => RunnerInv'
<1> SUFFICES ASSUME RunnerInv, Explore PROVE RunnerInv'
  OBVIOUS
<1>1. /\ UNCHANGED <<kind, program, corpus>>
      /\ pc = "explore" /\ verdict = None /\ Harmless(Readable)
  BY DEF RunnerInv, Explore
<1>2. \A c : Outcome(c)' = Outcome(c)
  BY <1>1 DEF Outcome
<1>3. Harmless(Readable)'
  BY <1>1, <1>2 DEF Harmless, Readable
<1>4. \/ pc' \in {"explore", "shrink", "finish"} /\ verdict' = verdict
      \/ \E c \in Cases : Outcome(c) = "fail" /\ verdict' = Failed(c) /\ pc' = "idle"
  BY <1>1 DEF Explore
<1> QED
  BY <1>1, <1>2, <1>3, <1>4 DEF RunnerInv, NoSavedFailureMissed, ReportedCaseFails, Failed, None, Ok

\* The other steps of a run, and what happens between two runs.
LEMMA NextRunner == RunnerInv /\ [RunnerNext]_runnerVars => RunnerInv'
<1> SUFFICES ASSUME RunnerInv, [RunnerNext]_runnerVars PROVE RunnerInv'
  OBVIOUS
<1> USE DEF RunnerInv, NoSavedFailureMissed, ReportedCaseFails, None, Ok
<1>1. CASE EditProgram
  BY <1>1 DEF EditProgram
<1>2. CASE Start
  BY <1>2 DEF Start, Harmless, Readable
<1>3. CASE ReplayEntry
  BY <1>3, ReplayKeeps, SMTT(20)
<1>4. CASE EndReplay
  BY <1>4, SMTT(20) DEF EndReplay, Harmless, Readable, Outcome
<1>5. CASE Explore
  BY <1>5, ExploreKeeps
<1>6. CASE ShrinkFound
  BY <1>6 DEF ShrinkFound, Harmless, Readable, Outcome
<1>7. CASE Save
  BY <1>7, Zenon DEF Save, Failed, Outcome
<1>8. CASE Finish
  BY <1>8 DEF Finish, Failed, Harmless, Readable, Outcome
<1>9. CASE Kill
  BY <1>9, SMTT(20) DEF Kill, Outcome
<1>10. CASE UNCHANGED runnerVars
  BY <1>10 DEF runnerVars, Harmless, Readable, Outcome
<1> QED
  BY <1>1, <1>2, <1>3, <1>4, <1>5, <1>6, <1>7, <1>8, <1>9, <1>10, Zenon DEF RunnerNext, RunnerStep

\* What the phases have established is true at any time.
LEMMA AlwaysRunner == RunnerSpec => []RunnerInv
  BY InitRunner, NextRunner, PTL DEF RunnerSpec

\* However runs, edits of the program, unreadable files and kills follow each
\* other, a run that passes has replayed every readable saved case (runner.rs:621).
THEOREM SavedFailuresAreFound == RunnerSpec => []NoSavedFailureMissed
<1>1. RunnerInv => NoSavedFailureMissed
  BY DEF RunnerInv
<1> QED
  BY <1>1, AlwaysRunner, PTL

\* Whatever the shrinker replaces the failing case by, and from whichever
\* phase it is reported, the reported case fails on replay (runner.rs:817).
THEOREM ReportsAreFailures == RunnerSpec => []ReportedCaseFails
<1>1. RunnerInv => ReportedCaseFails
  BY DEF RunnerInv
<1> QED
  BY <1>1, AlwaysRunner, PTL
=============================================================================
