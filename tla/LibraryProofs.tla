--------------------------- MODULE LibraryProofs ----------------------------
(***************************************************************************)
(* Values of the library.  The operators of Int: for every width the       *)
(* compiled operators give what the interpreter's give.  The priority      *)
(* queue: for every set of priorities and number of pushes the heap is in  *)
(* order, and it implements the stable queue.                              *)
(***************************************************************************)
EXTENDS Outcomes, PriorityQueue, WellFoundedInduction, TLAPS

(***************************************************************************)
(* The compiled operators give what the interpreter's give, at every width.*)
(* Wrapping around changes a number by a multiple of 2^IntBits (WrappedIs).*)
(* A sum or a difference that is out of range is off by exactly one, which *)
(* shows in its sign.  A wrapped product divided by its first factor gives *)
(* back the second only if it was in range: division towards 0 leaves less *)
(* than the divisor (Truncated), which is less than 2^IntBits.             *)
(***************************************************************************)

\* Two multiples of d that are less than d apart are the same.
LEMMA SameMultiple ==
  ASSUME NEW d \in Nat \ {0}, NEW p \in Int, NEW q \in Int, d * p - d * q < d, d * q - d * p < d
  PROVE  p = q
<1>1. ASSUME p > q PROVE FALSE
  <2>1. d * (p - q) >= d * 1
    BY <1>1
  <2>2. d * (p - q) = d * p - d * q
    OBVIOUS
  <2> QED BY <2>1, <2>2
<1>2. ASSUME q > p PROVE FALSE
  <2>1. d * (q - p) >= d * 1
    BY <1>2
  <2>2. d * (q - p) = d * q - d * p
    OBVIOUS
  <2> QED BY <2>1, <2>2
<1> QED BY <1>1, <1>2

\* \div and % for a positive divisor, in one piece.
LEMMA DivMod ==
  ASSUME NEW a \in Int, NEW b \in Int, b > 0
  PROVE  a \div b \in Int /\ a % b \in Int /\ 0 <= a % b /\ a % b < b /\ a = b * (a \div b) + (a % b)
<1>1. a \div b \in Int /\ a % b \in 0 .. b - 1
  OBVIOUS
<1>2. a = b * (a \div b) + (a % b)
  OBVIOUS
<1> QED
  BY <1>1, <1>2

\* Wrapping around adds a multiple of 2^IntBits and ends in range.
LEMMA WrappedIs ==
  ASSUME NEW n \in Int
  PROVE  Wrapped(n) \in IntRange /\ \E k \in Int : Wrapped(n) = n - (2 * 2 ^ (IntBits - 1)) * k
<1> DEFINE half == 2 ^ (IntBits - 1)
           width == 2 ^ IntBits
           low == n + half
<1>1. half \in Nat \ {0} /\ width = 2 * half /\ low \in Int
  BY PowersAssumption
<1>2. Wrapped(n) = (low % width) - half
  BY <1>1 DEF Wrapped, IntMin
<1> HIDE DEF half, width, low
<1>3. PICK q \in Int, r \in Int : 0 <= r /\ r < width /\ low = width * q + r /\ r = low % width
  BY <1>1, DivMod
<1>4. low = n + half /\ IntRange = -half .. half - 1
  BY DEF low, half, IntRange, IntMin, IntMax
<1>5. Wrapped(n) = n - width * q
  BY <1>1, <1>2, <1>3, <1>4
<1>6. Wrapped(n) \in IntRange
  BY <1>1, <1>2, <1>3, <1>4
<1> QED
  BY <1>1, <1>3, <1>5, <1>6 DEF half

\* A number in range is not changed by wrapping around.
LEMMA InRangeStays ==
  ASSUME NEW n \in IntRange
  PROVE  Wrapped(n) = n
<1> DEFINE half == 2 ^ (IntBits - 1)
<1>1. half \in Nat \ {0} /\ IntRange = -half .. half - 1 /\ n \in Int
  BY PowersAssumption DEF IntRange, IntMin, IntMax
<1>2. PICK k \in Int : Wrapped(n) = n - (2 * half) * k /\ Wrapped(n) \in IntRange
  BY <1>1, WrappedIs
<1> HIDE DEF half
<1>3. (2 * half) * k - (2 * half) * 0 < 2 * half /\ (2 * half) * 0 - (2 * half) * k < 2 * half
  BY <1>1, <1>2
<1>4. k = 0
  BY <1>1, <1>3, SameMultiple
<1> QED
  BY <1>1, <1>2, <1>4

\* A number up to 2^IntBits too large comes out 2^IntBits smaller.
LEMMA TooLargeFolds ==
  ASSUME NEW n \in Int, n > IntMax, n <= IntMax + 2 * 2 ^ (IntBits - 1)
  PROVE  Wrapped(n) = n - 2 * 2 ^ (IntBits - 1)
<1> DEFINE half == 2 ^ (IntBits - 1)
<1>1. /\ half \in Nat \ {0} /\ IntRange = -half .. half - 1
      /\ n > half - 1 /\ n <= half - 1 + 2 * half
  BY PowersAssumption DEF IntRange, IntMin, IntMax
<1>2. PICK k \in Int : Wrapped(n) = n - (2 * half) * k /\ Wrapped(n) \in IntRange
  BY <1>1, WrappedIs
<1> HIDE DEF half
<1>3. (2 * half) * k - (2 * half) * 1 < 2 * half /\ (2 * half) * 1 - (2 * half) * k < 2 * half
  BY <1>1, <1>2
<1>4. k = 1
  BY <1>1, <1>3, SameMultiple
<1> QED
  BY <1>1, <1>2, <1>4 DEF half

\* And one up to 2^IntBits too small comes out 2^IntBits larger.
LEMMA TooSmallFolds ==
  ASSUME NEW n \in Int, n < IntMin, n >= IntMin - 2 * 2 ^ (IntBits - 1)
  PROVE  Wrapped(n) = n + 2 * 2 ^ (IntBits - 1)
<1> DEFINE half == 2 ^ (IntBits - 1)
<1>1. /\ half \in Nat \ {0} /\ IntRange = -half .. half - 1
      /\ n < -half /\ n >= -half - 2 * half
  BY PowersAssumption DEF IntRange, IntMin, IntMax
<1>2. PICK k \in Int : Wrapped(n) = n - (2 * half) * k /\ Wrapped(n) \in IntRange
  BY <1>1, WrappedIs
<1> HIDE DEF half
<1>3. (2 * half) * k - (2 * half) * (-1) < 2 * half /\ (2 * half) * (-1) - (2 * half) * k < 2 * half
  BY <1>1, <1>2
<1>4. k = -1
  BY <1>1, <1>3, SameMultiple
<1> QED
  BY <1>1, <1>2, <1>4 DEF half

\* An overflowed sum has the sign of neither operand, any other has that of
\* one of them: emit_checked_int_add traps when checked_add fails.
LEMMA AddAgrees ==
  ASSUME NEW a \in IntRange, NEW b \in IntRange
  PROVE  CheckedIntAdd(a, b) = Representable(a + b)
<1> DEFINE half == 2 ^ (IntBits - 1)
           result == Wrapped(a + b)
<1>1. half \in Nat \ {0} /\ IntMin = -half /\ IntMax = half - 1 /\ IntRange = -half .. half - 1
  BY PowersAssumption DEF IntRange, IntMin, IntMax
<1>2. a + b \in IntRange => result = a + b
  BY InRangeStays
<1>3. a + b > IntMax => result = a + b - 2 * half
  BY <1>1, TooLargeFolds
<1>4. a + b < IntMin => result = a + b + 2 * half
  BY <1>1, TooSmallFolds
<1>5. CheckedIntAdd(a, b) = IF SignsDiffer(a, result) /\ SignsDiffer(b, result) THEN Fails ELSE Ok(result)
  BY DEF CheckedIntAdd, TrapIf, Trap
<1> HIDE DEF half, result
<1> QED
  BY <1>1, <1>2, <1>3, <1>4, <1>5 DEF SignsDiffer, Representable

\* A difference overflows when the operands' signs differ and the result has
\* not that of the first one.
LEMMA SubAgrees ==
  ASSUME NEW a \in IntRange, NEW b \in IntRange
  PROVE  CheckedIntSub(a, b) = Representable(a - b)
<1> DEFINE half == 2 ^ (IntBits - 1)
           result == Wrapped(a - b)
<1>1. half \in Nat \ {0} /\ IntMin = -half /\ IntMax = half - 1 /\ IntRange = -half .. half - 1
  BY PowersAssumption DEF IntRange, IntMin, IntMax
<1>2. a - b \in IntRange => result = a - b
  BY InRangeStays
<1>3. a - b > IntMax => result = a - b - 2 * half
  BY <1>1, TooLargeFolds
<1>4. a - b < IntMin => result = a - b + 2 * half
  BY <1>1, TooSmallFolds
<1>5. CheckedIntSub(a, b) = IF SignsDiffer(a, b) /\ SignsDiffer(a, result) THEN Fails ELSE Ok(result)
  BY DEF CheckedIntSub, TrapIf, Trap
<1> HIDE DEF half, result
<1> QED
  BY <1>1, <1>2, <1>3, <1>4, <1>5 DEF SignsDiffer, Representable

\* Division towards 0 leaves a remainder smaller than the divisor.
LEMMA Truncated ==
  ASSUME NEW a \in Int, NEW b \in Int, b # 0
  PROVE  /\ Quotient(a, b) \in Int
         /\ a - b * Quotient(a, b) < Magnitude(b)
         /\ b * Quotient(a, b) - a < Magnitude(b)
<1>1. Magnitude(a) \in Int /\ Magnitude(b) \in Int /\ Magnitude(b) > 0
  BY DEF Magnitude
<1>2. PICK q \in Int, r \in Int :
        /\ 0 <= r /\ r < Magnitude(b) /\ Magnitude(a) = Magnitude(b) * q + r
        /\ q = Magnitude(a) \div Magnitude(b)
  BY <1>1, DivMod
<1>3. CASE a = 0
  <2>1. Quotient(a, b) = 0
    BY <1>2, <1>3 DEF Quotient, Sign
  <2> QED
    BY <2>1, <1>1, <1>3
<1>4. CASE a > 0 /\ b > 0
  <2>1. Quotient(a, b) = q
    BY <1>2, <1>4 DEF Quotient, Sign
  <2> QED
    BY <2>1, <1>2, <1>4 DEF Magnitude
<1>5. CASE a > 0 /\ b < 0
  <2>1. Quotient(a, b) = -q
    BY <1>2, <1>5 DEF Quotient, Sign
  <2> QED
    BY <2>1, <1>2, <1>5 DEF Magnitude
<1>6. CASE a < 0 /\ b > 0
  <2>1. Quotient(a, b) = -q
    BY <1>2, <1>6 DEF Quotient, Sign
  <2> QED
    BY <2>1, <1>2, <1>6 DEF Magnitude
<1>7. CASE a < 0 /\ b < 0
  <2>1. Quotient(a, b) = q
    BY <1>2, <1>7 DEF Quotient, Sign
  <2> QED
    BY <2>1, <1>2, <1>7 DEF Magnitude
<1> QED
  BY <1>3, <1>4, <1>5, <1>6, <1>7

\* A product divided by one of its factors is the other.
LEMMA ExactQuotient ==
  ASSUME NEW a \in Int, NEW b \in Int, a # 0
  PROVE  Quotient(a * b, a) = b
<1> DEFINE d == Magnitude(a)
           q == Quotient(a * b, a)
<1>1. q \in Int /\ a * b - a * q < d /\ a * q - a * b < d
  BY Truncated
<1>2. d \in Nat \ {0} /\ (d = a \/ d = -a)
  BY DEF Magnitude
<1> HIDE DEF d, q
<1>3. d * b - d * q < d /\ d * q - d * b < d
  BY <1>1, <1>2
<1>4. q = b
  BY <1>1, <1>2, <1>3, SameMultiple
<1> QED
  BY <1>4 DEF q

\* Dividing the wrapped product by the first factor tells whether it wrapped;
\* the division does not trap on the way when it did not.
LEMMA MulAgrees ==
  ASSUME NEW a \in IntRange, NEW b \in IntRange
  PROVE  CheckedIntMul(a, b) = Representable(a * b)
<1> DEFINE half == 2 ^ (IntBits - 1)
           result == Wrapped(a * b)
<1>1. half \in Nat \ {0} /\ IntRange = -half .. half - 1 /\ a \in Int /\ b \in Int /\ a * b \in Int
  BY PowersAssumption DEF IntRange, IntMin, IntMax
<1>2. CheckedIntMul(a, b) =
        IF a = 0 THEN Ok(result) ELSE IF DivS(result, a) # Ok(b) THEN Fails ELSE Ok(result)
  BY DEF CheckedIntMul, TrapIf, Trap
<1>3. PICK k \in Int : result = a * b - (2 * half) * k /\ result \in IntRange
  BY <1>1, WrappedIs
<1>4. CASE a * b \in IntRange
  <2>1. result = a * b
    BY <1>4, InRangeStays
  <2>2. a # 0 => DivS(result, a) = Ok(b)
    <3>1. a # 0 => Quotient(a * b, a) = b
      BY <1>1, ExactQuotient
    <3> HIDE DEF result
    <3> QED
      BY <2>1, <3>1 DEF DivS, Representable
  <2> QED
    BY <1>2, <1>4, <2>1, <2>2 DEF Representable
<1>5. CASE a * b \notin IntRange
  <2>1. a # 0
    BY <1>1, <1>5
  <2>2. ASSUME DivS(result, a) = Ok(b) PROVE FALSE
    <3>1. Quotient(result, a) = b
      BY <2>1, <2>2 DEF DivS, Representable, Ok, Fails
    <3> HIDE DEF half, result
    <3>2. result - a * b < Magnitude(a) /\ a * b - result < Magnitude(a)
      <4>1. result \in Int
        BY <1>1, <1>3
      <4> QED
        BY <1>1, <2>1, <3>1, <4>1, Truncated
    <3>3. Magnitude(a) \in Int /\ Magnitude(a) <= half
      BY <1>1 DEF Magnitude
    <3>4. (2 * half) * k - (2 * half) * 0 < 2 * half /\ (2 * half) * 0 - (2 * half) * k < 2 * half
      BY <1>1, <1>3, <3>2, <3>3
    <3>5. k = 0
      BY <1>1, <3>4, SameMultiple
    <3> QED
      BY <1>1, <1>3, <1>5, <3>5
  <2> QED
    BY <1>2, <1>5, <2>1, <2>2 DEF Representable
<1> QED
  BY <1>4, <1>5

\* rem_s gives 0 for the minimum modulo -1, checked_rem an error: the guard
\* is needed, and enough.
LEMMA ModAgrees ==
  ASSUME NEW a \in IntRange, NEW b \in IntRange
  PROVE  CheckedIntMod(a, b) = EvalBinaryInt("Mod", a, b)
  BY DEF CheckedIntMod, RemS, EvalBinaryInt, Trap

\* The amount is not changed modulo the width, once it is checked.
LEMMA ShiftAgrees ==
  ASSUME NEW a \in IntRange, NEW b \in IntRange, NEW op \in {"Shl", "Shr"}
  PROVE  CheckedIntShift(a, b, op) = EvalBinaryInt(op, a, b)
<1>1. a \in Int /\ b \in Int
  BY PowersAssumption DEF IntRange, IntMin, IntMax
<1>2. b \in 0 .. IntBits - 1 => b % IntBits = b
  BY <1>1, IntBitsAssumption
<1>3. b < 0 \/ b >= IntBits <=> b \notin 0 .. IntBits - 1
  BY <1>1, IntBitsAssumption
<1> QED
  BY <1>2, <1>3 DEF CheckedIntShift, TrapIf, EvalBinaryInt, Trap

\* Whatever the width of Int, and so for 64 bits, a binary operator of the
\* compiled program gives the interpreter's result, and traps exactly when the
\* interpreter reports an error (func.rs:5490, interpreter.rs:4298).
THEOREM BinaryOperatorsAgree ==
  ASSUME NEW a \in IntRange, NEW b \in IntRange,
         NEW op \in {"Add", "Sub", "Mul", "Div", "Mod", "Shl", "Shr"}
  PROVE  EmitBinary(op, a, b) = EvalBinaryInt(op, a, b)
  BY AddAgrees, SubAgrees, MulAgrees, ModAgrees, ShiftAgrees DEF EmitBinary, EvalBinaryInt, DivS, Trap

\* The same of the unary operators and of abs: only the minimum has no
\* negative (func.rs:5643, 26184).
THEOREM UnaryOperatorsAgree ==
  ASSUME NEW n \in IntRange
  PROVE  /\ \A op \in {"Neg", "BitNot"} : EmitUnary(op, n) = EvalUnaryInt(op, n)
         /\ WasmAbs(n) = IntAbs(n)
<1> DEFINE half == 2 ^ (IntBits - 1)
<1>1. half \in Nat \ {0} /\ IntMin = -half /\ IntRange = -half .. half - 1
  BY PowersAssumption DEF IntRange, IntMin, IntMax
<1>2. -n \in IntRange => Wrapped(0 - n) = -n
  <2>1. 0 - n = -n
    BY <1>1
  <2> QED
    BY <2>1, InRangeStays
<1> HIDE DEF half
<1>3. -n \in IntRange <=> n # IntMin
  BY <1>1
<1>4. IF n = IntMin THEN Representable(-n) = Fails ELSE Representable(-n) = Ok(Wrapped(0 - n))
  BY <1>2, <1>3 DEF Representable
<1>5. \A op \in {"Neg", "BitNot"} : EmitUnary(op, n) = EvalUnaryInt(op, n)
  BY <1>4 DEF EmitUnary, EvalUnaryInt, TrapIf, Trap
<1>6. WasmAbs(n) = IntAbs(n)
  <2>1. CASE n < 0
    <3>1. Magnitude(n) = -n
      BY <2>1 DEF Magnitude
    <3> QED
      BY <2>1, <3>1, <1>4 DEF WasmAbs, IntAbs, TrapIf, Trap
  <2>2. CASE ~(n < 0)
    <3>1. Magnitude(n) = n /\ n # IntMin
      BY <1>1, <2>2 DEF Magnitude
    <3> QED
      BY <2>2, <3>1 DEF WasmAbs, IntAbs, TrapIf, Representable
  <2> QED
    BY <2>1, <2>2
<1> QED
  BY <1>5, <1>6

(***************************************************************************)
(* The priority queue.                                                     *)
(***************************************************************************)

\* What priority_queue_is_better does on entries with their numbers.
Numbered == [priority : Int, seq : Nat]

LEMMA EntriesNumbered == HeapEntries \subseteq Numbered
<1>1. 0..(MaxPushes - 1) \subseteq Nat /\ Priorities \subseteq Int
  BY PrioritiesAssumption
<1> QED  BY <1>1, Zenon DEF HeapEntries, Numbered

\* An order: none is better than itself, and not being better is transitive.
LEMMA BetterIrreflexive ==
  ASSUME NEW x \in Numbered
  PROVE  ~Better(x, x)
BY DEF Numbered, Better

LEMMA BetterAsymmetric ==
  ASSUME NEW x \in Numbered, NEW y \in Numbered, Better(x, y), direction \in {"min", "max"}
  PROVE  ~Better(y, x)
BY DEF Numbered, Better

LEMMA NotBetterTransitive ==
  ASSUME NEW x \in Numbered, NEW y \in Numbered, NEW z \in Numbered,
         direction \in {"min", "max"}, ~Better(y, x), ~Better(z, y)
  PROVE  ~Better(z, x)
BY DEF Numbered, Better

\* HeapEntries with different numbers are in order one way or the other.
LEMMA BetterTotal ==
  ASSUME NEW x \in Numbered, NEW y \in Numbered, x.seq # y.seq, direction \in {"min", "max"}, ~Better(y, x)
  PROVE  Better(x, y)
BY DEF Numbered, Better

\* A set of numbers has a least one.
LEMMA LeastNumber ==
  ASSUME NEW X \in SUBSET Nat, X # {}
  PROVE  \E m \in X : \A k \in X : m <= k
<1>1. PICK m \in X : \A k \in X : <<k, m>> \notin OpToRel(<, Nat)
  BY NatLessThanWellFounded, WFMin
<1>2. \A k \in X : ~(k < m)
  BY <1>1 DEF OpToRel
<1> QED  BY <1>2

\* The root of a heap in order is the best entry.
LEMMA RootBest ==
  ASSUME TypeOK, HeapOrdered, pc = "idle"
  PROVE  \A i \in DOMAIN entries : ~Better(entries[i], entries[1])
<1> DEFINE n == Len(entries)
<1> DEFINE X == {i \in 1..n : Better(entries[i], entries[1])}
<1>1. n \in Nat /\ DOMAIN entries = 1..n /\ \A i \in 1..n : entries[i] \in Numbered
  BY EntriesNumbered DEF TypeOK
<1>2. SUFFICES ASSUME X # {}
               PROVE  FALSE
  BY <1>1
<1>3. PICK m \in X : \A k \in X : m <= k
  <2>1. X \in SUBSET Nat
    BY <1>1
  <2> HIDE DEF X
  <2> QED  BY <1>2, <2>1, LeastNumber
<1>4. m # 1
  BY <1>1, BetterIrreflexive
<1>5. m \in 2..n /\ m \div 2 \in 1..n /\ m \div 2 < m
  BY <1>1, <1>4
<1>6. ~Better(entries[m], entries[m \div 2])
  BY <1>5 DEF HeapOrdered, Hole
<1>7. ~Better(entries[m \div 2], entries[1])
  BY <1>1, <1>3, <1>5
<1>8. ~Better(entries[m], entries[1])
  BY <1>1, <1>5, <1>6, <1>7, NotBetterTransitive DEF TypeOK
<1> QED  BY <1>3, <1>8

---------------------------------------------------------------------------
\* No entry is better than the one a pop has taken out.
TakenBest == pc = "down" => \A i \in DOMAIN entries : ~Better(entries[i], taken)

\* What every step preserves.
IInv == TypeOK /\ HeapOrdered /\ TakenBest

LEMMA InitIInv == QueueInit => IInv
<1> SUFFICES ASSUME QueueInit PROVE IInv
  OBVIOUS
<1>1. TypeOK
  BY PrioritiesAssumption DEF QueueInit, TypeOK
<1>2. HeapOrdered
  BY DEF QueueInit, HeapOrdered
<1>3. TakenBest
  BY DEF QueueInit, TakenBest
<1> QED  BY <1>1, <1>2, <1>3 DEF IInv

LEMMA PushIInv ==
  ASSUME IInv, NEW p \in Priorities, Push(p)
  PROVE  IInv'
<1> DEFINE e == [priority |-> p, seq |-> nextSeq]
<1> DEFINE n == Len(entries)
<1>1. e \in HeapEntries /\ entries \in Seq(HeapEntries) /\ n \in Nat
  BY PrioritiesAssumption DEF IInv, TypeOK, Push, HeapEntries
<1>2. entries' \in Seq(HeapEntries) /\ Len(entries') = n + 1 /\ entries'[n + 1] = e
      /\ \A i \in 1..n : entries'[i] = entries[i]
  <2> HIDE DEF e
  <2> QED  BY <1>1 DEF Push, e
<1>3. TypeOK'
  <2>0. taken' = NoEntry /\ NoEntry.seq = -1 /\ e.seq = nextSeq /\ nextSeq \in Nat /\ nextSeq' = nextSeq + 1
    BY DEF IInv, TypeOK, Push, NoEntry
  <2>1. \A i \in DOMAIN entries' : entries'[i].seq < nextSeq' /\ entries'[i].seq # taken'.seq
    <3>1. \A i \in 1..n : entries[i].seq \in Nat /\ entries[i].seq < nextSeq
      <4>1. \A i \in 1..n : entries[i] \in Numbered
        BY <1>1, EntriesNumbered
      <4> QED  BY <1>1, <4>1 DEF IInv, TypeOK, Numbered
    <3> HIDE DEF e
    <3> QED  BY <1>1, <1>2, <2>0, <3>1
  <2>2. \A i, j \in DOMAIN entries' : entries'[i].seq = entries'[j].seq => i = j
    BY <1>1, <1>2 DEF IInv, TypeOK, Push
  <2>3. nextSeq' \in 0..MaxPushes
    BY PrioritiesAssumption DEF IInv, TypeOK, Push
  <2> QED  BY <1>1, <1>2, <2>1, <2>2, <2>3 DEF IInv, TypeOK, Push
<1>4. HeapOrdered'
  BY <1>1, <1>2 DEF IInv, TypeOK, Push, HeapOrdered, Hole, Better
<1>5. TakenBest'
  BY DEF Push, TakenBest
<1> QED  BY <1>3, <1>4, <1>5 DEF IInv

\* A swap of two entries keeps the types and the entries.
LEMMA SwapKeeps ==
  ASSUME TypeOK, NEW a \in DOMAIN entries, NEW b \in DOMAIN entries, a # b, Swap(a, b)
  PROVE  /\ entries' \in Seq(HeapEntries) /\ Len(entries') = Len(entries)
         /\ entries'[a] = entries[b] /\ entries'[b] = entries[a]
         /\ \A i \in DOMAIN entries : i # a /\ i # b => entries'[i] = entries[i]
         /\ {entries'[i] : i \in DOMAIN entries'} = {entries[i] : i \in DOMAIN entries}
         /\ \A i, j \in DOMAIN entries' : entries'[i].seq = entries'[j].seq => i = j
<1>1. /\ entries' \in Seq(HeapEntries) /\ Len(entries') = Len(entries)
      /\ DOMAIN entries' = DOMAIN entries
      /\ entries'[a] = entries[b] /\ entries'[b] = entries[a]
      /\ \A i \in DOMAIN entries : i # a /\ i # b => entries'[i] = entries[i]
  BY DEF Swap, TypeOK
<1>2. {entries'[i] : i \in DOMAIN entries'} = {entries[i] : i \in DOMAIN entries}
  BY <1>1
<1>3. \A i, j \in DOMAIN entries' : entries'[i].seq = entries'[j].seq => i = j
  BY <1>1 DEF TypeOK
<1> QED  BY <1>1, <1>2, <1>3

LEMMA BubbleUpIInv ==
  ASSUME IInv, BubbleUp
  PROVE  IInv'
<1> DEFINE parent == idx \div 2
<1> DEFINE n == Len(entries)
<1>1. /\ n \in Nat /\ DOMAIN entries = 1..n /\ idx \in 1..n /\ pc = "up"
      /\ \A i \in 1..n : entries[i] \in Numbered
  BY EntriesNumbered DEF IInv, TypeOK, BubbleUp
<1>2. CASE idx > 1 /\ Better(entries[idx], entries[parent])
  <2>1. parent \in 1..n /\ parent < idx /\ Swap(idx, parent) /\ idx' = parent /\ pc' = "up"
        /\ UNCHANGED <<direction, nextSeq, taken, answer>>
    BY <1>1, <1>2 DEF BubbleUp
  <2>2. /\ entries' \in Seq(HeapEntries) /\ Len(entries') = n
        /\ entries'[idx] = entries[parent] /\ entries'[parent] = entries[idx]
        /\ \A i \in 1..n : i # idx /\ i # parent => entries'[i] = entries[i]
        /\ {entries'[i] : i \in DOMAIN entries'} = {entries[i] : i \in DOMAIN entries}
        /\ \A i, j \in DOMAIN entries' : entries'[i].seq = entries'[j].seq => i = j
    BY <1>1, <2>1, SwapKeeps DEF IInv
  <2>3. TypeOK'
    <3>1. \A i \in DOMAIN entries' : entries'[i].seq < nextSeq' /\ entries'[i].seq # taken'.seq
      BY <1>1, <2>1, <2>2 DEF IInv, TypeOK
    <3> QED  BY <1>1, <2>1, <2>2, <3>1 DEF IInv, TypeOK
  <2>4. HeapOrdered'
    <3> SUFFICES ASSUME NEW i \in 2..n
                 PROVE  /\ i # parent => ~Better(entries'[i], entries'[i \div 2])
                        /\ parent > 1 /\ i \div 2 = parent => ~Better(entries'[i], entries'[parent \div 2])
      BY <2>1, <2>2 DEF HeapOrdered, Hole, Better
    <3>1. i \in 1..n /\ i \div 2 \in 1..n /\ i \div 2 < i
      BY <1>1
    <3>2. /\ i # idx => ~Better(entries[i], entries[i \div 2])
          /\ i \div 2 = idx => ~Better(entries[i], entries[parent])
      BY <1>1, <1>2 DEF IInv, HeapOrdered, Hole
    <3>3. direction \in {"min", "max"}
      BY DEF IInv, TypeOK
    <3>4. ~Better(entries[parent], entries[idx])
      BY <1>1, <1>2, <2>1, <3>3, BetterAsymmetric
    <3>5. i # parent => ~Better(entries'[i], entries'[i \div 2])
      <4>1. CASE i = idx
        BY <2>1, <2>2, <3>4, <4>1
      <4>2. CASE i # idx /\ i # parent /\ i \div 2 = idx
        BY <2>1, <2>2, <3>1, <3>2, <4>2
      <4>3. CASE i # idx /\ i # parent /\ i \div 2 = parent
        <5>1. ~Better(entries[i], entries[parent])
          BY <3>2, <4>3
        <5>2. ~Better(entries[i], entries[idx])
          BY <1>1, <2>1, <3>1, <3>3, <3>4, <5>1, NotBetterTransitive
        <5> QED  BY <2>1, <2>2, <3>1, <4>3, <5>2
      <4>4. CASE i # idx /\ i # parent /\ i \div 2 # idx /\ i \div 2 # parent
        BY <2>1, <2>2, <3>1, <3>2, <4>4
      <4> QED  BY <4>1, <4>2, <4>3, <4>4
    <3>6. ASSUME parent > 1, i \div 2 = parent
          PROVE  ~Better(entries'[i], entries'[parent \div 2])
      <4>1. parent \div 2 \in 1..n /\ parent \div 2 < parent /\ parent \in 2..n
        BY <1>1, <2>1, <3>6
      <4>2. ~Better(entries[parent], entries[parent \div 2])
        BY <1>1, <2>1, <4>1 DEF IInv, HeapOrdered, Hole
      <4>3. CASE i = idx
        BY <2>1, <2>2, <4>1, <4>2, <4>3
      <4>4. CASE i # idx
        <5>1. ~Better(entries[i], entries[parent])
          BY <3>2, <3>6, <4>4
        <5>2. ~Better(entries[i], entries[parent \div 2])
          BY <1>1, <2>1, <3>1, <3>3, <4>1, <4>2, <5>1, NotBetterTransitive
        <5> QED  BY <2>1, <2>2, <3>1, <3>6, <4>1, <4>4, <5>2
      <4> QED  BY <4>3, <4>4
    <3> QED  BY <3>5, <3>6
  <2>5. TakenBest'
    BY <2>1 DEF TakenBest
  <2> QED  BY <2>3, <2>4, <2>5 DEF IInv
<1>3. CASE ~(idx > 1 /\ Better(entries[idx], entries[parent]))
  <2>1. pc' = "idle" /\ idx' = 0 /\ UNCHANGED <<direction, entries, nextSeq, taken, answer>>
    BY <1>3 DEF BubbleUp
  <2>2. TypeOK'
    BY <1>1, <2>1 DEF IInv, TypeOK
  <2>3. HeapOrdered'
    BY <1>1, <1>3, <2>1 DEF IInv, HeapOrdered, Hole, Better
  <2>4. TakenBest'
    BY <2>1 DEF TakenBest
  <2> QED  BY <2>2, <2>3, <2>4 DEF IInv
<1> QED  BY <1>2, <1>3

LEMMA PopIInv ==
  ASSUME IInv, Pop
  PROVE  IInv'
<1> DEFINE n == Len(entries)
<1>1. /\ n \in Nat /\ DOMAIN entries = 1..n /\ pc = "idle" /\ entries \in Seq(HeapEntries)
      /\ \A i \in 1..n : entries[i] \in HeapEntries /\ entries[i] \in Numbered
  BY EntriesNumbered DEF IInv, TypeOK, Pop
<1>2. CASE n <= 1
  <2>1. entries' = <<>> /\ answer' \in HeapEntries \cup {NoEntry} /\ UNCHANGED <<direction, nextSeq, pc, idx, taken>>
    BY <1>1, <1>2 DEF Pop
  <2>2. TypeOK'
    BY <1>1, <2>1 DEF IInv, TypeOK
  <2>3. HeapOrdered'
    BY <2>1 DEF HeapOrdered
  <2>4. TakenBest'
    BY <2>1 DEF TakenBest
  <2> QED  BY <2>2, <2>3, <2>4 DEF IInv
<1>3. CASE n > 1
  <2>1. /\ entries' = [i \in 1..(n - 1) |-> IF i = 1 THEN entries[n] ELSE entries[i]]
        /\ taken' = entries[1] /\ pc' = "down" /\ idx' = 1
        /\ UNCHANGED <<direction, nextSeq, answer>>
    BY <1>1, <1>3 DEF Pop
  <2>2. /\ entries' \in Seq(HeapEntries) /\ Len(entries') = n - 1 /\ DOMAIN entries' = 1..(n - 1)
        /\ entries'[1] = entries[n] /\ \A i \in 2..(n - 1) : entries'[i] = entries[i]
    BY <1>1, <1>3, <2>1
  <2>3. TypeOK'
    <3>1. \A i, j \in 1..n : entries[i].seq = entries[j].seq => i = j
      BY <1>1 DEF IInv, TypeOK
    <3>2. \A i, j \in DOMAIN entries' : entries'[i].seq = entries'[j].seq => i = j
      BY <1>1, <1>3, <2>2, <3>1
    <3>3. \A i \in DOMAIN entries' : entries'[i].seq < nextSeq' /\ entries'[i].seq # taken'.seq
      BY <1>1, <1>3, <2>1, <2>2, <3>1 DEF IInv, TypeOK
    <3>4. taken' # NoEntry
      BY <1>1, <1>3, <2>1 DEF Numbered, NoEntry
    <3> QED  BY <1>1, <1>3, <2>1, <2>2, <3>2, <3>3, <3>4 DEF IInv, TypeOK
  <2>4. HeapOrdered'
    <3>1. \A i \in 2..n : i \div 2 \in 1..n /\ ~Better(entries[i], entries[i \div 2])
      BY <1>1 DEF IInv, HeapOrdered, Hole
    <3>2. \A i \in 2..(n - 1) : i \div 2 # 1 => i \div 2 \in 2..(n - 1)
      BY <1>1
    <3>0. pc' = "down" /\ idx' = 1 /\ direction' = direction /\ Len(entries') = n - 1
      BY <2>1, <2>2
    <3> SUFFICES ASSUME NEW i \in 2..(n - 1), i \div 2 # 1
                 PROVE  ~Better(entries'[i], entries'[i \div 2])
      BY <3>0 DEF HeapOrdered, Hole, Better
    <3>3. i \in 2..n /\ entries'[i] = entries[i] /\ entries'[i \div 2] = entries[i \div 2]
      BY <1>1, <2>2, <3>2
    <3> QED  BY <3>1, <3>3
  <2>5. TakenBest'
    <3>1. \A i \in 1..n : ~Better(entries[i], entries[1])
      BY <1>1, RootBest DEF IInv
    <3>2. \A i \in 1..(n - 1) : entries'[i] = entries[IF i = 1 THEN n ELSE i]
      BY <1>1, <1>3, <2>1
    <3> QED  BY <1>1, <1>3, <2>1, <2>2, <3>1, <3>2 DEF TakenBest, Better
  <2> QED  BY <2>3, <2>4, <2>5 DEF IInv
<1> QED  BY <1>1, <1>2, <1>3

LEMMA BubbleDownIInv ==
  ASSUME IInv, BubbleDown
  PROVE  IInv'
<1> DEFINE n == Len(entries)
<1> DEFINE left == 2 * idx
<1> DEFINE best == IF left + 1 <= n /\ Better(entries[left + 1], entries[left]) THEN left + 1 ELSE left
<1>1. /\ n \in Nat /\ DOMAIN entries = 1..n /\ idx \in 1..n /\ pc = "down"
      /\ \A i \in 1..n : entries[i] \in Numbered
      /\ direction \in {"min", "max"}
  BY EntriesNumbered DEF IInv, TypeOK, BubbleDown
<1>2. CASE left <= n /\ Better(entries[best], entries[idx])
  <2>1. /\ best \in 2..n /\ best > idx /\ best \div 2 = idx
        /\ \A i \in 2..n : i \div 2 = idx /\ i # best =>
             ~Better(entries[i], entries[best])
    BY <1>1, <1>2, BetterAsymmetric, BetterIrreflexive
  <2>2. Swap(idx, best) /\ idx' = best /\ UNCHANGED <<direction, nextSeq, pc, taken, answer>>
    BY <1>2 DEF BubbleDown
  <2> HIDE DEF best
  <2>3. /\ entries' \in Seq(HeapEntries) /\ Len(entries') = n
        /\ entries'[idx] = entries[best] /\ entries'[best] = entries[idx]
        /\ \A i \in 1..n : i # idx /\ i # best => entries'[i] = entries[i]
        /\ {entries'[i] : i \in DOMAIN entries'} = {entries[i] : i \in DOMAIN entries}
        /\ \A i, j \in DOMAIN entries' : entries'[i].seq = entries'[j].seq => i = j
    <3>1. TypeOK /\ idx \in DOMAIN entries /\ best \in DOMAIN entries /\ idx # best
      BY <1>1, <2>1 DEF IInv
    <3>2. /\ entries' \in Seq(HeapEntries) /\ Len(entries') = Len(entries)
          /\ entries'[idx] = entries[best] /\ entries'[best] = entries[idx]
          /\ \A i \in DOMAIN entries : i # idx /\ i # best => entries'[i] = entries[i]
          /\ {entries'[i] : i \in DOMAIN entries'} = {entries[i] : i \in DOMAIN entries}
          /\ \A i, j \in DOMAIN entries' : entries'[i].seq = entries'[j].seq => i = j
      BY <2>2, <3>1, SwapKeeps, Zenon
    <3> QED  BY <1>1, <3>2, Zenon
  <2>4. TypeOK'
    <3>1. \A i \in DOMAIN entries' : entries'[i].seq < nextSeq' /\ entries'[i].seq # taken'.seq
      BY <1>1, <2>1, <2>2, <2>3 DEF IInv, TypeOK
    <3> QED  BY <1>1, <2>1, <2>2, <2>3, <3>1 DEF IInv, TypeOK
  <2>5. HeapOrdered'
    <3> SUFFICES ASSUME NEW i \in 2..n
                 PROVE  /\ i \div 2 # best => ~Better(entries'[i], entries'[i \div 2])
                        /\ i \div 2 = best => ~Better(entries'[i], entries'[idx])
      BY <1>1, <2>1, <2>2, <2>3 DEF HeapOrdered, Hole, Better
    <3>1. i \in 1..n /\ i \div 2 \in 1..n /\ i \div 2 < i
      BY <1>1
    <3>2. i \div 2 # idx => ~Better(entries[i], entries[i \div 2])
      BY <1>1 DEF IInv, HeapOrdered, Hole
    <3>3. ~Better(entries[idx], entries[best])
      BY <1>1, <1>2, <2>1, BetterAsymmetric
    <3>4. ASSUME i \div 2 # best
          PROVE  ~Better(entries'[i], entries'[i \div 2])
      <4>1. CASE i = best
        BY <1>1, <2>1, <2>3, <3>3, <4>1
      <4>2. CASE i # best /\ i \div 2 = idx
        BY <1>1, <2>1, <2>3, <3>1, <4>2
      <4>3. CASE i = idx
        <5>1. ~Better(entries[best], entries[idx \div 2])
          BY <1>1, <2>1, <4>3 DEF IInv, HeapOrdered
        <5> QED  BY <1>1, <2>1, <2>3, <3>1, <4>3, <5>1
      <4>4. CASE i # best /\ i # idx /\ i \div 2 # idx
        BY <1>1, <2>3, <3>1, <3>2, <3>4, <4>4
      <4> QED  BY <4>1, <4>2, <4>3, <4>4
    <3>5. ASSUME i \div 2 = best
          PROVE  ~Better(entries'[i], entries'[idx])
      BY <1>1, <2>1, <2>3, <3>1, <3>2, <3>5
    <3> QED  BY <3>4, <3>5
  <2>6. TakenBest'
    BY <1>1, <2>2, <2>3 DEF IInv, TakenBest, Better
  <2> QED  BY <2>4, <2>5, <2>6 DEF IInv
<1>3. CASE ~(left <= n /\ Better(entries[best], entries[idx]))
  <2>1. /\ pc' = "idle" /\ idx' = 0 /\ answer' = taken /\ taken' = NoEntry
        /\ UNCHANGED <<direction, entries, nextSeq>>
    BY <1>3 DEF BubbleDown
  <2>2. TypeOK'
    BY <1>1, <2>1 DEF IInv, TypeOK, NoEntry, Numbered
  <2>3. \A i \in 2..n : i \div 2 = idx => ~Better(entries[i], entries[idx])
    <3> SUFFICES ASSUME NEW i \in 2..n, i \div 2 = idx
                 PROVE  ~Better(entries[i], entries[idx])
      OBVIOUS
    <3>1. left <= n /\ (i = left \/ i = left + 1) /\ best \in 1..n /\ i \in 1..n
      BY <1>1
    <3>2. ~Better(entries[i], entries[best])
      BY <1>1, <3>1, BetterAsymmetric, BetterIrreflexive
    <3>3. ~Better(entries[best], entries[idx])
      BY <1>3, <3>1
    <3> HIDE DEF best, left
    <3> QED  BY <1>1, <3>1, <3>2, <3>3, NotBetterTransitive
  <2>4. HeapOrdered'
    BY <1>1, <2>1, <2>3 DEF IInv, HeapOrdered, Hole, Better
  <2>5. TakenBest'
    BY <2>1 DEF TakenBest
  <2> QED  BY <2>2, <2>4, <2>5 DEF IInv
<1> QED  BY <1>2, <1>3

\* Every step preserves the invariant.
LEMMA NextIInv == IInv /\ [QueueNext]_queueVars => IInv'
<1> SUFFICES ASSUME IInv, [QueueNext]_queueVars
             PROVE  IInv'
  OBVIOUS
<1>1. ASSUME NEW p \in Priorities, Push(p)
      PROVE  IInv'
  BY <1>1, PushIInv
<1>2. CASE BubbleUp
  BY <1>2, BubbleUpIInv
<1>3. CASE Pop
  BY <1>3, PopIInv
<1>4. CASE BubbleDown
  BY <1>4, BubbleDownIInv
<1>5. CASE Peek
  <2>1. answer' \in HeapEntries \cup {NoEntry} /\ UNCHANGED <<direction, entries, nextSeq, pc, idx, taken>>
    BY <1>5 DEF Peek, IInv, TypeOK
  <2>2. TypeOK'
    BY <2>1 DEF IInv, TypeOK
  <2>3. HeapOrdered' /\ TakenBest'
    BY <2>1 DEF IInv, HeapOrdered, Hole, TakenBest, Better
  <2> QED  BY <2>2, <2>3 DEF IInv
<1>6. CASE CompareFails
  <2>1. pc' = "failed" /\ UNCHANGED <<direction, entries, nextSeq, idx, taken, answer>>
    BY <1>6 DEF CompareFails
  <2>2. TypeOK'
    BY <2>1 DEF IInv, TypeOK
  <2> QED  BY <2>1, <2>2 DEF IInv, HeapOrdered, TakenBest
<1>7. CASE UNCHANGED queueVars
  <2>1. TypeOK'
    BY <1>7 DEF IInv, TypeOK, queueVars
  <2>2. HeapOrdered' /\ TakenBest'
    BY <1>7 DEF IInv, HeapOrdered, Hole, TakenBest, Better, queueVars
  <2> QED  BY <2>1, <2>2 DEF IInv
<1> QED  BY <1>1, <1>2, <1>3, <1>4, <1>5, <1>6, <1>7 DEF QueueNext

LEMMA Invariance == QueueSpec => []IInv
BY InitIInv, NextIInv, PTL DEF QueueSpec

\* The binary heap of a priority queue is always in heap order, except where
\* the entry that is bubbling stands.
THEOREM HeapStaysOrdered == QueueSpec => []HeapOrdered
<1>1. IInv => HeapOrdered
  BY DEF IInv
<1> QED  BY <1>1, Invariance, PTL

---------------------------------------------------------------------------
InQueue == {entries[i] : i \in DOMAIN entries} \cup ({taken} \ {NoEntry})

LEMMA InitRefines == QueueInit => Abstract!Init
BY DEF QueueInit, Abstract!Init, NoEntry, Abstract!NoEntry

\* Where no entry is better and all numbers differ, an entry is the first.
LEMMA BestIsFirst ==
  ASSUME IInv, NEW e \in InQueue, \A f \in InQueue : ~Better(f, e)
  PROVE  Abstract!First(e)
<1>1. \A f \in InQueue : f \in Numbered
  BY EntriesNumbered DEF IInv, TypeOK, InQueue
<1>2. \A f \in InQueue : f # e => f.seq # e.seq
  BY DEF IInv, TypeOK, InQueue
<1>3. \A f \in InQueue \ {e} : Better(e, f)
  BY <1>1, <1>2, BetterTotal DEF IInv, TypeOK
<1> QED  BY <1>3 DEF Abstract!First, Abstract!Precedes, Better, InQueue

\* Steps of a push or a pop that only move entries are not seen from outside.
LEMMA SameQueueStutters ==
  ASSUME {entries'[i] : i \in DOMAIN entries'} = {entries[i] : i \in DOMAIN entries},
         UNCHANGED <<direction, nextSeq, taken, answer>>
  PROVE  UNCHANGED <<direction, InQueue, nextSeq, answer>>
BY DEF InQueue, NoEntry

LEMMA PushRefines ==
  ASSUME IInv, NEW p \in Priorities, Push(p)
  PROVE  Abstract!Push(p)
<1> DEFINE e == [priority |-> p, seq |-> nextSeq]
<1> DEFINE n == Len(entries)
<1>1. entries \in Seq(HeapEntries) /\ n \in Nat /\ DOMAIN entries = 1..n /\ taken' = taken
  BY DEF IInv, TypeOK, Push
<1>2. entries' = Append(entries, e)
  BY DEF Push
<1> HIDE DEF e
<1>3. DOMAIN entries' = 1..(n + 1) /\ entries'[n + 1] = e /\ \A i \in 1..n : entries'[i] = entries[i]
  BY <1>1, <1>2
<1>4. {entries'[i] : i \in DOMAIN entries'} = {entries[i] : i \in DOMAIN entries} \cup {e}
  BY <1>1, <1>3
<1> QED  BY <1>1, <1>4 DEF Push, Abstract!Push, NoEntry, e

LEMMA PopRefines ==
  ASSUME IInv, Pop
  PROVE  Abstract!Pop \/ UNCHANGED <<direction, InQueue, nextSeq, answer>>
<1> DEFINE n == Len(entries)
<1>1. /\ n \in Nat /\ DOMAIN entries = 1..n /\ taken = NoEntry /\ pc = "idle" /\ entries \in Seq(HeapEntries)
      /\ InQueue = {entries[i] : i \in 1..n}
      /\ UNCHANGED <<direction, nextSeq>>
  BY DEF IInv, TypeOK, Pop, InQueue
<1>2. CASE n = 0
  <2>1. entries' = <<>> /\ answer' = NoEntry /\ taken' = taken /\ InQueue = {}
    BY <1>1, <1>2 DEF Pop
  <2>2. InQueue' = {}
    BY <1>1, <2>1 DEF InQueue
  <2> QED  BY <1>1, <2>1, <2>2 DEF Abstract!Pop, NoEntry, Abstract!NoEntry, InQueue
<1>3. CASE n = 1
  <2>1. entries' = <<>> /\ answer' = entries[1] /\ taken' = taken /\ InQueue = {entries[1]}
    BY <1>1, <1>3 DEF Pop
  <2>2. InQueue' = {}
    BY <1>1, <2>1 DEF InQueue
  <2>3. Abstract!First(entries[1])
    BY <2>1 DEF Abstract!First, InQueue
  <2> QED  BY <1>1, <2>1, <2>2, <2>3, SMTT(40) DEF Abstract!Pop, InQueue
<1>4. CASE n > 1
  <2>1. /\ entries' = [i \in 1..(n - 1) |-> IF i = 1 THEN entries[n] ELSE entries[i]]
        /\ taken' = entries[1] /\ UNCHANGED answer
    BY <1>1, <1>4 DEF Pop
  <2>2. DOMAIN entries' = 1..(n - 1) /\ entries'[1] = entries[n] /\ \A i \in 2..(n - 1) : entries'[i] = entries[i]
    BY <1>1, <1>4, <2>1
  <2>3. {entries'[i] : i \in 1..(n - 1)} = {entries[i] : i \in 2..n}
    <3>1. \A i \in 1..(n - 1) : \E j \in 2..n : entries'[i] = entries[j]
      BY <1>1, <1>4, <2>2
    <3>2. \A j \in 2..n : \E i \in 1..(n - 1) : entries'[i] = entries[j]
      BY <1>1, <1>4, <2>2
    <3>3. {entries'[i] : i \in 1..(n - 1)} \subseteq {entries[i] : i \in 2..n}
      BY <3>1
    <3>4. {entries[i] : i \in 2..n} \subseteq {entries'[i] : i \in 1..(n - 1)}
      BY <3>2
    <3> QED  BY <3>3, <3>4, Zenon
  <2>4. taken' # NoEntry
    BY <1>1, <1>4, <2>1, EntriesNumbered DEF Numbered, NoEntry
  <2>5. InQueue' = InQueue
    <3>1. InQueue' = {entries[i] : i \in 2..n} \cup {entries[1]}
      BY <2>1, <2>2, <2>3, <2>4 DEF InQueue, NoEntry
    <3> QED  BY <1>1, <1>4, <3>1
  <2> QED  BY <1>1, <2>1, <2>5
<1> QED  BY <1>1, <1>2, <1>3, <1>4

LEMMA BubbleDownRefines ==
  ASSUME IInv, BubbleDown
  PROVE  Abstract!Pop \/ UNCHANGED <<direction, InQueue, nextSeq, answer>>
<1> DEFINE n == Len(entries)
<1> DEFINE left == 2 * idx
<1> DEFINE best == IF left + 1 <= n /\ Better(entries[left + 1], entries[left]) THEN left + 1 ELSE left
<1>1. /\ n \in Nat /\ DOMAIN entries = 1..n /\ idx \in 1..n /\ pc = "down"
      /\ \A i \in 1..n : entries[i] \in Numbered
      /\ taken \in Numbered /\ taken # NoEntry
  BY EntriesNumbered DEF IInv, TypeOK, BubbleDown
<1>2. CASE left <= n /\ Better(entries[best], entries[idx])
  <2>1. best \in 1..n /\ best # idx
    BY <1>1, <1>2
  <2>2. Swap(idx, best) /\ UNCHANGED <<direction, nextSeq, taken, answer>>
    BY <1>2 DEF BubbleDown
  <2> HIDE DEF best
  <2>3. {entries'[i] : i \in DOMAIN entries'} = {entries[i] : i \in DOMAIN entries}
    BY <1>1, <2>1, <2>2, SwapKeeps DEF IInv
  <2> QED  BY <2>2, <2>3, SameQueueStutters
<1>3. CASE ~(left <= n /\ Better(entries[best], entries[idx]))
  <2>1. answer' = taken /\ taken' = NoEntry /\ UNCHANGED <<direction, entries, nextSeq>>
    BY <1>3 DEF BubbleDown
  <2>2. taken \in InQueue /\ \A f \in InQueue : ~Better(f, taken)
    BY <1>1, BetterIrreflexive DEF IInv, TakenBest, InQueue
  <2>3. Abstract!First(taken)
    BY <2>2, BestIsFirst
  <2>4. \A i \in 1..n : entries[i] # taken
    BY <1>1 DEF IInv, TypeOK
  <2>5. InQueue' = InQueue \ {taken}
    BY <1>1, <2>1, <2>4 DEF InQueue, NoEntry
  <2> QED  BY <2>1, <2>2, <2>3, <2>5 DEF Abstract!Pop, InQueue
<1> QED  BY <1>2, <1>3

LEMMA PeekRefines ==
  ASSUME IInv, Peek
  PROVE  Abstract!Peek
<1>1. InQueue = {entries[i] : i \in DOMAIN entries} /\ DOMAIN entries = 1..Len(entries) /\ Len(entries) \in Nat
      /\ InQueue' = InQueue
  BY DEF IInv, TypeOK, Peek, InQueue, NoEntry
<1>2. CASE entries = <<>>
  BY <1>1, <1>2 DEF Peek, Abstract!Peek, InQueue, NoEntry, Abstract!NoEntry
<1>3. CASE entries # <<>>
  <2>1. 1 \in DOMAIN entries /\ answer' = entries[1]
    BY <1>1, <1>3 DEF Peek, IInv, TypeOK
  <2>2. \A i \in DOMAIN entries : ~Better(entries[i], entries[1])
    BY RootBest DEF IInv, Peek
  <2>3. Abstract!First(entries[1])
    BY <1>1, <2>1, <2>2, BestIsFirst
  <2> QED  BY <1>1, <2>1, <2>3 DEF Peek, Abstract!Peek, InQueue
<1> QED  BY <1>2, <1>3

LEMMA StepRefines ==
  IInv /\ [QueueNext]_queueVars => [Abstract!Next]_<<direction, InQueue, nextSeq, answer>>
<1> SUFFICES ASSUME IInv, [QueueNext]_queueVars
             PROVE  Abstract!Next \/ UNCHANGED <<direction, InQueue, nextSeq, answer>>
  OBVIOUS
<1>1. ASSUME NEW p \in Priorities, Push(p)
      PROVE  Abstract!Next
  BY <1>1, PushRefines DEF Abstract!Next
<1>2. CASE BubbleUp
  <2> DEFINE parent == idx \div 2
  <2>1. CASE idx > 1 /\ Better(entries[idx], entries[parent])
    <3>1. /\ idx \in DOMAIN entries /\ parent \in DOMAIN entries /\ idx # parent /\ Swap(idx, parent)
          /\ UNCHANGED <<direction, nextSeq, taken, answer>>
      BY <1>2, <2>1 DEF BubbleUp, IInv, TypeOK
    <3>2. {entries'[i] : i \in DOMAIN entries'} = {entries[i] : i \in DOMAIN entries}
      BY <3>1, SwapKeeps DEF IInv
    <3> QED  BY <3>1, <3>2, SameQueueStutters
  <2>2. CASE ~(idx > 1 /\ Better(entries[idx], entries[parent]))
    BY <1>2, <2>2, SameQueueStutters DEF BubbleUp
  <2> QED  BY <2>1, <2>2
<1>3. CASE Pop
  BY <1>3, PopRefines DEF Abstract!Next
<1>4. CASE BubbleDown
  BY <1>4, BubbleDownRefines DEF Abstract!Next
<1>5. CASE Peek
  BY <1>5, PeekRefines DEF Abstract!Next
<1>6. CASE CompareFails
  BY <1>6, SameQueueStutters DEF CompareFails
<1>7. CASE UNCHANGED queueVars
  BY <1>7, SameQueueStutters DEF queueVars
<1> QED  BY <1>1, <1>2, <1>3, <1>4, <1>5, <1>6, <1>7 DEF QueueNext

\* The heap implements the stable queue, for every set of priorities and
\* every sequence of pushes, pops and peeks: RFC 0012's "Equal priorities are
\* resolved by insertion order" and the order of new_min and new_max.
THEOREM HeapIsStableQueue == QueueSpec => RefinesStableQueue
BY InitRefines, StepRefines, Invariance, PTL DEF QueueSpec, RefinesStableQueue, Abstract!Spec, InQueue
=============================================================================
