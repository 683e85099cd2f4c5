------------------------------ MODULE Outcomes ------------------------------
(***************************************************************************)
(* How an operation of a program ends: with a value, or not: a             *)
(* RuntimeError of the interpreter, a trap of the compiled program.  What  *)
(* a routine of the compiled program leaves: the memory, a sequence of     *)
(* cells that only grows, and its result (out).  And what several parts of *)
(* the library use: words of bits, the functions the programs pass, and    *)
(* the operators of Int.                                                   *)
(***************************************************************************)
EXTENDS Integers, Sequences

Ok(value) == << value >>
Fails == << >>
Succeeds(outcome) == outcome # Fails
Value(outcome) == outcome[1]

(* Option values. *)
Some(value) == << value >>
None == << >>

Answer(memory, out) == [memory |-> memory, out |-> out]
Alloc(memory, cell) == Answer(Append(memory, cell), Len(memory) + 1)

(***************************************************************************)
(* Bits packed in words: bit i is bit BitOf(i) of word WordOf(i).          *)
(***************************************************************************)

CONSTANT WordBits     \* the bits of a word (64)

ASSUME WordBitsAssumption == WordBits \in Nat \ {0}

WordOf(i) == (i \div WordBits) + 1
BitOf(i) == (i % WordBits) + 1
WordsFor(bits) == (bits + WordBits - 1) \div WordBits

(***************************************************************************)
(* The items of a traversal and the functions of the program that a        *)
(* traversal calls.                                                        *)
(*                                                                         *)
(* The type of an item is << "int" >>, << "char" >>, << "float" >>,        *)
(* << "text" >>, << "list", type >> or << "pair", left, right >>.          *)
(***************************************************************************)

Whole == << "int" >>
Char == << "char" >>
Real == << "float" >>
Text == << "text" >>
ListOf(type) == << "list", type >>
PairOf(left, right) == << "pair", left, right >>

(***************************************************************************)
(* The program's functions.  They look at a number made of the item.       *)
(***************************************************************************)
Weight(type, x) == IF type[1] \in {"text", "list"} THEN Len(x) ELSE x
Likes(type, x) == Weight(type, x) % 2 = 1            \* a predicate
MapTo(type, x) == Weight(type, x) + 1                \* a mapper
Spread(type, x) ==                                   \* a mapper to a List
  IF Likes(type, x) THEN << Weight(type, x), Weight(type, x) + 10 >> ELSE << >>
Accumulate(type, acc, x) == 2 * acc + Weight(type, x)  \* a folder
StepLimit == 2
StepValue(state) == 2 * state + 1                    \* unfold: up to StepLimit

Call(fn, arg) == [event |-> "call", fn |-> fn, arg |-> arg]
Emit(item) == [event |-> "emit", item |-> item]
Calls(events) == SelectSeq(events, LAMBDA e : e.event = "call")
EmittedItems(events) ==
  LET emits == SelectSeq(events, LAMBDA e : e.event = "emit")
  IN  [i \in DOMAIN emits |-> emits[i].item]

(***************************************************************************)
(* The operators of Int.  An Int has IntBits bits (64 in the code).        *)
(*                                                                         *)
(* First what the interpreter computes (crates/eval/src/interpreter.rs):   *)
(* checked_add and the like, an error when the result is out of range.     *)
(***************************************************************************)

CONSTANT IntBits
ASSUME IntBitsAssumption == IntBits \in Nat \ {0, 1}
(* What the proofs use of powers: a fact of arithmetic for every IntBits.   *)
ASSUME PowersAssumption ==
  2 ^ (IntBits - 1) \in Nat \ {0} /\ 2 ^ IntBits = 2 * 2 ^ (IntBits - 1)

IntMin == -(2 ^ (IntBits - 1))
IntMax == 2 ^ (IntBits - 1) - 1
IntRange == IntMin .. IntMax
Magnitude(n) == IF n < 0 THEN -n ELSE n
Sign(n) == IF n < 0 THEN -1 ELSE IF n > 0 THEN 1 ELSE 0

(* The bits of n as a signed and as an unsigned number; division towards 0. *)
Wrapped(n) == ((n - IntMin) % (2 ^ IntBits)) + IntMin
AsUnsigned(n) == n % (2 ^ IntBits)
Quotient(a, b) == Sign(a) * Sign(b) * (Magnitude(a) \div Magnitude(b))
Remainder(a, b) == a - Quotient(a, b) * b

Representable(n) == IF n \in IntRange THEN Ok(n) ELSE Fails

EvalBinaryInt(op, a, b) ==
  CASE op = "Add" -> Representable(a + b)
    [] op = "Sub" -> Representable(a - b)
    [] op = "Mul" -> Representable(a * b)
    [] op = "Div" -> IF b = 0 THEN Fails ELSE Representable(Quotient(a, b))
    [] op = "Mod" -> IF b = 0 \/ (a = IntMin /\ b = -1) THEN Fails ELSE Ok(Remainder(a, b))
    [] op = "Shl" -> IF b \in 0 .. IntBits - 1 THEN Ok(Wrapped(a * 2 ^ b)) ELSE Fails
    [] op = "Shr" -> IF b \in 0 .. IntBits - 1 THEN Ok(a \div 2 ^ b) ELSE Fails
EvalUnaryInt(op, n) ==
  CASE op = "Neg" -> Representable(-n)
    [] op = "BitNot" -> Ok(-n - 1)

IntAbs(n) == Representable(Magnitude(n))

(***************************************************************************)
(* And the instructions of the compiled program                            *)
(* (crates/codegen/src/wasm/func.rs).  Wasm's own operators wrap around;   *)
(* div_s and rem_s trap on a divisor 0, and div_s on the quotient 2^63.    *)
(***************************************************************************)

Trap == Fails
TrapIf(condition, value) == IF condition THEN Trap ELSE Ok(value)
DivS(a, b) == IF b = 0 THEN Trap ELSE Representable(Quotient(a, b))
RemS(a, b) == IF b = 0 THEN Trap ELSE Ok(Remainder(a, b))
(* (x ^ y) < 0 *)
SignsDiffer(x, y) == (x < 0) # (y < 0)

CheckedIntAdd(lhs, rhs) ==
  LET result == Wrapped(lhs + rhs)
  IN  TrapIf(SignsDiffer(lhs, result) /\ SignsDiffer(rhs, result), result)
CheckedIntSub(lhs, rhs) ==
  LET result == Wrapped(lhs - rhs)
  IN  TrapIf(SignsDiffer(lhs, rhs) /\ SignsDiffer(lhs, result), result)
CheckedIntMul(lhs, rhs) ==
  LET result == Wrapped(lhs * rhs)
  IN  IF lhs = 0 THEN Ok(result)
      ELSE TrapIf(DivS(result, lhs) # Ok(rhs), result)
CheckedIntMod(lhs, rhs) == IF lhs = IntMin /\ rhs = -1 THEN Trap ELSE RemS(lhs, rhs)
(* shl and shr_s take the amount modulo the width. *)
CheckedIntShift(lhs, rhs, op) ==
  TrapIf(rhs < 0 \/ rhs >= IntBits,
         IF op = "Shl" THEN Wrapped(lhs * 2 ^ (rhs % IntBits)) ELSE lhs \div 2 ^ (rhs % IntBits))
EmitBinary(op, lhs, rhs) ==
  CASE op = "Add" -> CheckedIntAdd(lhs, rhs)
    [] op = "Sub" -> CheckedIntSub(lhs, rhs)
    [] op = "Mul" -> CheckedIntMul(lhs, rhs)
    [] op = "Mod" -> CheckedIntMod(lhs, rhs)
    [] op \in {"Shl", "Shr"} -> CheckedIntShift(lhs, rhs, op)
    [] op = "Div" -> DivS(lhs, rhs)
EmitUnary(op, n) ==
  CASE op = "Neg" -> TrapIf(n = IntMin, Wrapped(0 - n))
    [] op = "BitNot" -> Ok(-n - 1)

WasmAbs(n) == TrapIf(n = IntMin, IF n < 0 THEN Wrapped(0 - n) ELSE n)
=============================================================================
