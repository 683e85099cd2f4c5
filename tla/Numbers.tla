------------------------------- MODULE Numbers ------------------------------
(***************************************************************************)
(* Programs on Int, Float and Char: on every pair of IntRange, so that each*)
(* overflow is met.  Once compiled, a finite Float modulo an infinite one  *)
(* is NaN (func.rs:5506).                                                  *)
(***************************************************************************)
EXTENDS Backends

(***************************************************************************)
(* What the interpreter computes on Int, Float and Char                    *)
(* (crates/eval/src/interpreter.rs, intrinsics.rs).  A Float is            *)
(* << kind, n >>: the finite number n, an infinity of the sign n, or NaN;  *)
(* rounding and the sign of zero are left out.                             *)
(***************************************************************************)

RECURSIVE PowFrom(_, _, _)
PowStep(result, factor, power) ==
  IF result = Fails \/ factor = Fails THEN Fails ELSE PowFrom(result[1], factor[1], power)
PowFrom(result, factor, power) ==
  IF power = 0 THEN Ok(result)
  ELSE PowStep(IF power % 2 = 1 THEN Representable(result * factor) ELSE Ok(result),
               IF power \div 2 > 0 THEN Representable(factor * factor) ELSE Ok(factor), power \div 2)
IntPow(base, exp) == IF exp < 0 THEN Fails ELSE PowFrom(1, base, exp)

IntMinOf(a, b) == IF a <= b THEN a ELSE b
IntMaxOf(a, b) == IF a >= b THEN a ELSE b
RECURSIVE GcdU64(_, _)
GcdU64(a, b) == IF b = 0 THEN a ELSE GcdU64(b, a % b)
IntGcd(a, b) == Representable(GcdU64(Magnitude(a), Magnitude(b)))
IntLcm(a, b) ==
  IF a = 0 \/ b = 0 THEN Ok(0)
  ELSE Representable((Magnitude(a) \div GcdU64(Magnitude(a), Magnitude(b))) * Magnitude(b))

RECURSIVE DecimalDigits(_)
DecimalDigits(n) == (IF n < 10 THEN << >> ELSE DecimalDigits(n \div 10)) \o << 48 + (n % 10) >>
IntText(n) == (IF n < 0 THEN << 45 >> ELSE << >>) \o DecimalDigits(Magnitude(n))

(* str::parse::<i64>: an optional sign and digits, in range. *)
IsDigit(c) == c \in 48 .. 57
RECURSIVE DigitsValue(_)
DigitsValue(s) ==
  IF s = << >> THEN 0 ELSE 10 * DigitsValue(SubSeq(s, 1, Len(s) - 1)) + (s[Len(s)] - 48)
ParsedDigits(sign, s) ==
  IF s # << >> /\ (\A i \in 1 .. Len(s) : IsDigit(s[i])) /\ sign * DigitsValue(s) \in IntRange
  THEN Some(sign * DigitsValue(s)) ELSE None
ParsedInt(s) ==
  CASE s # << >> /\ s[1] = 45 -> ParsedDigits(-1, Tail(s))
    [] s # << >> /\ s[1] = 43 -> ParsedDigits(1, Tail(s))
    [] OTHER -> ParsedDigits(1, s)

CharDigitValue(c, radix) ==
  LET digit == CASE IsDigit(c) -> c - 48
                 [] c \in 97 .. 122 -> c - 97 + 10
                 [] c \in 65 .. 90 -> c - 65 + 10
                 [] OTHER -> 37
  IN  IF radix \notin 2 .. 36 THEN Fails ELSE Ok(IF digit < radix THEN Some(digit) ELSE None)
CharIsDecimalDigit(c) == CharDigitValue(c, 10) # Ok(None)

Fin(n) == << "fin", n >>
Inf(sign) == << "inf", sign >>
NaN == << "nan", 0 >>
IsNaN(x) == x = NaN
IsInfinite(x) == x[1] = "inf"
IsFinite(x) == x[1] = "fin"

(* f64::min and max: the other one if one is NaN.  And x < y. *)
FloatLess(x, y) ==
  CASE IsNaN(x) \/ IsNaN(y) -> FALSE
    [] IsFinite(x) /\ IsFinite(y) -> x[2] < y[2]
    [] OTHER -> (IF IsInfinite(x) THEN x[2] ELSE 0) < (IF IsInfinite(y) THEN y[2] ELSE 0)
FloatMin(x, y) == IF IsNaN(x) THEN y ELSE IF IsNaN(y) \/ FloatLess(x, y) THEN x ELSE y
FloatMax(x, y) == IF IsNaN(x) THEN y ELSE IF IsNaN(y) \/ FloatLess(y, x) THEN x ELSE y

(* %: an infinite divisor leaves a finite number as it is. *)
FloatRem(x, y) ==
  CASE ~IsFinite(x) \/ IsNaN(y) \/ y = Fin(0) -> NaN
    [] IsInfinite(y) /\ IsFinite(x) -> x
    [] OTHER -> Fin(Remainder(x[2], y[2]))

(***************************************************************************)
(* The instructions that compute on Int, Float and Char                    *)
(* (crates/codegen/src/wasm/func.rs).                                      *)
(***************************************************************************)

WasmMinMax(lhs, rhs, pickMin) ==
  IF (IF pickMin THEN lhs <= rhs ELSE lhs >= rhs) THEN lhs ELSE rhs

UnsignedAbs(n) == IF n < 0 THEN Wrapped(0 - n) ELSE n
(* The locals a, b and tmp when the loop is done. *)
RECURSIVE UnsignedGcdLoop(_, _, _)
UnsignedGcdLoop(a, b, tmp) ==
  IF b = 0 THEN [a |-> a, tmp |-> tmp]
  ELSE UnsignedGcdLoop(b, Wrapped(AsUnsigned(a) % AsUnsigned(b)), b)
WasmGcd(lhs, rhs) ==
  LET a == UnsignedGcdLoop(UnsignedAbs(lhs), UnsignedAbs(rhs), 0).a IN TrapIf(a < 0, a)
WasmLcm(lhs, rhs) ==
  IF lhs = 0 \/ rhs = 0 THEN Ok(0)
  ELSE LET gcd == UnsignedGcdLoop(UnsignedAbs(lhs), UnsignedAbs(rhs), 0).tmp
           part == AsUnsigned(UnsignedAbs(lhs)) \div AsUnsigned(gcd)
           other == AsUnsigned(UnsignedAbs(rhs))
       IN  TrapIf(IntMax \div other < part, Wrapped(part * other))

RECURSIVE WasmPowLoop(_, _, _)
WasmPowStep(result, factor, power) ==
  IF result = Trap \/ factor = Trap THEN Trap ELSE WasmPowLoop(result[1], factor[1], power)
\* Mutant: the factor is squared after the last bit too.
WasmPowLoopSquares(result, factor, power) ==
  IF power = 0 THEN Ok(result)
  ELSE WasmPowStep(IF power % 2 = 1 THEN CheckedIntMul(result, factor) ELSE Ok(result),
                   CheckedIntMul(factor, factor), power \div 2)

WasmPowLoop(result, factor, power) ==
  IF power = 0 THEN Ok(result)
  ELSE WasmPowStep(IF power % 2 = 1 THEN CheckedIntMul(result, factor) ELSE Ok(result),
                   IF power \div 2 = 0 THEN Ok(factor) ELSE CheckedIntMul(factor, factor), power \div 2)
WasmPow(base, exp) == IF exp < 0 THEN Trap ELSE WasmPowLoop(1, base, exp)

(* The digits from the last one, each made positive; then the sign. *)
RECURSIVE StoreDigits(_)
StoreDigits(n) ==
  (IF Quotient(n, 10) = 0 THEN << >> ELSE StoreDigits(Quotient(n, 10)))
    \o << 48 + Magnitude(Remainder(n, 10)) >>
IntToString(n) == (IF n < 0 THEN << 45 >> ELSE << >>) \o StoreDigits(n)

AsciiRangeCheck(c, first, last) == c >= first /\ c <= last
WasmCharDigitValue(c) ==
  CASE AsciiRangeCheck(c, 48, 57) -> c - 48
    [] AsciiRangeCheck(c, 97, 122) -> c - 97 + 10
    [] AsciiRangeCheck(c, 65, 90) -> c - 65 + 10
    [] OTHER -> -1
OptionIntFromLocals(hasValue, value) == IF hasValue THEN Some(value) ELSE None
CharToDigitOption(c, radix) ==
  LET value == WasmCharDigitValue(c)
  IN  TrapIf(radix < 2 \/ radix > 36, OptionIntFromLocals(value >= 0 /\ value < radix, value))

(* IEEE arithmetic, and what is computed with it. *)
FDiv(x, y) ==
  CASE IsNaN(x) \/ IsNaN(y) -> NaN
    [] IsInfinite(x) -> IF IsInfinite(y) THEN NaN ELSE Inf(x[2] * (IF y[2] < 0 THEN -1 ELSE 1))
    [] IsInfinite(y) /\ IsFinite(x) -> Fin(0)
    [] OTHER -> IF y[2] # 0 THEN Fin(Quotient(x[2], y[2])) ELSE IF x[2] = 0 THEN NaN ELSE Inf(Sign(x[2]))
FMul(x, y) ==
  CASE IsNaN(x) \/ IsNaN(y) -> NaN
    [] IsFinite(x) /\ IsFinite(y) -> Fin(x[2] * y[2])
    [] OTHER -> IF x[2] = 0 \/ y[2] = 0 THEN NaN ELSE Inf(Sign(x[2]) * Sign(y[2]))
FSub(x, y) ==
  CASE IsNaN(x) \/ IsNaN(y) \/ (IsInfinite(x) /\ x = y) -> NaN
    [] IsFinite(x) /\ IsFinite(y) -> Fin(x[2] - y[2])
    [] OTHER -> IF IsInfinite(x) THEN x ELSE Inf(-y[2])
(* lhs - trunc(lhs / rhs) * rhs; FDiv already truncates. *)
EmitFloatMod(lhs, rhs) == FSub(lhs, FMul(FDiv(lhs, rhs), rhs))
EmitFloatIsNaN(x) == IsNaN(x)
EmitFloatMinMax(lhs, rhs, pickMin) ==
  CASE IsNaN(lhs) -> rhs
    [] ~IsNaN(lhs) /\ IsNaN(rhs) -> lhs
    [] OTHER -> IF (IF pickMin THEN FloatLess(lhs, rhs) ELSE FloatLess(rhs, lhs)) THEN lhs ELSE rhs
AbsOf(x) == IF IsNaN(x) THEN NaN ELSE << x[1], Magnitude(x[2]) >>
EmitFloatIsInfinite(x) == AbsOf(x) = Inf(1)
EmitFloatIsFinite(x) == ~IsNaN(x) /\ AbsOf(x) # Inf(1)

(***************************************************************************)
(* The programs                                                            *)
(***************************************************************************)
CONSTANTS Floats, DigitChars, Radixes

Operands == {1, 2}
NumbersStart(operands) ==
  /\ refs = operands
  /\ objects = << >>
  /\ memory = << >>
  /\ pointers = operands
NumbersInit ==
  \/ Starting("ints") /\ \E a, b \in IntRange : NumbersStart(<< a, b >>)
  \/ Starting("floats") /\ \E x, y \in Floats : NumbersStart(<< x, y >>)
  \/ Starting("chars") /\ \E c \in DigitChars, r \in Radixes : NumbersStart(<< c, r >>)

AskNumber(query, known, expected, given) == Ask(query, known, expected, {given}, memory)

(* An operation whose result is the first operand of the next one. *)
Calculate(query, expected, given) ==
  IF expected = given /\ Succeeds(given) THEN Store(1, expected[1], Answer(memory, given[1]))
  ELSE AskNumber(query, FALSE, expected, given)

Binary(op) ==
  Calculate(op, EvalBinaryInt(op, refs[1], refs[2]), EmitBinary(op, pointers[1], pointers[2]))
Unary(op) == Calculate(op, EvalUnaryInt(op, refs[1]), EmitUnary(op, pointers[1]))
AbsNumber == Calculate("abs", IntAbs(refs[1]), WasmAbs(pointers[1]))
MinMaxNumber ==
  AskNumber("min max", FALSE, Ok(<< IntMinOf(refs[1], refs[2]), IntMaxOf(refs[1], refs[2]) >>),
            Ok([i \in 1 .. 2 |-> WasmMinMax(pointers[1], pointers[2], i = 1)]))
PowNumber == Calculate("pow", IntPow(refs[1], refs[2]), WasmPow(pointers[1], pointers[2]))
GcdNumber == Calculate("gcd", IntGcd(refs[1], refs[2]), WasmGcd(pointers[1], pointers[2]))
LcmNumber == Calculate("lcm", IntLcm(refs[1], refs[2]), WasmLcm(pointers[1], pointers[2]))
ShowNumber == AskNumber("to_string", FALSE, Ok(IntText(refs[1])), Ok(IntToString(pointers[1])))

ModFloats ==
  AskNumber("float %", IsFinite(refs[1]) /\ IsInfinite(refs[2]), Ok(FloatRem(refs[1], refs[2])),
            Ok(EmitFloatMod(pointers[1], pointers[2])))
MinMaxFloats ==
  AskNumber("float min max", FALSE, Ok(<< FloatMin(refs[1], refs[2]), FloatMax(refs[1], refs[2]) >>),
            Ok([i \in 1 .. 2 |-> EmitFloatMinMax(pointers[1], pointers[2], i = 1)]))
ClassifyFloat ==
  AskNumber("float is", FALSE, Ok(<< IsNaN(refs[1]), IsInfinite(refs[1]), IsFinite(refs[1]) >>),
            Ok(<< EmitFloatIsNaN(pointers[1]), EmitFloatIsInfinite(pointers[1]), EmitFloatIsFinite(pointers[1]) >>))

DigitOfChar ==
  AskNumber("to_digit", FALSE, CharDigitValue(refs[1], refs[2]), CharToDigitOption(pointers[1], pointers[2]))
DecimalChar ==
  AskNumber("is_decimal_digit", FALSE, Ok(CharIsDecimalDigit(refs[1])),
            Ok(AsciiRangeCheck(pointers[1], 48, 57)))

NumbersNext ==
  \/ /\ surface = "ints"
     /\ \/ \E op \in {"Add", "Sub", "Mul", "Div", "Mod", "Shl", "Shr"} : Binary(op)
        \/ \E op \in {"Neg", "BitNot"} : Unary(op)
        \/ AbsNumber
        \/ MinMaxNumber
        \/ PowNumber
        \/ GcdNumber
        \/ LcmNumber
        \/ ShowNumber
  \/ /\ surface = "floats"
     /\ ModFloats \/ MinMaxFloats \/ ClassifyFloat
  \/ /\ surface = "chars"
     /\ DigitOfChar \/ DecimalChar
=============================================================================
