------------------------------- MODULE Choices ------------------------------
(***************************************************************************)
(* Programs with a choice (an Option or a Result), a number and a closure, *)
(* each changed by what the others are: a closure may capture another one, *)
(* and the call of the one calls the other.                                *)
(***************************************************************************)
EXTENDS Backends

(***************************************************************************)
(* What the interpreter does with Option, Result and closures              *)
(* (crates/eval/src/interpreter.rs).  An Option or a Result is a variant   *)
(* with one payload or none.  A closure is a function of the program with  *)
(* the values it captured; the functions of the programs here are          *)
(*   "plus"   captures n         x -> x + n                                *)
(*   "after"  captures g and n   x -> g(x) + n                             *)
(*   "unless" captures n         x -> x as a choice, or the other for n    *)
(***************************************************************************)

VariantOf(tag, payload) == [tag |-> tag, payload |-> payload]
MakeSome(x) == VariantOf("Some", << x >>)
MakeNone == VariantOf("None", << >>)
MakeOk(x) == VariantOf("Ok", << x >>)
MakeErr(x) == VariantOf("Err", << x >>)
Closure(slot, captures) == [slot |-> slot, captures |-> captures]

RECURSIVE CallNumber(_, _)
CallNumber(f, x) ==
  CASE f.slot = "plus" -> x + f.captures[1]
    [] f.slot = "after" -> CallNumber(f.captures[1], x) + f.captures[2]
CallChoice(f, x, kind) ==
  IF x # f.captures[1] THEN (IF kind = "options" THEN MakeSome(x) ELSE MakeOk(x))
  ELSE IF kind = "options" THEN MakeNone ELSE MakeErr(x)

OptionUnwrapOr(o, fallback) == IF o.tag = "Some" THEN o.payload[1] ELSE fallback
OptionMapOr(o, fallback, f) == IF o.tag = "Some" THEN CallNumber(f, o.payload[1]) ELSE fallback
OptionMap(o, f) == IF o.tag = "Some" THEN MakeSome(CallNumber(f, o.payload[1])) ELSE MakeNone
OptionAndThen(o, f) == IF o.tag = "Some" THEN CallChoice(f, o.payload[1], "options") ELSE MakeNone
ResultUnwrapOr(r, fallback) == IF r.tag = "Ok" THEN r.payload[1] ELSE fallback
ResultMapOr(r, fallback, f) == IF r.tag = "Ok" THEN CallNumber(f, r.payload[1]) ELSE fallback
ResultMap(r, f) == IF r.tag = "Ok" THEN MakeOk(CallNumber(f, r.payload[1])) ELSE r
ResultAndThen(r, f) == IF r.tag = "Ok" THEN CallChoice(f, r.payload[1], "results") ELSE r
ResultMapErr(r, f) == IF r.tag = "Ok" THEN r ELSE MakeErr(CallNumber(f, r.payload[1]))

(***************************************************************************)
(* Option, Result and closures once compiled                               *)
(* (crates/codegen/src/wasm/func.rs, wasm.rs).  A closure is a cell with   *)
(* the slot of its function and its captures.  A call puts the cell's      *)
(* address in a global (memory[GlobalCell]), and a wrapper of the function *)
(* loads the captures through the global before the function runs.         *)
(***************************************************************************)

GlobalCell == 1
SomeTag == 0
NoneTag == 1
OkTag == 0
ErrTag == 1

SingleFieldAdt(mem, tag, payload) == Alloc(mem, [tag |-> tag, field |-> payload])
(* The field of None is whatever is in the memory. *)
OptionNone(mem) == Alloc(mem, [tag |-> NoneTag, field |-> 0])
ClosureCreate(mem, slot, captures) == Alloc(mem, [slot |-> slot, captures |-> captures])

(* The wrapper's loads of the captures, through the global. *)
Loaded(mem) == mem[mem[GlobalCell]].captures

RECURSIVE IndirectCall(_, _, _)
(* The body of each function, with its captures already on the stack. *)
Plus(given, n) == Answer(given.memory, given.out + n)
\* Mutant: a capture is loaded after the call that the body makes.
RunBodyReloads(mem, slot, captures, arg, kind) ==
  CASE slot = "plus" -> Plus(Answer(mem, arg), captures[1])
    [] slot = "after" ->
         LET called == IndirectCall(mem, captures[1], arg)
         IN  Plus(called, Loaded(called.memory)[Len(Loaded(called.memory))])
    [] slot = "unless" ->
         IF arg # captures[1] THEN SingleFieldAdt(mem, SomeTag, arg)
         ELSE IF kind = "options" THEN OptionNone(mem) ELSE SingleFieldAdt(mem, ErrTag, arg)

RunBody(mem, slot, captures, arg, kind) ==
  CASE slot = "plus" -> Plus(Answer(mem, arg), captures[1])
    [] slot = "after" -> Plus(IndirectCall(mem, captures[1], arg), captures[2])
    [] slot = "unless" ->
         IF arg # captures[1] THEN SingleFieldAdt(mem, SomeTag, arg)
         ELSE IF kind = "options" THEN OptionNone(mem) ELSE SingleFieldAdt(mem, ErrTag, arg)
EnterWrapper(mem, callee, arg, kind) ==
  RunBody(mem, mem[callee].slot, Loaded(mem), arg, kind)
IndirectCall(mem, callee, arg) ==
  EnterWrapper([mem EXCEPT ![GlobalCell] = callee], callee, arg, "number")
IndirectChoiceCall(mem, callee, arg, kind) ==
  EnterWrapper([mem EXCEPT ![GlobalCell] = callee], callee, arg, kind)

Wrap(called, tag) == SingleFieldAdt(called.memory, tag, called.out)
EmitOptionUnwrapOr(mem, option, fallback) ==
  IF mem[option].tag = SomeTag THEN Answer(mem, mem[option].field) ELSE Answer(mem, fallback)
EmitOptionMap(mem, option, mapper) ==
  IF mem[option].tag = SomeTag THEN Wrap(IndirectCall(mem, mapper, mem[option].field), SomeTag)
  ELSE OptionNone(mem)
EmitOptionAndThen(mem, option, mapper) ==
  IF mem[option].tag = SomeTag THEN IndirectChoiceCall(mem, mapper, mem[option].field, "options")
  ELSE OptionNone(mem)
EmitOptionMapOr(mem, option, fallback, mapper) ==
  IF mem[option].tag = SomeTag THEN IndirectCall(mem, mapper, mem[option].field)
  ELSE Answer(mem, fallback)
EmitResultUnwrapOr(mem, result, fallback) ==
  IF mem[result].tag = OkTag THEN Answer(mem, mem[result].field) ELSE Answer(mem, fallback)
EmitResultMap(mem, result, mapper) ==
  IF mem[result].tag = OkTag THEN Wrap(IndirectCall(mem, mapper, mem[result].field), OkTag)
  ELSE SingleFieldAdt(mem, ErrTag, mem[result].field)
EmitResultAndThen(mem, result, mapper) ==
  IF mem[result].tag = OkTag THEN IndirectChoiceCall(mem, mapper, mem[result].field, "results")
  ELSE SingleFieldAdt(mem, ErrTag, mem[result].field)
EmitResultMapErr(mem, result, mapper) ==
  IF mem[result].tag = OkTag THEN SingleFieldAdt(mem, OkTag, mem[result].field)
  ELSE Wrap(IndirectCall(mem, mapper, mem[result].field), ErrTag)
EmitResultMapOr(mem, result, fallback, mapper) ==
  IF mem[result].tag = OkTag THEN IndirectCall(mem, mapper, mem[result].field)
  ELSE Answer(mem, fallback)

(***************************************************************************)
(* The programs                                                            *)
(***************************************************************************)
CONSTANT Payloads      \* the numbers the programs start with

choice == 1
number == 2
closure == 3
Optional == surface = "options"

Tag(variant) == IF variant.tag \in {"Some", "Ok"} THEN 0 ELSE 1
ChoicesStart(variants) ==
  \E variant \in variants, n \in Payloads :
    /\ refs = << variant, n, Closure("plus", << n >>) >>
    /\ objects = << >>
    /\ memory = << 3, [tag |-> Tag(variant), field |-> IF variant.payload = << >> THEN 0 ELSE variant.payload[1]],
                   [slot |-> "plus", captures |-> << n >>] >>
    /\ pointers = << 2, n, 3 >>
ChoicesInit ==
  \/ Starting("options") /\ ChoicesStart({MakeNone} \cup {MakeSome(n) : n \in Payloads})
  \/ Starting("results") /\ ChoicesStart({MakeOk(n) : n \in Payloads} \cup {MakeErr(n) : n \in Payloads})

MakePlus ==
  Store(closure, Closure("plus", << refs[number] >>), ClosureCreate(memory, "plus", << pointers[number] >>))
MakeAfter ==
  Store(closure, Closure("after", << refs[closure], refs[number] >>),
        ClosureCreate(memory, "after", << pointers[closure], pointers[number] >>))
CallClosure ==
  Store(number, CallNumber(refs[closure], refs[number]), IndirectCall(memory, pointers[closure], pointers[number]))

MapOption ==
  Store(choice, OptionMap(refs[choice], refs[closure]), EmitOptionMap(memory, pointers[choice], pointers[closure]))
UnwrapOption ==
  Store(number, OptionUnwrapOr(refs[choice], refs[number]),
        EmitOptionUnwrapOr(memory, pointers[choice], pointers[number]))
MapOptionOr ==
  Store(number, OptionMapOr(refs[choice], refs[number], refs[closure]),
        EmitOptionMapOr(memory, pointers[choice], pointers[number], pointers[closure]))
(* and_then with a closure made for the call. *)
OptionThen ==
  LET made == ClosureCreate(memory, "unless", << pointers[number] >>)
  IN  Store(choice, OptionAndThen(refs[choice], Closure("unless", << refs[number] >>)),
            EmitOptionAndThen(made.memory, pointers[choice], made.out))

MapResult ==
  Store(choice, ResultMap(refs[choice], refs[closure]), EmitResultMap(memory, pointers[choice], pointers[closure]))
MapResultErr ==
  Store(choice, ResultMapErr(refs[choice], refs[closure]),
        EmitResultMapErr(memory, pointers[choice], pointers[closure]))
UnwrapResult ==
  Store(number, ResultUnwrapOr(refs[choice], refs[number]),
        EmitResultUnwrapOr(memory, pointers[choice], pointers[number]))
MapResultOr ==
  Store(number, ResultMapOr(refs[choice], refs[number], refs[closure]),
        EmitResultMapOr(memory, pointers[choice], pointers[number], pointers[closure]))
ResultThen ==
  LET made == ClosureCreate(memory, "unless", << pointers[number] >>)
  IN  Store(choice, ResultAndThen(refs[choice], Closure("unless", << refs[number] >>)),
            EmitResultAndThen(made.memory, pointers[choice], made.out))

ChoicesNext ==
  \/ /\ surface \in {"options", "results"}
     /\ MakePlus \/ MakeAfter \/ CallClosure
  \/ /\ Optional
     /\ MapOption \/ UnwrapOption \/ MapOptionOr \/ OptionThen
  \/ /\ surface = "results"
     /\ MapResult \/ MapResultErr \/ UnwrapResult \/ MapResultOr \/ ResultThen

-----------------------------------------------------------------------------
(* However closures capture and call each other, the compiled program has  *)
(* the choice and the number the interpreter has: a call never uses the    *)
(* captures of another closure that ran inside it                          *)
(* (wasm.rs:171, func.rs:25823).                                           *)
ChoicesHold ==
  surface \in {"options", "results"} =>
    LET variant == refs[choice]
        cell == memory[pointers[choice]]
    IN  /\ cell.tag = Tag(variant)
        /\ variant.payload # << >> => cell.field = variant.payload[1]
        /\ pointers[number] = refs[number]
=============================================================================
