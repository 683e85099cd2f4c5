------------------------------ MODULE Compile ------------------------------
(***************************************************************************)
(* One function body through the compiler, beside the interpreter.  The    *)
(* body is lowered to KIR, the KIR is emitted as structured WebAssembly,   *)
(* and then all three are run on the same answers, one answer at a time:   *)
(* the environment decides every condition, every constructor and every    *)
(* end of a sequence, up to MaxAnswers of them.                            *)
(***************************************************************************)
EXTENDS Lowering, WasmControl

S == INSTANCE SourceEval

CONSTANTS
    Bodies,         \* the function bodies to compile
    MaxAnswers      \* how many answers a run is given

ASSUME CompileAssumption == MaxAnswers \in Nat

VARIABLES
    body,           \* the tree of the function
    kir,            \* its lowering, Nothing before it
    code,           \* its WebAssembly code, Nothing before it
    answers,        \* the answers so far
    src, ir, wasm   \* what each of the three makes of them

vars == <<body, kir, code, answers, src, ir, wasm>>

Nothing == <<>>

Init ==
    /\ body \in Bodies
    /\ kir = Nothing /\ code = Nothing /\ answers = <<>>
    /\ src = Nothing /\ ir = Nothing /\ wasm = Nothing

Lower ==
    /\ kir = Nothing
    /\ kir' = LowerFunction(body)
    /\ UNCHANGED <<body, code, answers, src, ir, wasm>>

RunAll(emitted, input) ==
    /\ answers' = input
    /\ src' = Seen(S!RunSource(body, input))
    /\ ir' = Seen(RunKir(kir, input))
    /\ wasm' = Seen(RunWasm(kir, emitted, input))

Compiles ==
    /\ kir # Nothing /\ code = Nothing
    /\ code' = EmitFunction(kir)
    /\ RunAll(code', <<>>)
    /\ UNCHANGED <<body, kir>>

(* The interpreter needs one more answer.                                  *)
Answer ==
    /\ code # Nothing /\ src.st = "asks" /\ Len(answers) < MaxAnswers
    /\ \E a \in src.ask : RunAll(code, Append(answers, a))
    /\ UNCHANGED <<body, kir, code>>

Next == Lower \/ Compiles \/ Answer

Spec == Init /\ [][Next]_vars

-----------------------------------------------------------------------------
(* Properties *)

(* What validate_function demands of every function the lowering builds:   *)
(* each target exists and takes as many arguments, of compatible types, as *)
(* it has parameters, whatever break, continue and return do to the blocks *)
(* around them (validate.rs, expr.rs).                                     *)
KirWellFormed == kir # Nothing => ValidFunction(kir)

(* SSA construction is faithful: with the same answers, the blocks do what *)
(* the interpreter does, in its order, with the values of the variables it *)
(* has, and return what it returns (lower_if, lower_match, lower_stmt).    *)
LoweringFaithful == code # Nothing => ir = src

(* Restructuring is faithful: the nested WebAssembly code does what the    *)
(* graph of blocks does; no branch goes to a wrong label, no block is      *)
(* skipped or run twice (emit_block_chain to emit_loop_switch).            *)
EmissionFaithful == code # Nothing => wasm = ir
=============================================================================
