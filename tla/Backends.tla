------------------------------ MODULE Backends ------------------------------
(***************************************************************************)
(* One program, run by the interpreter (crates/eval) and as WebAssembly    *)
(* (crates/codegen), operation by operation.                               *)
(*                                                                         *)
(* The program's variables hold a value of the interpreter (refs: an       *)
(* immutable value, or the identity of a mutable one in objects) and one   *)
(* of the compiled program (pointers, into memory).  An operation stores a *)
(* value in a variable, changes a mutable value, or asks a question; and   *)
(* answer has the interpreter's answer and those the compiled program can  *)
(* give.  A failed operation ends the program, and so does one on which    *)
(* the two are known to differ.                                            *)
(***************************************************************************)
EXTENDS Outcomes

CONSTANT Steps      \* bound: the number of operations of a program, per surface

VARIABLES
  surface,    \* the part of the library the program uses
  refs,       \* the interpreter's value of each variable
  objects,    \* the interpreter's mutable values
  memory,     \* the compiled program's memory
  pointers,   \* the compiled program's value of each variable
  answer,     \* the last question: its name, whether the answers are known to
              \* differ, the interpreter's answer, and those of the program
  steps       \* the number of operations so far

programVars == << surface, refs, objects, memory, pointers, answer, steps >>

Silent == [query |-> "none", known |-> FALSE, expected |-> {Ok("unit")},
           outcomes |-> {Ok("unit")}]
Reply(query, known, expected, outcomes) ==
  [query |-> query, known |-> known, expected |-> {expected}, outcomes |-> outcomes]

Starting(part) == surface = part /\ answer = Silent /\ steps = 0

Running ==
  /\ steps < Steps[surface]
  /\ ~answer.known
  /\ Fails \notin answer.expected \cup answer.outcomes
  /\ steps' = steps + 1
  /\ UNCHANGED surface

(* v becomes the value in the interpreter, and what a routine made in the other. *)
Store(v, value, made) ==
  /\ Running
  /\ refs' = [refs EXCEPT ![v] = value]
  /\ memory' = made.memory
  /\ pointers' = [pointers EXCEPT ![v] = made.out]
  /\ answer' = Silent
  /\ UNCHANGED objects

(* let v = w: both are the one value, in either program. *)
Bind(v, w) ==
  /\ pointers[v] # pointers[w]
  /\ Store(v, refs[w], Answer(memory, pointers[w]))

(* v becomes a mutable value made of the object. *)
StoreObject(v, object, made) ==
  /\ Running
  /\ objects' = Append(objects, object)
  /\ refs' = [refs EXCEPT ![v] = Len(objects) + 1]
  /\ memory' = made.memory
  /\ pointers' = [pointers EXCEPT ![v] = made.out]
  /\ answer' = Silent

(* A question; routines leave their answers and the memory. *)
Ask(query, known, expected, outcomes, left) ==
  /\ Running
  /\ answer' = Reply(query, known, expected, outcomes)
  /\ memory' = left
  /\ UNCHANGED << refs, objects, pointers >>

AskRoutine(query, expected, given) ==
  Ask(query, FALSE, Ok(expected), {Ok(given.out)}, given.memory)

(* The mutable value v becomes object; the operation also answers. *)
Change(query, known, v, object, expected, outcomes, left) ==
  /\ Running
  /\ objects' = [objects EXCEPT ![refs[v]] = object]
  /\ memory' = left
  /\ answer' = Reply(query, known, expected, outcomes)
  /\ UNCHANGED << refs, pointers >>

Object(v) == objects[refs[v]]

(* A change without an answer, and an operation that fails in both. *)
Edit(v, object, left) == Change("edit", FALSE, v, object, Ok("unit"), {Ok("unit")}, left)
Refused(query) == Ask(query, FALSE, Fails, {Fails}, memory)

-----------------------------------------------------------------------------
(* The compiled program ends every operation as the interpreter does: with *)
(* the same value or both with a failure.                                  *)
AllAnswersAgree == answer.outcomes = answer.expected

(* As AllAnswersAgree, except for the operations the two are known to do   *)
(* differently.                                                            *)
AnswersAgree == ~answer.known => answer.outcomes = answer.expected
=============================================================================
