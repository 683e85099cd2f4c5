-------------------------------- MODULE Kir --------------------------------
(***************************************************************************)
(* Function bodies, what can be seen of running one, and the intermediate  *)
(* representation a body is lowered to.                                    *)
(***************************************************************************)
EXTENDS Naturals, Sequences, FiniteSets, TLC

(***************************************************************************)
(* The part of a function body that decides where control goes, and what   *)
(* can be seen of running it.                                              *)
(*                                                                         *)
(* Trees.  The expressions and statements of hir-def/src/expr.rs, with the *)
(* data abstracted: a computation is a call labelled by a tag that reads   *)
(* the variables in scope, a condition or a scrutinee is a call whose      *)
(* answer the environment chooses.                                         *)
(*                                                                         *)
(* Runs.  Whatever executes a body, the interpreter, the intermediate      *)
(* representation or the WebAssembly code, is fed one finite sequence of   *)
(* answers and leaves one list of observations.  A run that needs an       *)
(* answer it was not given stops and says which answers it would accept.   *)
(***************************************************************************)
(* Variables a body may read: x is an Int, f a Bool.                        *)
Variables == <<"x", "f">>

TypeOfName(n) == IF n = "f" THEN "bool" ELSE "int"

(* The constructors of the type a match inspects, in declaration order,     *)
(* and the wildcard.                                                       *)
Variants == {1, 2}
Wild == 0

(* Expressions.                                                            *)
NoExpr == [k |-> "none"]
Val(tag, ty) == [k |-> "val", tag |-> tag, ty |-> ty]
Test(tag) == [k |-> "test", tag |-> tag]
Logic(op, lhs, rhs) == [k |-> "logic", op |-> op, lhs |-> lhs, rhs |-> rhs]
If(cond, then, else) == [k |-> "if", cond |-> cond, then |-> then, else |-> else]
Match(tag, arms) == [k |-> "match", tag |-> tag, arms |-> arms]
Cases(tag, arms) == [k |-> "cases", tag |-> tag, arms |-> arms]
Block(stmts, tail) == [k |-> "block", stmts |-> stmts, tail |-> tail]
Return(e) == [k |-> "return", e |-> e]

(* A match arm: the constructor (or Wild), whether a literal inside the     *)
(* constructor is compared as well, the name the pattern binds ("" for     *)
(* none) and the body.                                                     *)
Arm(ctor, lit, bind, body) ==
    [ctor |-> ctor, lit |-> lit, bind |-> bind, body |-> body]

(* Statements.                                                             *)
Let(n, e) == [k |-> "let", n |-> n, e |-> e]
Assign(n, e) == [k |-> "assign", n |-> n, e |-> e]
While(cond, body) == [k |-> "while", cond |-> cond, body |-> body]
For(tag, body) == [k |-> "for", tag |-> tag, body |-> body]
Break == [k |-> "break"]
Continue == [k |-> "continue"]
Do(e) == [k |-> "do", e |-> e]

(***************************************************************************)
(* Runs                                                                    *)
(***************************************************************************)
Start(answers) == [st |-> "run", left |-> answers, out |-> <<>>, ask |-> {}]

Observe(r, tag, values) == [r EXCEPT !.out = Append(@, <<tag, values>>)]

(* A value no other call of the run returns.                               *)
Stamp(r, tag) == 100 * tag + Len(r.out)

(* A run waiting for one of the answers in among.                          *)
Waits(r, among) == [r EXCEPT !.st = "asks", !.ask = among]

(* What of a run is compared: how it stands, and what it did so far.       *)
Seen(r) == [st |-> r.st, out |-> r.out, ask |-> r.ask]

(***************************************************************************)
(* The intermediate representation (kir/src/block.rs, build.rs): basic     *)
(* blocks with parameters, values in one arena, one terminator per block.  *)
(* Then the well-formedness rules of validate.rs, and what running a       *)
(* function means.                                                         *)
(***************************************************************************)
Target(block, args) == [block |-> block, args |-> args]

NoTerm == [t |-> "none"]
Unreachable == [t |-> "unreachable"]
Returns(v) == [t |-> "return", v |-> v]
Jump(to) == [t |-> "jump", to |-> to]
Branch(v, then, else) == [t |-> "branch", v |-> v, then |-> then, else |-> else]
(* cases: a sequence of [ctor, to]; default: a sequence of at most one      *)
(* target.                                                                 *)
Switch(v, cases, default) ==
    [t |-> "switch", v |-> v, cases |-> cases, default |-> default]

(* The targets of a terminator, in the order they are written.             *)
Targets(term) ==
    CASE term.t = "jump" -> <<term.to>>
      [] term.t = "branch" -> <<term.then, term.else>>
      [] term.t = "switch" ->
            [i \in DOMAIN term.cases |-> term.cases[i].to] \o term.default
      [] OTHER -> <<>>

Successors(blocks, b) ==
    LET to == Targets(blocks[b].term) IN {to[i].block : i \in DOMAIN to}

Predecessors(blocks, b) == {c \in DOMAIN blocks : b \in Successors(blocks, c)}

(***************************************************************************)
(* validate_function.  A function is [blocks, vals]: vals is the type of   *)
(* every value, blocks[1] the entry block.                                 *)
(***************************************************************************)
TypesCompatible(a, b) == a = b \/ "never" \in {a, b}

ValidTarget(f, to) ==
    /\ to.block \in DOMAIN f.blocks
    /\ LET params == f.blocks[to.block].params
       IN  /\ Len(to.args) = Len(params)
           /\ \A i \in DOMAIN to.args :
                 /\ to.args[i] \in DOMAIN f.vals
                 /\ TypesCompatible(f.vals[to.args[i]], f.vals[params[i]])

ValidTerminator(f, term) ==
    /\ term # NoTerm
    /\ term.t \in {"branch", "switch", "return"} => term.v \in DOMAIN f.vals
    /\ term.t = "branch" => TypesCompatible(f.vals[term.v], "bool")
    /\ term.t = "switch" =>
          \A i, j \in DOMAIN term.cases :
              term.cases[i].ctor = term.cases[j].ctor => i = j
    /\ LET to == Targets(term) IN \A i \in DOMAIN to : ValidTarget(f, to[i])

ValidFunction(f) ==
    /\ f.blocks[1].params = <<>>
    /\ \A b \in DOMAIN f.blocks :
          LET block == f.blocks[b]
          IN  /\ ValidTerminator(f, block.term)
              /\ \A i \in DOMAIN block.body : \A j \in DOMAIN block.body[i].args :
                    block.body[i].args[j] \in DOMAIN f.vals
              /\ b # 1 /\ block.params # <<>> /\ block.term # Unreachable
                    => Predecessors(f.blocks, b) # {}

(***************************************************************************)
(* Running: a run also holds the value of every arena slot (0 before it is *)
(* set).                                                                   *)
(***************************************************************************)
Machine(f, answers) == Start(answers) @@ [regs |-> [v \in DOMAIN f.vals |-> 0]]

Args(r, args) == [i \in DOMAIN args |-> r.regs[args[i]]]

(* One instruction: a constant, a call, a choice, or a field of the        *)
(* scrutinee.                                                              *)
ExecInst(inst, r) ==
    CASE inst.op = "const" -> [r EXCEPT !.regs[inst.dst] = inst.tag]
      [] inst.op = "call" ->
            [Observe(r, inst.tag, Args(r, inst.args))
                EXCEPT !.regs[inst.dst] = Stamp(r, inst.tag)]
      [] inst.op = "field" ->
            [r EXCEPT !.regs[inst.dst] = 90 + r.regs[inst.args[1]]]
      [] inst.op = "ask" ->
            IF r.left = <<>> THEN Waits(r, inst.among)
            ELSE [Observe(r, inst.tag, <<Head(r.left)>>)
                    EXCEPT !.left = Tail(@), !.regs[inst.dst] = Head(r.left)]

RECURSIVE ExecBody(_, _)
ExecBody(body, r) ==
    IF body = <<>> \/ r.st # "run" THEN r
    ELSE ExecBody(Tail(body), ExecInst(Head(body), r))

(* Every parameter of the target takes the argument in its position; the   *)
(* arguments are all read before the first parameter is written.           *)
PassArgs(blocks, to, r) ==
    LET params == blocks[to.block].params
    IN  [r EXCEPT !.regs = [v \in DOMAIN @ |->
            IF \E i \in DOMAIN to.args : i <= Len(params) /\ params[i] = v
            THEN r.regs[to.args[CHOOSE i \in DOMAIN to.args : params[i] = v]]
            ELSE @[v]]]

Finish(r, v) == [Observe(r, 0, <<r.regs[v]>>) EXCEPT !.st = "done"]

RECURSIVE RunBlock(_, _, _)
RunBlock(f, b, r) ==
    LET done == ExecBody(f.blocks[b].body, r)
        term == f.blocks[b].term
        Go(to) == RunBlock(f, to.block, PassArgs(f.blocks, to, done))
    IN  IF done.st # "run" THEN done
        ELSE CASE term.t = "return" -> Finish(done, term.v)
               [] term.t = "jump" -> Go(term.to)
               [] term.t = "branch" ->
                     Go(IF done.regs[term.v] = 1 THEN term.then ELSE term.else)
               [] term.t = "switch" ->
                     LET hit == {i \in DOMAIN term.cases :
                                    term.cases[i].ctor = done.regs[term.v]}
                     IN  IF hit # {} THEN Go(term.cases[CHOOSE i \in hit : TRUE].to)
                         ELSE IF term.default # <<>> THEN Go(term.default[1])
                         ELSE [done EXCEPT !.st = "trap"]
               [] OTHER -> [done EXCEPT !.st = "trap"]

RunKir(f, answers) == RunBlock(f, 1, Machine(f, answers))
=============================================================================
