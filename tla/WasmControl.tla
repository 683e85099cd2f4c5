---------------------------- MODULE WasmControl -----------------------------
(***************************************************************************)
(* KIR to structured WebAssembly (codegen/src/wasm/func.rs, from           *)
(* emit_body to emit_block_param_stores): a graph of blocks becomes nested *)
(* block, loop and if instructions, with branches to enclosing labels by   *)
(* depth.  Then how the WebAssembly code runs.                             *)
(*                                                                         *)
(* Instructions are trees: what the source brackets with Block, Loop, If,  *)
(* Else and End is the body of one instruction.  An emission is [code,     *)
(* emitted]: the instructions so far, and the blocks already emitted.      *)
(***************************************************************************)
EXTENDS Kir, FiniteSetsExt, SequencesExt

None == 0

WBody(b) == [i |-> "body", b |-> b]
WStores(to) == [i |-> "stores", to |-> to]
WBlock(code) == [i |-> "block", code |-> code]
WLoop(code) == [i |-> "loop", code |-> code]
WIf(v, then, else) == [i |-> "if", v |-> v, then |-> then, else |-> else]
WBr(depth) == [i |-> "br", depth |-> depth]
WBrTable(v, depths) == [i |-> "br_table", v |-> v, depths |-> depths]
WReturn(v) == [i |-> "return", v |-> v]
WUnreachable == [i |-> "unreachable"]

(***************************************************************************)
(* Where paths meet.                                                       *)
(***************************************************************************)
RECURSIVE Distances(_, _, _, _, _)
Distances(blocks, frontier, stops, d, dist) ==
    LET next == UNION {Successors(blocks, b) : b \in frontier \ stops}
                    \ (DOMAIN dist \cup frontier)
        now == dist @@ [b \in frontier |-> d]
    IN  IF next = {} THEN now ELSE Distances(blocks, next, stops, d + 1, now)

(* How far every block is from start on paths that go no further than a    *)
(* stop.                                                                   *)
DistancesUntil(blocks, start, stops) == Distances(blocks, {start}, stops, 0, <<>>)

RECURSIVE ReachAvoiding(_, _, _)
ReachAvoiding(blocks, seen, forbidden) ==
    LET next == UNION {Successors(blocks, b) : b \in seen} \ (seen \cup {forbidden})
    IN  IF next = {} THEN seen ELSE ReachAvoiding(blocks, seen \cup next, forbidden)

Leaves(blocks, b) == blocks[b].term.t \in {"return", "unreachable"}

(* can_reach_boundary_without_passing: a path to a stop, a return or an    *)
(* unreachable that avoids the candidate.                                  *)
EscapesAround(blocks, start, candidate, stops) ==
    /\ start # candidate
    /\ \E b \in ReachAvoiding(blocks, {start}, candidate) :
          b \in stops \/ Leaves(blocks, b)

PostDominatesWithin(blocks, start, candidate, stops) ==
    ~EscapesAround(blocks, start, candidate, stops)

Least(S, Measure(_)) == {b \in S : \A a \in S : Measure(b) <= Measure(a)}

(* The common block closest to all the starts: by the sum of the           *)
(* distances, then by the largest, then by number.                         *)
NearestCommon(reach, candidates) ==
    LET common == {b \in candidates : \A i \in DOMAIN reach : b \in DOMAIN reach[i]}
        Total(b) == FoldLeft(LAMBDA t, r : t + r[b], 0, reach)
        Side(b) == Max({reach[i][b] : i \in DOMAIN reach})
    IN  IF reach = <<>> \/ common = {} THEN None
        ELSE Min(Least(Least(common, Total), Side))

IntersectionMerge(reach, excluded) ==
    IF reach = <<>> THEN None ELSE NearestCommon(reach, DOMAIN reach[1] \ excluded)

CommonMerge(blocks, starts, reach, stops, excluded) ==
    IF reach = <<>> THEN None
    ELSE NearestCommon(reach,
             {b \in DOMAIN reach[1] \ excluded :
                 \A i \in DOMAIN starts :
                     PostDominatesWithin(blocks, starts[i], b, stops)})

BranchMergeDeep(blocks, then, else) ==
    IF then.block = else.block THEN then.block
    ELSE LET starts == <<then.block, else.block>>
         IN  CommonMerge(blocks, starts,
                 [i \in 1..2 |-> DistancesUntil(blocks, starts[i], {})], {}, {})

SwitchMerge(blocks, cases, default) ==
    LET to == [i \in DOMAIN cases |-> cases[i].to] \o default
    IN  IntersectionMerge([i \in DOMAIN to |-> DistancesUntil(blocks, to[i].block, {})],
                          {to[i].block : i \in DOMAIN to})

LoopBranchMerge(blocks, then, else, header, exit) ==
    LET stops == {header, exit}
        starts == <<then.block, else.block>>
    IN  CommonMerge(blocks, starts,
            [i \in 1..2 |-> DistancesUntil(blocks, starts[i], stops)],
            stops, stops \cup {then.block, else.block})

ExitsDirectly(blocks, b, header, exit) ==
    \/ Leaves(blocks, b)
    \/ blocks[b].term.t = "jump" /\ blocks[b].term.to.block \in {header, exit}

LoopSwitchMerge(blocks, cases, default, current, header, exit) ==
    LET to == [i \in DOMAIN cases |-> cases[i].to.block]
                  \o [i \in DOMAIN default |-> default[i].block]
        stops == {current, header, exit}
        excluded == stops \cup {to[i] : i \in DOMAIN to}
        starts == SelectSeq(to, LAMBDA b : ~ExitsDirectly(blocks, b, header, exit))
        reach == [i \in DOMAIN starts |-> DistancesUntil(blocks, starts[i], stops)]
        merge == IntersectionMerge(reach, excluded)
        clear == \A i \in DOMAIN starts :
                    \/ starts[i] = merge
                    \/ starts[i] \notin DOMAIN DistancesUntil(blocks, merge, stops)
    IN  IF merge # None /\ clear THEN merge
        ELSE CommonMerge(blocks, starts, reach, stops, excluded)

(***************************************************************************)
(* Which branches are loops.                                               *)
(***************************************************************************)
ReachesHeader(blocks, start, header, enclosing) ==
    header \in DOMAIN DistancesUntil(blocks, start, enclosing \ {header})

NoLoop == <<>>

(* <<target of the body, target of the exit>>, or NoLoop.  enclosing holds *)
(* the header and the exit of the loop around, if there is one.            *)
ClassifyLoopBranch(f, header, then, else, enclosing) ==
    LET params == f.blocks[header].params
        n == Len(params)
        stops == {header} \cup enclosing
        starts == <<then.block, else.block>>
        reach == [i \in 1..2 |-> DistancesUntil(f.blocks, starts[i], stops)]
        thenBack == ReachesHeader(f.blocks, then.block, header, enclosing)
        elseBack == ReachesHeader(f.blocks, else.block, header, enclosing)
        byBackEdge == CASE thenBack /\ ~elseBack -> <<then, else>>
                        [] ~thenBack /\ elseBack -> <<else, then>>
                        [] OTHER -> NoLoop
        byArgs == IF then.args = <<>> /\ else.args # <<>> /\ thenBack
                  THEN <<then, else>>
                  ELSE IF else.args = <<>> /\ then.args # <<>> /\ elseBack
                       THEN <<else, then>> ELSE NoLoop
    IN  IF \/ Cardinality(Predecessors(f.blocks, header)) < 2
           \/ n = 0 /\ CommonMerge(f.blocks, starts, reach, stops, stops) # None
        THEN NoLoop
        ELSE IF then.args = <<>> /\ Len(else.args) = n
        THEN IF thenBack THEN <<then, else>> ELSE NoLoop
        ELSE IF else.args = <<>> /\ Len(then.args) = n
        THEN IF elseBack THEN <<else, then>> ELSE NoLoop
        ELSE IF n = 1 /\ f.vals[params[1]] = "bool"
        THEN IF byBackEdge # NoLoop THEN byBackEdge ELSE byArgs
        ELSE IF n <= 1 THEN NoLoop ELSE byBackEdge

(* The loop that starts at a block, if one does.                           *)
LoopTargets(f, b, enclosing) ==
    LET term == f.blocks[b].term
    IN  IF term.t = "branch"
        THEN ClassifyLoopBranch(f, b, term.then, term.else, enclosing) ELSE NoLoop

(***************************************************************************)
(* Emission outside loops.                                                 *)
(***************************************************************************)
Emit(e, code) == [e EXCEPT !.code = @ \o code]
Mark(e, b) == [e EXCEPT !.emitted = @ \cup {b}]
Fresh(e) == [e EXCEPT !.code = <<>>]

RECURSIVE EmitChain(_, _, _, _), EmitBranch(_, _, _, _), EmitSwitch(_, _, _, _),
          EmitBlock(_, _, _, _, _), EmitBranchArm(_, _, _, _),
          EmitSwitchArms(_, _, _, _, _)

RECURSIVE EmitLoopChain(_, _, _, _, _), EmitLoopBlock(_, _, _, _, _, _),
          EmitLoopBranch(_, _, _, _, _), EmitLoopSwitch(_, _, _, _, _, _),
          EmitLoopSwitchArms(_, _, _, _, _, _)

(* The loop around the code being emitted: its header and exit blocks, and *)
(* the label depths that continue and break it.                            *)
LoopAt(header, exit) == [header |-> header, exit |-> exit, cont |-> 1, brk |-> 2]
Deeper(l, n) == [l EXCEPT !.cont = @ + n, !.brk = @ + n]

(* emit_loop and the part emit_nested_loop shares with it: a block around  *)
(* a loop around an if on the condition of the header.                     *)
CloseLoop(f, header, exit, e, body) ==
    [code |-> Append(e.code, WBlock(<<WLoop(<<WBody(header),
                  WIf(f.blocks[header].term.v,
                      Append(body.code, WUnreachable),
                      <<WStores(exit), WBr(2)>>)>>)>>)),
     emitted |-> e.emitted \cup body.emitted]

EmitLoop(f, header, targets, e) ==
    CloseLoop(f, header, targets[2], e,
        EmitLoopChain(f, targets[1].block, LoopAt(header, targets[2].block), None,
                      [code |-> <<WStores(targets[1])>>, emitted |-> {}]))

(* An if with its two arms, each emitted with its own copy of what was     *)
(* emitted before it.                                                      *)
CloseIf(v, merge, e, then, else) ==
    [code |-> Append(e.code, WIf(v, then.code, else.code)),
     emitted |-> e.emitted \cup ((then.emitted \cup else.emitted) \ {merge})]

(* The merge block of a branch or a switch, or its absence.                *)
EmitMerge(f, merge, stop, e) ==
    IF merge = None THEN Emit(e, <<WUnreachable>>) ELSE EmitChain(f, merge, stop, e)

EmitChain(f, b, stop, e) ==
    IF b = stop \/ b \in e.emitted THEN e
    ELSE EmitBlock(f, b, LoopTargets(f, b, {}), stop, Mark(e, b))

EmitBlock(f, b, loop, stop, e) ==
    LET term == f.blocks[b].term
        body == Emit(e, <<WBody(b)>>)
    IN  IF loop # NoLoop
        THEN EmitChain(f, loop[2].block, stop, EmitLoop(f, b, loop, e))
        ELSE CASE term.t = "jump" ->
                     EmitChain(f, term.to.block, stop, Emit(body, <<WStores(term.to)>>))
               [] term.t = "return" -> Emit(body, <<WReturn(term.v)>>)
               [] term.t = "unreachable" -> Emit(body, <<WUnreachable>>)
               [] term.t = "branch" -> EmitBranch(f, term, stop, body)
               [] term.t = "switch" -> EmitSwitch(f, term, stop, body)

EmitBranch(f, term, stop, e) ==
    LET Arms(merge) ==
            EmitMerge(f, merge, stop,
                CloseIf(term.v, merge, e, EmitBranchArm(f, term.then, merge, Fresh(e)),
                        EmitBranchArm(f, term.else, merge, Fresh(e))))
    IN  Arms(BranchMergeDeep(f.blocks, term.then, term.else))

EmitBranchArm(f, to, merge, e) ==
    LET term == f.blocks[to.block].term
        stores == Emit(e, <<WStores(to)>>)
        body == Emit(Mark(stores, to.block), <<WBody(to.block)>>)
    IN  IF to.block = merge THEN stores
        ELSE CASE term.t = "return" -> Emit(body, <<WReturn(term.v)>>)
               [] term.t = "unreachable" -> Emit(body, <<WUnreachable>>)
               [] term.t = "jump" ->
                     LET jump == Emit(body, <<WStores(term.to)>>)
                     IN  IF term.to.block = merge THEN jump
                         ELSE EmitChain(f, term.to.block, merge, jump)
               [] term.t = "branch" -> EmitBranch(f, term, merge, body)
               [] term.t = "switch" -> EmitSwitch(f, term, merge, body)

(* The label depth the tag of every constructor selects.                   *)
BrTableDepths(cases, default) ==
    [v \in Variants |->
        IF \E i \in DOMAIN cases : cases[i].ctor = v
        THEN (CHOOSE i \in DOMAIN cases : cases[i].ctor = v) - 1
        ELSE IF default # <<>> THEN Len(cases) ELSE 0]

(* What the source opens around the dispatch and the arms.                 *)
CloseSwitch(e, arms) ==
    [code |-> Append(e.code, WBlock(arms.code)), emitted |-> arms.emitted]

SwitchTargets(term) == [i \in DOMAIN term.cases |-> term.cases[i].to] \o term.default

Dispatch(term, e) ==
    [e EXCEPT !.code = <<WBrTable(term.v, BrTableDepths(term.cases, term.default))>>]

EmitSwitch(f, term, stop, e) ==
    LET Arms(merge) ==
            EmitMerge(f, merge, stop,
                CloseSwitch(e, EmitSwitchArms(f, SwitchTargets(term), 1, merge,
                                              Dispatch(term, e))))
    IN  Arms(SwitchMerge(f.blocks, term.cases, term.default))

(* Arm i follows the block that its tag leaves; depth is the label of the  *)
(* block around all the arms.                                              *)
EmitSwitchArms(f, to, i, merge, e) ==
    LET b == to[i].block
        term == f.blocks[b].term
        depth == Len(to) - i
        body == Mark([e EXCEPT !.code = <<WBlock(@), WStores(to[i]), WBody(b)>>], b)
        arm == CASE term.t = "return" -> Emit(body, <<WReturn(term.v)>>)
                 [] term.t = "jump" -> Emit(body, <<WStores(term.to), WBr(depth)>>)
                 [] term.t = "unreachable" -> Emit(body, <<WUnreachable>>)
                 [] term.t = "branch" ->
                       Emit(EmitBranch(f, term, merge, body), <<WBr(depth)>>)
                 [] term.t = "switch" ->
                       Emit(EmitSwitch(f, term, merge, body), <<WBr(depth)>>)
    IN  IF i > Len(to) THEN e ELSE EmitSwitchArms(f, to, i + 1, merge, arm)

(***************************************************************************)
(* Emission inside a loop.                                                 *)
(***************************************************************************)
EmitLoopChain(f, b, l, stop, e) ==
    IF b = stop THEN e
    ELSE IF b = l.header THEN Emit(e, <<WBr(l.cont)>>)
    ELSE IF b = l.exit THEN Emit(e, <<WBr(l.brk)>>)
    ELSE IF b \in e.emitted THEN e
    ELSE EmitLoopBlock(f, b, LoopTargets(f, b, {l.header, l.exit}), l, stop, Mark(e, b))

EmitLoopBlock(f, b, loop, l, stop, e) ==
    LET term == f.blocks[b].term
        body == Emit(e, <<WBody(b)>>)
    IN  IF loop # NoLoop
        THEN EmitLoopChain(f, loop[2].block, l, stop, EmitLoop(f, b, loop, e))
        ELSE CASE term.t = "jump" ->
                     EmitLoopChain(f, term.to.block, l, stop,
                                   Emit(body, <<WStores(term.to)>>))
               [] term.t = "return" -> Emit(body, <<WReturn(term.v)>>)
               [] term.t = "unreachable" -> Emit(body, <<WUnreachable>>)
               [] term.t = "branch" -> EmitLoopBranch(f, term, l, stop, body)
               [] term.t = "switch" -> EmitLoopSwitch(f, term, b, l, stop, body)

EmitLoopMerge(f, merge, l, stop, e) ==
    IF merge = None THEN Emit(e, <<WUnreachable>>)
    ELSE EmitLoopChain(f, merge, l, stop, e)

StopInLoopForgotten(blocks, targets, stop, stops) == None

(* The stop of the construct around, when it is a block of the loop that   *)
(* one of the targets reaches without leaving the loop.                    *)
StopInLoop(blocks, targets, stop, stops) ==
    IF stop \notin stops \cup {None} /\
       \E i \in DOMAIN targets :
           stop \in DOMAIN DistancesUntil(blocks, targets[i].block, stops)
    THEN stop ELSE None

LoopBranchTarget(f, term, l, stop) ==
    LET near == LoopBranchMerge(f.blocks, term.then, term.else, l.header, l.exit)
        outer == StopInLoop(f.blocks, <<term.then, term.else>>, stop, {l.header, l.exit})
        deep == BranchMergeDeep(f.blocks, term.then, term.else)
    IN  IF near # None THEN near
        ELSE IF outer # None THEN outer
        ELSE IF deep \in {l.header, l.exit} THEN None ELSE deep

EmitLoopBranchArm(f, to, merge, l, e) ==
    IF to.block = merge THEN e ELSE EmitLoopChain(f, to.block, Deeper(l, 1), merge, e)

EmitLoopBranch(f, term, l, stop, e) ==
    LET OneArm(to, merge) ==
            EmitLoopBranchArm(f, to, merge, l, Emit(Fresh(e), <<WStores(to)>>))
        Arms(merge) ==
            EmitLoopMerge(f, merge, l, stop,
                CloseIf(term.v, merge, e, OneArm(term.then, merge), OneArm(term.else, merge)))
    IN  Arms(LoopBranchTarget(f, term, l, stop))

LoopSwitchTarget(f, term, current, l, stop) ==
    LET near == LoopSwitchMerge(f.blocks, term.cases, term.default, current,
                                l.header, l.exit)
    IN  IF near # None THEN near
        ELSE StopInLoop(f.blocks, SwitchTargets(term), stop, {current, l.header, l.exit})

EmitLoopSwitch(f, term, current, l, stop, e) ==
    LET Arms(merge) ==
            EmitLoopMerge(f, merge, l, stop,
                CloseSwitch(e, EmitLoopSwitchArms(f, SwitchTargets(term), 1, merge, l,
                                                  Dispatch(term, e))))
    IN  Arms(LoopSwitchTarget(f, term, current, l, stop))

EmitLoopSwitchArms(f, to, i, merge, l, e) ==
    LET b == to[i].block
        term == f.blocks[b].term
        depth == Len(to) - i
        inner == Deeper(l, depth + 1)
        body == Mark([e EXCEPT !.code = <<WBlock(@), WStores(to[i]), WBody(b)>>], b)
        jump == Emit(body, <<WStores(term.to)>>)
        out == <<WBr(depth)>>
        arm == CASE term.t = "return" -> Emit(body, <<WReturn(term.v)>>)
                 [] term.t = "unreachable" -> Emit(body, <<WUnreachable>>)
                 [] term.t = "jump" ->
                       IF term.to.block = merge THEN Emit(jump, out)
                       ELSE IF term.to.block = l.header THEN Emit(jump, <<WBr(inner.cont)>>)
                       ELSE IF term.to.block = l.exit THEN Emit(jump, <<WBr(inner.brk)>>)
                       ELSE Emit(EmitLoopChain(f, term.to.block, inner, merge, jump), out)
                 [] term.t = "branch" ->
                       Emit(EmitLoopBranch(f, term, inner, merge, body), out)
                 [] term.t = "switch" ->
                       Emit(EmitLoopSwitch(f, term, b, inner, merge, body), out)
    IN  IF i > Len(to) THEN e ELSE EmitLoopSwitchArms(f, to, i + 1, merge, l, arm)

EmitFunction(f) ==
    EmitChain(f, 1, None, [code |-> <<>>, emitted |-> {}]).code

(***************************************************************************)
(* Running the code.  br is one more than the number of labels still to    *)
(* leave, 0 when none.                                                     *)
(***************************************************************************)
(* emit_block_param_stores: the arguments are pushed in order and the      *)
(* parameters take them from the top of the stack, the last one first.     *)
Stores(blocks, to, r) ==
    LET params == blocks[to.block].params
        over == Len(to.args) - Len(params)
    IN  IF over < 0 THEN [r EXCEPT !.st = "invalid"]
        ELSE [r EXCEPT !.regs = [v \in DOMAIN @ |->
                IF \E i \in DOMAIN params : params[i] = v
                THEN r.regs[to.args[over + CHOOSE i \in DOMAIN params : params[i] = v]]
                ELSE @[v]]]

LeaveLabel(r) == IF r.br = 0 THEN r ELSE [r EXCEPT !.br = @ - 1]

RECURSIVE ExecCode(_, _, _), ExecLoop(_, _, _)
ExecCode(f, code, r) ==
    IF code = <<>> \/ r.st # "run" \/ r.br > 0 THEN r
    ELSE LET w == Head(code)
             next ==
               CASE w.i = "body" -> ExecBody(f.blocks[w.b].body, r)
                 [] w.i = "stores" -> Stores(f.blocks, w.to, r)
                 [] w.i = "block" -> LeaveLabel(ExecCode(f, w.code, r))
                 [] w.i = "loop" -> ExecLoop(f, w.code, r)
                 [] w.i = "if" ->
                       LeaveLabel(ExecCode(f, IF r.regs[w.v] = 1 THEN w.then ELSE w.else, r))
                 [] w.i = "br" -> [r EXCEPT !.br = w.depth + 1]
                 [] w.i = "br_table" -> [r EXCEPT !.br = w.depths[r.regs[w.v]] + 1]
                 [] w.i = "return" -> Finish(r, w.v)
                 [] w.i = "unreachable" -> [r EXCEPT !.st = "trap"]
         IN  ExecCode(f, Tail(code), next)

ExecLoop(f, code, r) ==
    LET once == ExecCode(f, code, r)
    IN  IF once.br = 1 THEN ExecLoop(f, code, [once EXCEPT !.br = 0])
        ELSE LeaveLabel(once)

(* Code that ends without a return leaves no result on the stack: the      *)
(* module is not valid.                                                    *)
RunWasm(f, code, answers) ==
    LET r == ExecCode(f, code, Machine(f, answers) @@ [br |-> 0])
    IN  IF r.st = "run" THEN [r EXCEPT !.st = "invalid"] ELSE r
=============================================================================
