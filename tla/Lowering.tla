------------------------------ MODULE Lowering ------------------------------
(***************************************************************************)
(* HIR to KIR (kir/src/lower/expr.rs, lower.rs, build.rs): a tree becomes  *)
(* blocks.  The lowering context is a record that every operator takes and *)
(* returns: the blocks and the value arena of the builder, the block being *)
(* filled (cur), the scopes of local names (locals), the enclosing loops,  *)
(* and the value of the expression lowered last (val).                     *)
(***************************************************************************)
EXTENDS Kir, FiniteSetsExt

Empty == [blocks |-> <<>>, vals |-> <<>>, cur |-> 0, locals |-> <<>>,
          loops |-> <<>>, val |-> 0]

(***************************************************************************)
(* The builder.                                                            *)
(***************************************************************************)
NewBlocks(c, n) ==
    [c EXCEPT !.blocks = @ \o [i \in 1..n |->
                [params |-> <<>>, body |-> <<>>, term |-> NoTerm]]]

SwitchTo(c, b) == [c EXCEPT !.cur = b]

AllocValue(c, ty) ==
    [c EXCEPT !.vals = Append(@, ty), !.val = Len(c.vals) + 1]

Push(c, op, tag, args, among, ty) ==
    [AllocValue(c, ty) EXCEPT !.blocks[c.cur].body =
        Append(@, [dst |-> Len(c.vals) + 1, op |-> op, tag |-> tag,
                   args |-> args, among |-> among])]

PushUnit(c) == Push(c, "const", 0, <<>>, {}, "unit")

AddParam(c, b, ty) ==
    [AllocValue(c, ty) EXCEPT !.blocks[b].params = Append(@, Len(c.vals) + 1)]

SetTerm(c, term) == [c EXCEPT !.blocks[c.cur].term = term]

HasTerm(c) == c.blocks[c.cur].term # NoTerm

(***************************************************************************)
(* Scopes.                                                                 *)
(***************************************************************************)
PushLocals(c) == [c EXCEPT !.locals = Append(@, <<>>)]
PopLocals(c) == [c EXCEPT !.locals = SubSeq(@, 1, Len(@) - 1)]

LocalScope(c, n) == Max({0} \cup {i \in DOMAIN c.locals : n \in DOMAIN c.locals[i]})

InScope(c, n) == LocalScope(c, n) > 0
LookupLocal(c, n) == c.locals[LocalScope(c, n)][n]

DefineLocal(c, n, v) == [c EXCEPT !.locals[Len(c.locals)] = (n :> v) @@ @]

RebindLocal(c, n, v) ==
    IF InScope(c, n) THEN [c EXCEPT !.locals[LocalScope(c, n)][n] = v] ELSE c

(* The names of a list that are in scope, and their current values.        *)
ScopedNames(c, names) == SelectSeq(names, LAMBDA n : InScope(c, n))

CurrentLoopArgs(c, names) ==
    LET scoped == ScopedNames(c, names)
    IN  [i \in DOMAIN scoped |-> LookupLocal(c, scoped[i])]

(* add_block_param for every carried name, and the name bound to it.       *)
RECURSIVE AddParams(_, _, _)
AddParams(c, b, carried) ==
    IF carried = <<>> THEN c
    ELSE LET p == AddParam(c, b, c.vals[LookupLocal(c, Head(carried))])
         IN  AddParams(RebindLocal(p, Head(carried), p.val), b, Tail(carried))

(***************************************************************************)
(* The names assigned in a tree, in the order they are first met.          *)
(***************************************************************************)
Add(names, n) == IF \E i \in DOMAIN names : names[i] = n THEN names
                 ELSE Append(names, n)

RECURSIVE Assigned(_, _), AssignedIn(_, _)
Assigned(e, names) ==
    CASE e.k = "logic" -> Assigned(e.rhs, Assigned(e.lhs, names))
      [] e.k = "if" -> Assigned(e.else, Assigned(e.then, Assigned(e.cond, names)))
      [] e.k \in {"match", "cases"} ->
            AssignedIn([i \in DOMAIN e.arms |-> Do(e.arms[i].body)], names)
      [] e.k = "block" -> Assigned(e.tail, AssignedIn(e.stmts, names))
      [] e.k = "return" -> Assigned(e.e, names)
      [] OTHER -> names

AssignedIn(stmts, names) ==
    IF stmts = <<>> THEN names
    ELSE LET stmt == Head(stmts)
             more == CASE stmt.k = "assign" -> Assigned(stmt.e, Add(names, stmt.n))
                       [] stmt.k \in {"let", "do"} -> Assigned(stmt.e, names)
                       [] stmt.k = "while" ->
                             Assigned(stmt.body, Assigned(stmt.cond, names))
                       [] stmt.k = "for" -> Assigned(stmt.body, names)
                       [] OTHER -> names
         IN  AssignedIn(Tail(stmts), more)

(***************************************************************************)
(* Expressions and statements.                                             *)
(***************************************************************************)
RECURSIVE LogicalChain(_, _)
LogicalChain(op, e) ==
    IF e.k = "logic" /\ e.op = op
    THEN LogicalChain(op, e.lhs) \o LogicalChain(op, e.rhs) ELSE <<e>>

(* The end of an arm: unless it is terminated, jump to the merge block     *)
(* with its value and the carried names.                                   *)
JumpToMerge(c, merge, names) ==
    SetTerm(c, Jump(Target(merge, <<c.val>> \o CurrentLoopArgs(c, names))))

JoinMerge(c, merge, names) ==
    IF HasTerm(c) THEN c ELSE JumpToMerge(c, merge, names)

(* Open the merge block: the result parameter, then the carried names,     *)
(* bound in the scopes of before the arms.                                 *)
OpenMerge(c, merge, ty, saved, names, dead) ==
    LET result == AddParam([c EXCEPT !.locals = saved], merge, ty)
        carried == AddParams(result, merge, ScopedNames(result, names))
        opened == [SwitchTo(carried, merge) EXCEPT !.val = result.val]
    IN  IF dead THEN SetTerm(opened, Unreachable) ELSE opened

(* After a jump out of the block: an unreachable block for what follows.   *)
DeadBlock(c) ==
    SetTerm(SwitchTo(NewBlocks(c, 1), Len(c.blocks) + 1), Unreachable)

(* The arms an ADT match dispatches to: up to the first catch-all, and one *)
(* per constructor.                                                        *)
RECURSIVE KeptArms(_, _)
KeptArms(arms, kept) ==
    IF arms = <<>> THEN kept
    ELSE IF Head(arms).ctor = Wild THEN Append(kept, Head(arms))
    ELSE IF \E i \in DOMAIN kept : kept[i].ctor = Head(arms).ctor
         THEN KeptArms(Tail(arms), kept)
         ELSE KeptArms(Tail(arms), Append(kept, Head(arms)))

RECURSIVE LowerExpr(_, _), LowerTerms(_, _, _, _, _), LowerStmts(_, _),
          LowerStmt(_, _), LowerArms(_, _, _), LowerCases(_, _, _)

LowerLogic(e, c) ==
    LET terms == LogicalChain(e.op, e)
        first == LowerExpr(terms[1], c)
        short == Len(first.blocks) + 1
        merge == short + 1
        last == LowerTerms(e.op, Tail(terms), short, merge, NewBlocks(first, 2))
        joined == IF HasTerm(last) THEN last
                  ELSE SetTerm(last, Jump(Target(merge, <<last.val>>)))
        const == Push(SwitchTo(joined, short), "const",
                      IF e.op = "or" THEN 1 ELSE 0, <<>>, {}, "bool")
        back == SetTerm(const, Jump(Target(merge, <<const.val>>)))
    IN  SwitchTo(AddParam(back, merge, "bool"), merge)

LowerTerms(op, terms, short, merge, c) ==
    IF terms = <<>> THEN c
    ELSE LET next == Target(Len(c.blocks) + 1, <<>>)
             skip == Target(short, <<>>)
             branch == SetTerm(NewBlocks(c, 1),
                               IF op = "and" THEN Branch(c.val, next, skip)
                               ELSE Branch(c.val, skip, next))
         IN  LowerTerms(op, Tail(terms), short, merge,
                        LowerExpr(Head(terms), SwitchTo(branch, next.block)))

LowerIf(e, c) ==
    LET names == Assigned(e.else, Assigned(e.then, <<>>))
        saved == c.locals
        cond == LowerExpr(e.cond, c)
        then == Len(cond.blocks) + 1
        else == then + 1
        merge == then + 2
        branch == SetTerm(NewBlocks(cond, 3),
                          Branch(cond.val, Target(then, <<>>), Target(else, <<>>)))
        thenEnd == LowerExpr(e.then, SwitchTo(branch, then))
        joined == JoinMerge(thenEnd, merge, names)
        elseEnd == LowerExpr(e.else, SwitchTo([joined EXCEPT !.locals = saved], else))
        ty == IF ~HasTerm(thenEnd) THEN thenEnd.vals[thenEnd.val]
              ELSE IF ~HasTerm(elseEnd) THEN elseEnd.vals[elseEnd.val] ELSE "never"
    IN  OpenMerge(JoinMerge(elseEnd, merge, names), merge, ty, saved, names,
                  HasTerm(thenEnd) /\ HasTerm(elseEnd))

(* What an arm of a match needs to know about it.                          *)
MatchCtx(scr, tag, merge, fallback, saved, names) ==
    [scr |-> scr, tag |-> tag, merge |-> merge, fallback |-> fallback,
     saved |-> saved, names |-> names]

LowerMatchAdt(e, c) ==
    LET scr == Push(c, "ask", e.tag, <<>>, Variants, "adt")
        kept == KeptArms(e.arms, <<>>)
        n == Len(kept)
        names == AssignedIn([i \in 1..Len(e.arms) |-> Do(e.arms[i].body)], <<>>)
        merge == Len(scr.blocks) + 1
        wild == kept[n].ctor = Wild
        cases == [i \in 1..(IF wild THEN n - 1 ELSE n) |->
                     [ctor |-> kept[i].ctor, to |-> Target(merge + i, <<>>)]]
        default == IF wild THEN <<Target(merge + n, <<>>)>> ELSE <<>>
        fallback == IF wild THEN merge + n ELSE merge + n + 1
        switch == SetTerm(NewBlocks(scr, fallback - merge + 1),
                          Switch(scr.val, cases, default))
        blocks == [i \in 1..n |-> [arm |-> kept[i], block |-> merge + i]]
        arms == LowerArms(blocks,
                          MatchCtx(scr.val, e.tag, merge, fallback, c.locals, names),
                          [c |-> switch, ty |-> "never"])
        closed == IF wild THEN arms.c
                  ELSE SetTerm(SwitchTo(arms.c, fallback), Unreachable)
    IN  OpenMerge(closed, merge, arms.ty, c.locals, names, arms.ty = "never")

(* The pattern of an arm: the field, the literal compared with it, the     *)
(* name bound to it.                                                       *)
BindArm(arm, m, c) ==
    LET field == Push(c, "field", 0, <<m.scr>>, {}, "int")
        eq == Push(field, "ask", m.tag, <<>>, {0, 1}, "bool")
        next == Len(eq.blocks) + 1
    IN  CASE arm.ctor = Wild /\ arm.bind # "" -> DefineLocal(c, arm.bind, m.scr)
          [] arm.ctor # Wild /\ arm.lit ->
                SwitchTo(SetTerm(NewBlocks(eq, 1),
                             Branch(eq.val, Target(next, <<>>), Target(m.fallback, <<>>))),
                         next)
          [] arm.ctor # Wild /\ ~arm.lit /\ arm.bind # "" ->
                DefineLocal(field, arm.bind, field.val)
          [] OTHER -> c

(* The end of an arm; ty is the type of the arms that reach the merge      *)
(* block ("never" while there is none).                                    *)
ArmEnd(m, ty, end) ==
    IF HasTerm(end) THEN [c |-> PopLocals(end), ty |-> ty]
    ELSE [c |-> PopLocals(JumpToMerge(end, m.merge, m.names)), ty |-> end.vals[end.val]]

LowerArms(blocks, m, acc) ==
    IF acc.c.cur = 0 \/ blocks = <<>> THEN acc
    ELSE LET arm == Head(blocks).arm
             c == SwitchTo([acc.c EXCEPT !.locals = m.saved], Head(blocks).block)
         IN  LowerArms(Tail(blocks), m,
                 ArmEnd(m, acc.ty, LowerExpr(arm.body, BindArm(arm, m, PushLocals(c)))))

LowerMatchSequential(e, c) ==
    LET scr == Push(c, "call", e.tag, <<>>, {}, "int")
        names == AssignedIn([i \in 1..Len(e.arms) |-> Do(e.arms[i].body)], <<>>)
        merge == Len(scr.blocks) + 1
        arms == LowerCases(e.arms, MatchCtx(scr.val, e.tag, merge, 0, c.locals, names),
                           [c |-> NewBlocks(scr, 1), ty |-> "never"])
    IN  OpenMerge(arms.c, merge, arms.ty, c.locals, names, arms.ty = "never")

(* A literal arm compares and branches, to the next arm or, after the last *)
(* one, to an unreachable block; a catch-all ends the chain.               *)
LowerCases(arms, m, acc) ==
    LET arm == Head(arms)
        last == Len(arms) = 1
        c == [acc.c EXCEPT !.locals = m.saved]
        eq == Push(c, "ask", m.tag, <<>>, IF last THEN {1} ELSE {0, 1}, "bool")
        body == Len(eq.blocks) + 1
        next == body + 1
        branch == SetTerm(NewBlocks(eq, 2),
                          Branch(eq.val, Target(body, <<>>), Target(next, <<>>)))
        dead == IF last THEN SetTerm(SwitchTo(branch, next), Unreachable) ELSE branch
        BodyFrom(from) == ArmEnd(m, acc.ty, LowerExpr(arm.body, PushLocals(from)))
        GoOn(end) == IF last THEN end ELSE [end EXCEPT !.c = SwitchTo(@, next)]
    IN  IF acc.c.cur = 0 \/ arms = <<>> THEN acc
        ELSE IF arm.ctor = Wild THEN BodyFrom(c)
        ELSE LowerCases(Tail(arms), m, GoOn(BodyFrom(SwitchTo(dead, body))))

LowerReturn(e, c) ==
    LET v == LowerExpr(e.e, c)
    IN  AllocValue(DeadBlock(SetTerm(v, Returns(v.val))), "never")

LowerBlock(e, c) ==
    LET end == LowerStmts(e.stmts, PushLocals(c))
    IN  IF HasTerm(end) THEN PopLocals(AllocValue(end, "never"))
        ELSE PopLocals(LowerExpr(e.tail, end))

(* There is always a current block.  Looking at it first, here and in the  *)
(* lists of arms, has TLC evaluate the context before it goes down.        *)
LowerExpr(e, c) ==
    CASE c.cur = 0 -> c
      [] e.k = "none" -> PushUnit(c)
      [] e.k = "val" ->
            Push(c, "call", e.tag, CurrentLoopArgs(c, Variables), {}, e.ty)
      [] e.k = "test" -> Push(c, "ask", e.tag, <<>>, {0, 1}, "bool")
      [] e.k = "logic" -> LowerLogic(e, c)
      [] e.k = "if" -> LowerIf(e, c)
      [] e.k = "match" -> LowerMatchAdt(e, c)
      [] e.k = "cases" -> LowerMatchSequential(e, c)
      [] e.k = "block" -> LowerBlock(e, c)
      [] e.k = "return" -> LowerReturn(e, c)

(* Statements stop at the first block that is already terminated.          *)
LowerStmts(stmts, c) ==
    IF stmts = <<>> \/ HasTerm(c) THEN c
    ELSE LowerStmts(Tail(stmts), LowerStmt(Head(stmts), c))

(* The condition block, the body block and the exit block of a loop.       *)
LoopContext(cond, names) ==
    [continue |-> cond, break |-> cond + 2, names |-> names]

LowerLoopJumpBare(c, block, names) ==
    DeadBlock(SetTerm(c, Jump(Target(block, <<>>))))

(* break and continue pass the names the loop carries, as they stand.      *)
LowerLoopJump(c, block, names) ==
    DeadBlock(SetTerm(c, Jump(Target(block, CurrentLoopArgs(c, names)))))

EnterLoopStale(c, names) ==
    LET cond == Len(c.blocks) + 1
        jump == SetTerm(NewBlocks(c, 3),
                        Jump(Target(cond, CurrentLoopArgs(c, names))))
    IN  [SwitchTo(AddParams(jump, cond, ScopedNames(c, names)), cond)
            EXCEPT !.locals = c.locals]

(* From the jump into the condition block to the branch out of it.         *)
EnterLoop(c, names) ==
    LET cond == Len(c.blocks) + 1
        jump == SetTerm(NewBlocks(c, 3),
                        Jump(Target(cond, CurrentLoopArgs(c, names))))
    IN  SwitchTo(AddParams(jump, cond, ScopedNames(c, names)), cond)

BranchLoop(c, cond, names) ==
    IF HasTerm(c) THEN c
    ELSE SetTerm(c, Branch(c.val, Target(cond + 1, <<>>),
                           Target(cond + 2, CurrentLoopArgs(c, names))))

(* The back edge, and the exit block with the names the loop carried in.   *)
LeaveLoop(c, cond, names, carried) ==
    LET Exit(back) == SwitchTo(AddParams(back, cond + 2, carried), cond + 2)
    IN  IF HasTerm(c) THEN Exit(c)
        ELSE Exit(SetTerm(c, Jump(Target(cond, CurrentLoopArgs(c, names)))))

PushLoop(c, cond, names) ==
    [c EXCEPT !.loops = Append(@, LoopContext(cond, names))]
PopLoop(c) == [c EXCEPT !.loops = SubSeq(@, 1, Len(@) - 1)]

LowerWhile(stmt, c) ==
    LET names == Assigned(stmt.body, <<>>)
        cond == Len(c.blocks) + 1
        test == LowerExpr(stmt.cond, EnterLoop(c, names))
        body == SwitchTo(BranchLoop(test, cond, names), cond + 1)
        end == PopLoop(LowerExpr(stmt.body, PushLoop(body, cond, names)))
    IN  LeaveLoop(end, cond, names, ScopedNames(c, names))

(* A for loop also carries its hidden position, which the start of the     *)
(* body advances.                                                          *)
LowerFor(stmt, c) ==
    LET start == Push(c, "const", 0, <<>>, {}, "int")
        scope == DefineLocal(PushLocals(start), "for_current", start.val)
        names == <<"for_current">> \o Assigned(stmt.body, <<>>)
        cond == Len(scope.blocks) + 1
        test == Push(EnterLoop(scope, names), "ask", stmt.tag, <<>>, {0, 1}, "bool")
        body == PushLocals(PushLoop(SwitchTo(BranchLoop(test, cond, names), cond + 1),
                                    cond, names))
        next == Push(body, "const", 0, <<>>, {}, "int")
        end == LowerExpr(stmt.body, RebindLocal(next, "for_current", next.val))
    IN  PopLocals(LeaveLoop(PopLoop(PopLocals(end)), cond, names,
                            ScopedNames(scope, names)))

LowerStmt(stmt, c) ==
    CASE stmt.k = "let" ->
            LET v == LowerExpr(stmt.e, c) IN DefineLocal(v, stmt.n, v.val)
      [] stmt.k = "assign" ->
            LET v == LowerExpr(stmt.e, c) IN RebindLocal(v, stmt.n, v.val)
      [] stmt.k = "while" -> LowerWhile(stmt, c)
      [] stmt.k = "for" -> LowerFor(stmt, c)
      [] stmt.k \in {"break", "continue"} ->
            LET loop == c.loops[Len(c.loops)]
            IN  LowerLoopJump(c, IF stmt.k = "break" THEN loop.break ELSE loop.continue,
                              loop.names)
      [] stmt.k = "do" -> LowerExpr(stmt.e, c)

(* lower_function_bundle: an entry block, the body, the implicit return.   *)
Finished(c) ==
    [blocks |-> IF HasTerm(c) THEN c.blocks ELSE SetTerm(c, Returns(c.val)).blocks,
     vals |-> c.vals]

LowerFunction(body) ==
    Finished(LowerExpr(body, PushLocals(SwitchTo(NewBlocks(Empty, 1), 1))))
=============================================================================
