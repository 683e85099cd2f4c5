---------------------------- MODULE SourceEval -----------------------------
(***************************************************************************)
(* How the interpreter runs a body: eval_expr and the functions it calls   *)
(* (eval/src/interpreter.rs).  An evaluation returns a ControlFlow (cf)    *)
(* with its value (v); Return, Break and Continue travel outwards through  *)
(* eval_propagate! and the statement loop of eval_block.  "stop" plays the *)
(* part of the Err the same code passes on with `?`: the run waits for an  *)
(* answer, or no pattern matched.                                          *)
(***************************************************************************)
EXTENDS Kir, FiniteSetsExt

Source(answers) ==
    Start(answers) @@ [env |-> <<>>, cf |-> "value", v |-> 0]

Value(s, v) == [s EXCEPT !.cf = "value", !.v = v]

ScopeOf(env, n) == Max({0} \cup {i \in DOMAIN env : n \in DOMAIN env[i]})

PushScope(s) == [s EXCEPT !.env = Append(@, <<>>)]
PopScope(s) == [s EXCEPT !.env = SubSeq(@, 1, Len(@) - 1)]
Bind(s, n, v) == [s EXCEPT !.env[Len(s.env)] = (n :> v) @@ @]

ReadNames(s) ==
    LET InScope(n) == ScopeOf(s.env, n) > 0
        names == SelectSeq(Variables, InScope)
    IN  [i \in DOMAIN names |-> s.env[ScopeOf(s.env, names[i])][names[i]]]

AskSource(s, tag, among) ==
    IF s.left = <<>>
    THEN [Waits(s, among) EXCEPT !.cf = "stop"]
    ELSE Value([Observe(s, tag, <<Head(s.left)>>) EXCEPT !.left = Tail(@)],
               Head(s.left))

RECURSIVE Eval(_, _), EvalStmts(_, _, _), EvalStmt(_, _), EvalWhile(_, _),
          EvalFor(_, _), EvalArms(_, _, _, _), EvalCases(_, _, _)

Eval(e, s) ==
    CASE e.k = "none" -> Value(s, 0)
      [] e.k = "val" ->
            Value(Observe(s, e.tag, ReadNames(s)), Stamp(s, e.tag))
      [] e.k = "test" -> AskSource(s, e.tag, {0, 1})
      [] e.k = "logic" ->
            LET l == Eval(e.lhs, s)
            IN  IF l.cf # "value" \/ l.v = (IF e.op = "and" THEN 0 ELSE 1)
                THEN l ELSE Eval(e.rhs, l)
      [] e.k = "if" ->
            LET c == Eval(e.cond, s)
            IN  IF c.cf # "value" THEN c
                ELSE Eval(IF c.v = 1 THEN e.then ELSE e.else, c)
      [] e.k = "match" ->
            LET c == AskSource(s, e.tag, Variants)
            IN  IF c.cf # "value" THEN c ELSE EvalArms(e.arms, e.tag, c.v, c)
      [] e.k = "cases" ->
            EvalCases(e.arms, e.tag, Observe(s, e.tag, <<>>))
      [] e.k = "block" ->
            LET body == EvalStmts(e.stmts, e.tail, PushScope(s))
            IN  PopScope(body)
      [] e.k = "return" ->
            LET v == Eval(e.e, s)
            IN  IF v.cf \in {"value", "return"} THEN [v EXCEPT !.cf = "return"]
                ELSE v

(* The statements of a block, then its tail.                               *)
EvalStmts(stmts, tail, s) ==
    IF stmts = <<>> THEN Eval(tail, s)
    ELSE LET r == EvalStmt(Head(stmts), s)
         IN  IF r.cf = "value" THEN EvalStmts(Tail(stmts), tail, r) ELSE r

EvalStmt(stmt, s) ==
    CASE stmt.k = "let" ->
            LET r == Eval(stmt.e, s)
            IN  IF r.cf = "value" THEN Bind(r, stmt.n, r.v) ELSE r
      [] stmt.k = "assign" ->
            LET r == Eval(stmt.e, s)
            IN  IF r.cf = "value"
                THEN [r EXCEPT !.env[ScopeOf(r.env, stmt.n)][stmt.n] = r.v]
                ELSE r
      [] stmt.k = "while" -> EvalWhile(stmt, s)
      [] stmt.k = "for" -> EvalFor(stmt, s)
      [] stmt.k = "break" -> [s EXCEPT !.cf = "break"]
      [] stmt.k = "continue" -> [s EXCEPT !.cf = "continue"]
      [] stmt.k = "do" -> Eval(stmt.e, s)

EvalWhile(stmt, s) ==
    LET c == Eval(stmt.cond, s)
    IN  IF c.cf # "value" THEN c
        ELSE IF c.v = 0 THEN Value(c, 0)
        ELSE LET b == Eval(stmt.body, c)
             IN  CASE b.cf \in {"value", "continue"} -> EvalWhile(stmt, Value(b, 0))
                   [] b.cf = "break" -> Value(b, 0)
                   [] OTHER -> b

(* One more element, or the end of the source: seq_for_each_control.       *)
EvalFor(stmt, s) ==
    LET c == AskSource(s, stmt.tag, {0, 1})
    IN  IF c.cf # "value" THEN c
        ELSE IF c.v = 0 THEN Value(c, 0)
        ELSE LET b == PopScope(Eval(stmt.body, PushScope(c)))
             IN  CASE b.cf \in {"value", "continue"} -> EvalFor(stmt, Value(b, 0))
                   [] b.cf = "break" -> Value(b, 0)
                   [] OTHER -> b

(* eval_match: the first arm whose pattern matches.  A literal inside the  *)
(* constructor pattern is one more comparison.                             *)
EvalArms(arms, tag, variant, s) ==
    IF arms = <<>> THEN [s EXCEPT !.st = "trap", !.cf = "stop"]
    ELSE LET arm == Head(arms)
             lit == IF arm.ctor = variant /\ arm.lit
                    THEN AskSource(s, tag, {0, 1}) ELSE Value(s, 1)
             bound == IF arm.bind = "" THEN PushScope(lit)
                      ELSE Bind(PushScope(lit), arm.bind, 90 + variant)
         IN  IF arm.ctor \notin {variant, Wild} THEN EvalArms(Tail(arms), tag, variant, s)
             ELSE IF lit.cf # "value" THEN lit
             ELSE IF lit.v = 0 THEN EvalArms(Tail(arms), tag, variant, lit)
             ELSE PopScope(Eval(arm.body, bound))

(* The same for literal patterns; without a wildcard the last one matches. *)
EvalCases(arms, tag, s) ==
    LET arm == Head(arms)
        eq == IF arm.ctor = Wild THEN Value(s, 1)
              ELSE AskSource(s, tag, IF Len(arms) = 1 THEN {1} ELSE {0, 1})
    IN  IF eq.cf # "value" THEN eq
        ELSE IF eq.v = 0 THEN EvalCases(Tail(arms), tag, eq)
        ELSE PopScope(Eval(arm.body, PushScope(eq)))

(* eval_fn_body_value: the value of the body is the value returned.        *)
RunSource(body, answers) ==
    LET r == Eval(body, Source(answers))
    IN  IF r.cf \in {"value", "return"}
        THEN [Observe(r, 0, <<r.v>>) EXCEPT !.st = "done"]
        ELSE r
=============================================================================
