----------------------------- MODULE MCCompile ------------------------------
(***************************************************************************)
(* The bodies compiled: every way to nest the constructs below to a depth, *)
(* with one deep arm per construct.  Tags tell the positions apart.        *)
(***************************************************************************)
EXTENDS Compile

CONSTANTS
    Depth,      \* how deep the statements of a body nest
    LoopDepth,  \* how deep the statements inside a loop nest
    Escapes     \* whether a match outside a loop may have arms that leave it

Do1(s) == Block(<<s>>, NoExpr)

SetX(t) == Assign("x", Val(t, "int"))
SetF(t) == Assign("f", Val(t, "bool"))

(* A condition of several terms, and an if used for its value.             *)
Chain(t) == Logic("and", Logic("or", Test(t), Test(t + 1)), Test(t + 2))
Pick(t) == Assign("x", If(Logic("or", Test(t), Test(t + 1)), Val(t + 2, "int"),
                          Block(<<SetF(t + 3)>>, Val(t + 4, "int"))))

(* Statements without parts: outside a loop, and inside one.               *)
Flat(t) == {SetX(t), SetF(t), Do(Return(Val(t, "int")))}
Jumps(t) == {SetX(t), Do(Return(Val(t, "int"))), Break, Continue}

(* Two arms, at most one of them deep; First: only the first one may be.   *)
First(deep, flat) == {<<Do1(a), Do1(b)>> : a \in deep, b \in flat}
Arms(deep, flat) == First(deep, flat) \cup {<<p[2], p[1]>> : p \in First(deep, flat)}

Ifs(t, arms) == {Do(If(Test(t), p[1], p[2])) : p \in arms}
Literals(t, arms) ==
    {Do(Cases(t, <<Arm(1, FALSE, "", p[1]), Arm(Wild, FALSE, "", p[2])>>)) : p \in arms}
Matches(t, arms) ==
    {Do(Match(t, <<Arm(1, FALSE, "", p[1]), Arm(2, FALSE, "", p[2])>>)) : p \in arms}
(* A literal inside the constructor pattern: the first arm may fall through *)
(* to the second.                                                          *)
Nested(t, arms) ==
    {Do(Match(t, <<Arm(1, TRUE, "", p[1]), Arm(Wild, FALSE, "", p[2])>>)) : p \in arms}

(* A loop repeats: some path of its body comes back to its condition.      *)
Again(t, a) ==
    Block(<<Do(If(Test(t), Do1(Continue), Block(<<>>, NoExpr))), a>>, NoExpr)

RECURSIVE Inside(_, _)
Inside(d, t) ==
    IF d = 0 THEN Jumps(t)
    ELSE LET deep == Inside(d - 1, 4 * t)
             flat == {SetX(4 * t + 2), Break, Continue}
             arms == Arms(deep, flat)
         IN  Jumps(t) \cup Ifs(t, arms) \cup Literals(t, First(deep, flat))
             \cup Matches(t, arms) \cup Nested(t, First(deep, flat))
             \cup {While(Chain(t), Again(4 * t + 3, a)) : a \in deep}

RECURSIVE Outside(_, _)
Outside(d, t) ==
    IF d = 0 THEN Flat(t) \cup {Pick(4 * t)}
    ELSE LET deep == Outside(d - 1, 4 * t)
             flat == Flat(4 * t + 2)
             keep == {SetX(4 * t), Pick(4 * t)}
             rest == {SetX(4 * t + 2), SetF(4 * t + 2)}
             looped == Inside(IF d = Depth THEN LoopDepth ELSE 0, 4 * t)
         IN  Flat(t) \cup Ifs(t, Arms(deep, flat)) \cup Literals(t, Arms(deep, flat))
             \cup Matches(t, Arms(IF Escapes THEN deep ELSE keep, rest))
             \cup Nested(t, First(IF Escapes THEN deep ELSE keep, rest))
             \cup {While(Test(t), Again(t + 1, a)) : a \in looped}
             \cup {For(t, Again(t + 1, a)) : a \in looped}

MCBodies ==
    {Block(<<Let("x", Val(1, "int")), Let("f", Val(2, "bool")), s>>, Val(3, "int")) :
        s \in Outside(Depth, 4)}
=============================================================================
