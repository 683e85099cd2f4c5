----------------------------- MODULE MCRuntime -----------------------------
(***************************************************************************)
(* Three programs for Runtime.  "echo" reads a line and either prints it   *)
(* or enters a function that needs two capabilities and reads a file;      *)
(* "echo2" is an edit of it that prints another text and stops earlier;    *)
(* "mods" is a project whose imported module reads a file, and may fault,  *)
(* in a top-level let.  "bad" does not compile.                            *)
(***************************************************************************)
EXTENDS Runtime

MCPrograms == {"echo", "echo2", "mods", "bad"}
MCCapOf == [o \in Ops |-> IF o = "read_file" THEN "fs" ELSE "io"]

MCPoints == {"e0", "g0", "e1", "f1", "e2", "e3", "m0", "m1", "mf", "end", "fault"}

MCStart ==
  [p \in MCPrograms |-> CASE p = "mods" -> "m0" [] p = "echo2" -> "g0" [] OTHER -> "e0"]

Effect(o, t, l) == [kind |-> "effect", op |-> o, input |-> t, lets |-> l]

MCItemAt ==
  [x \in MCPoints |->
    CASE x \in {"e0", "g0"} -> Effect("read_line", "a", FALSE)
      [] x = "e1" -> Effect("print", "a", FALSE)
      [] x = "f1" -> Effect("print", "b", FALSE)
      [] x = "e2" -> [kind |-> "enter", fn |-> "save", caps |-> <<"fs", "io">>, lets |-> FALSE]
      [] x = "e3" -> Effect("read_file", "b", FALSE)
      [] x = "m0" -> Effect("read_file", "a", TRUE)
      [] x = "m1" -> Effect("print", "a", FALSE)
      [] x = "mf" -> [kind |-> "fault", lets |-> TRUE]
      [] x = "end" -> [kind |-> "exit", lets |-> FALSE]
      [] x = "fault" -> [kind |-> "fault", lets |-> FALSE]]

MCGoto ==
  [x \in MCPoints |-> [a \in Answers |->
    CASE x = "e0" -> IF a.text = "a" THEN "e1" ELSE "e2"
      [] x = "g0" -> IF a.text = "a" THEN "f1" ELSE "end"
      [] x = "e2" -> "e3"
      [] x = "e3" -> IF a.text = "a" THEN "end" ELSE "fault"
      [] x = "m0" -> IF a.text = "a" THEN "m1" ELSE "mf"
      [] OTHER -> "end"]]
=============================================================================
