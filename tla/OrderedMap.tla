----------------------------- MODULE OrderedMap -----------------------------
(***************************************************************************)
(* What Map and MutableMap promise a Kyokara program: an association list  *)
(* with one entry per key, in order of first insertion.  Inserting a key   *)
(* that is there replaces its value and keeps its place and the key        *)
(* itself; a key removed and inserted again goes to the end.               *)
(***************************************************************************)
EXTENDS Naturals, Sequences

CONSTANTS Keys, Values, ClassOf

VARIABLES
  mutable,     \* the contents of a MutableMap
  persistent   \* the contents of a Map

SameKey(j, k) == ClassOf[j] = ClassOf[k]

Put(s, k, v) ==
  IF \E i \in 1..Len(s) : SameKey(s[i].key, k)
  THEN [i \in 1..Len(s) |-> IF SameKey(s[i].key, k) THEN [s[i] EXCEPT !.value = v] ELSE s[i]]
  ELSE Append(s, [key |-> k, value |-> v])

Without(s, k) ==
  IF \E i \in 1..Len(s) : SameKey(s[i].key, k)
  THEN LET i == CHOOSE i \in 1..Len(s) : SameKey(s[i].key, k)
       IN  [j \in 1..(Len(s) - 1) |-> IF j < i THEN s[j] ELSE s[j + 1]]
  ELSE s

\* One insertion or removal makes t of s.
Edited(s, t) == \E k \in Keys : t = Without(s, k) \/ \E v \in Values : t = Put(s, k, v)

Init == mutable = <<>> /\ persistent = <<>>

Next ==
  \/ /\ UNCHANGED persistent
     /\ Edited(mutable, mutable') \/ mutable' = persistent \/ mutable' = <<>>
  \/ /\ UNCHANGED mutable
     /\ Edited(persistent, persistent') \/ persistent' = mutable

Spec == Init /\ [][Next]_<<mutable, persistent>>
=============================================================================
