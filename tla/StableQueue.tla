---------------------------- MODULE StableQueue -----------------------------
(***************************************************************************)
(* What a MutablePriorityQueue promises (RFC 0012): pop takes, and peek    *)
(* shows, the entry of the least (new_min) or greatest (new_max) priority, *)
(* and among equal priorities the one that was pushed first.               *)
(***************************************************************************)
EXTENDS Integers

CONSTANTS
  Priorities,  \* ranks of the priorities, under the user's Ord
  MaxPushes    \* bound on the pushes

VARIABLES
  direction,   \* "min" or "max"
  queue,       \* the entries in the queue
  pushes,      \* number of pushes so far
  answer       \* what the last pop or peek answered

NoEntry == [priority |-> 0, seq |-> -1]

\* x leaves the queue before y.
Precedes(x, y) ==
  \/ direction = "min" /\ x.priority < y.priority
  \/ direction = "max" /\ x.priority > y.priority
  \/ x.priority = y.priority /\ x.seq < y.seq

First(e) == e \in queue /\ \A f \in queue \ {e} : Precedes(e, f)

Init ==
  /\ direction \in {"min", "max"}
  /\ queue = {}
  /\ pushes = 0
  /\ answer = NoEntry

Push(p) ==
  /\ pushes < MaxPushes
  /\ queue' = queue \cup {[priority |-> p, seq |-> pushes]}
  /\ pushes' = pushes + 1
  /\ UNCHANGED <<direction, answer>>

Pop ==
  /\ \/ queue = {} /\ answer' = NoEntry /\ UNCHANGED queue
     \/ \E e \in queue : First(e) /\ answer' = e /\ queue' = queue \ {e}
  /\ UNCHANGED <<direction, pushes>>

Peek ==
  /\ \/ queue = {} /\ answer' = NoEntry
     \/ \E e \in queue : First(e) /\ answer' = e
  /\ UNCHANGED <<direction, queue, pushes>>

Next == (\E p \in Priorities : Push(p)) \/ Pop \/ Peek

Spec == Init /\ [][Next]_<<direction, queue, pushes, answer>>
=============================================================================
