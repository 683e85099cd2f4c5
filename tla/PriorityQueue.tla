---------------------------- MODULE PriorityQueue ----------------------------
(***************************************************************************)
(* The binary heap behind MutablePriorityQueue.  Between two steps of a    *)
(* push or a pop the user's compare runs, and it may fail; positions count *)
(* from 1.                                                                 *)
(***************************************************************************)
EXTENDS Integers, Sequences

CONSTANTS
  Priorities,  \* ranks of the priorities, under the user's Ord
  MaxPushes    \* bound on the pushes

ASSUME PrioritiesAssumption == Priorities \subseteq Int /\ MaxPushes \in Nat

VARIABLES
  direction,   \* "min" or "max"
  entries,     \* the heap
  nextSeq,     \* next_seq
  pc,          \* "idle", "up", "down", or "failed" when the program has ended
  idx,         \* the position bubbling is at
  taken,       \* the root a pop has taken out and not yet returned
  answer       \* what the last pop or peek returned

queueVars == <<direction, entries, nextSeq, pc, idx, taken, answer>>

NoEntry == [priority |-> 0, seq |-> -1]

\* Mutant: equal priorities have no order.
BetterIgnoresSeq(x, y) ==
  \/ direction = "min" /\ x.priority < y.priority
  \/ direction = "max" /\ x.priority > y.priority

\* priority_queue_is_better
Better(x, y) ==
  \/ direction = "min" /\ x.priority < y.priority
  \/ direction = "max" /\ x.priority > y.priority
  \/ x.priority = y.priority /\ x.seq < y.seq

Swap(i, j) == entries' = [entries EXCEPT ![i] = entries[j], ![j] = entries[i]]

QueueInit ==
  /\ direction \in {"min", "max"}
  /\ entries = <<>>
  /\ nextSeq = 0
  /\ pc = "idle"
  /\ idx = 0
  /\ taken = NoEntry
  /\ answer = NoEntry

Push(p) ==
  /\ pc = "idle"
  /\ nextSeq < MaxPushes
  /\ entries' = Append(entries, [priority |-> p, seq |-> nextSeq])
  /\ nextSeq' = nextSeq + 1
  /\ pc' = "up"
  /\ idx' = Len(entries) + 1
  /\ UNCHANGED <<direction, taken, answer>>

BubbleUp ==
  /\ pc = "up"
  /\ LET parent == idx \div 2
     IN  IF idx > 1 /\ Better(entries[idx], entries[parent])
           THEN Swap(idx, parent) /\ idx' = parent /\ UNCHANGED pc
           ELSE pc' = "idle" /\ idx' = 0 /\ UNCHANGED entries
  /\ UNCHANGED <<direction, nextSeq, taken, answer>>

\* The last entry takes the place of the root.
Pop ==
  /\ pc = "idle"
  /\ LET n == Len(entries)
     IN  \/ /\ n <= 1
            /\ answer' = IF n = 0 THEN NoEntry ELSE entries[1]
            /\ entries' = <<>>
            /\ UNCHANGED <<pc, idx, taken>>
         \/ /\ n > 1
            /\ taken' = entries[1]
            /\ entries' = [i \in 1..(n - 1) |-> IF i = 1 THEN entries[n] ELSE entries[i]]
            /\ pc' = "down"
            /\ idx' = 1
            /\ UNCHANGED answer
  /\ UNCHANGED <<direction, nextSeq>>

BubbleDown ==
  /\ pc = "down"
  /\ LET n == Len(entries)
         left == 2 * idx
         right == left + 1
         best == IF right <= n /\ Better(entries[right], entries[left]) THEN right ELSE left
     IN  IF left <= n /\ Better(entries[best], entries[idx])
           THEN Swap(idx, best) /\ idx' = best /\ UNCHANGED <<pc, taken, answer>>
           ELSE /\ pc' = "idle" /\ idx' = 0 /\ answer' = taken /\ taken' = NoEntry
                /\ UNCHANGED entries
  /\ UNCHANGED <<direction, nextSeq>>

Peek ==
  /\ pc = "idle"
  /\ answer' = IF entries = <<>> THEN NoEntry ELSE entries[1]
  /\ UNCHANGED <<direction, entries, nextSeq, pc, idx, taken>>

\* The user's compare fails; the error ends the program.
CompareFails ==
  /\ \/ pc = "up" /\ idx > 1
     \/ pc = "down" /\ 2 * idx <= Len(entries)
  /\ pc' = "failed"
  /\ UNCHANGED <<direction, entries, nextSeq, idx, taken, answer>>

QueueNext ==
  \/ \E p \in Priorities : Push(p)
  \/ BubbleUp \/ Pop \/ BubbleDown \/ Peek \/ CompareFails

QueueSpec == QueueInit /\ [][QueueNext]_queueVars

---------------------------------------------------------------------------
HeapEntries == [priority : Priorities, seq : 0..(MaxPushes - 1)]

\* Variables have their types, bubbling stays inside the heap, and no two
\* entries, the taken one included, have the same sequence number.
TypeOK ==
  /\ direction \in {"min", "max"}
  /\ entries \in Seq(HeapEntries)
  /\ nextSeq \in 0..MaxPushes
  /\ pc \in {"idle", "up", "down", "failed"}
  /\ idx \in 0..Len(entries) /\ (pc \in {"up", "down"} => idx > 0) /\ (pc = "idle" => idx = 0)
  /\ taken \in HeapEntries \cup {NoEntry} /\ (pc = "down" => taken # NoEntry) /\ (pc \in {"idle", "up"} => taken = NoEntry)
  /\ answer \in HeapEntries \cup {NoEntry}
  /\ \A i \in DOMAIN entries : entries[i].seq < nextSeq /\ entries[i].seq # taken.seq
  /\ \A i, j \in DOMAIN entries : entries[i].seq = entries[j].seq => i = j

\* Where the heap order may be broken while an entry is on its way.
Hole(i) ==
  \/ pc = "up" /\ i = idx
  \/ pc = "down" /\ i \div 2 = idx

\* No entry is better than its parent, except across the hole, and across the
\* hole none is better than its grandparent: the order push and pop rely on.
HeapOrdered ==
  pc # "failed" =>
    \A i \in 2..Len(entries) :
      /\ ~Hole(i) => ~Better(entries[i], entries[i \div 2])
      /\ idx > 1 /\ i \div 2 = idx => ~Better(entries[i], entries[idx \div 2])

\* The heap is a queue that is stable among equal priorities (RFC 0012: "Equal
\* priorities are resolved by insertion order"), for both directions and also
\* when pushes and pops alternate.
Abstract ==
  INSTANCE StableQueue WITH
    queue <- {entries[i] : i \in DOMAIN entries} \cup ({taken} \ {NoEntry}),
    pushes <- nextSeq

RefinesStableQueue == Abstract!Spec
=============================================================================
