------------------------------- MODULE Queues -------------------------------
(***************************************************************************)
(* Programs on a MutablePriorityQueue.  The interpreter's, a heap that     *)
(* PriorityQueue shows to be one, is the sequence of its items in the      *)
(* order they were pushed.                                                 *)
(*                                                                         *)
(* Known to differ: a push on a queue whose priorities are neither Int nor *)
(* Float, which takes the priority of the parent for the direction of the  *)
(* queue (func.rs:8569, 19413).                                            *)
(***************************************************************************)
EXTENDS Backends, WasmLists
LOCAL INSTANCE SequencesExt

(***************************************************************************)
(* MutablePriorityQueue in the memory of a compiled program: a header (the *)
(* direction, the order of the next item, the list of items) and the list, *)
(* a binary heap of items (priority, value, order).                        *)
(***************************************************************************)

QueueHeader(direction, items) == [direction |-> direction, order |-> 0, items |-> items]
QueueNew(mem, direction) ==
  Answer(mem \o << Header(0, 0, 0), QueueHeader(direction, Len(mem) + 1) >>, Len(mem) + 2)

QueueItem(priority, value, order) == [priority |-> priority, value |-> value, order |-> order]

(* direction is 0 for the smallest first; whatever else it is, the largest is. *)
ShouldInsertBefore(direction, a, b) ==
  IF a.priority = b.priority THEN a.order < b.order
  ELSE IF direction = 0 THEN a.priority < b.priority ELSE a.priority > b.priority

SwapItems(mem, p, i, j) ==
  Write(Write(mem, mem[p].data + i, << Slot(mem, p, j) >>),
        mem[p].data + j, << Slot(mem, p, i) >>)

(* Up from i.  The local that has the direction is also the one an i32     *)
(* priority of the parent is loaded into (func.rs:8569, 19413).            *)
DirectionUp(direction, parent, words) == IF words THEN parent.priority ELSE direction
RECURSIVE SiftUp(_, _, _, _, _)
SiftUp(mem, p, i, direction, words) ==
  LET parent == (i - 1) \div 2
      seen   == DirectionUp(direction, Slot(mem, p, parent), words)
  IN  IF i = 0 THEN mem
      ELSE IF ShouldInsertBefore(seen, Slot(mem, p, i), Slot(mem, p, parent))
      THEN SiftUp(SwapItems(mem, p, i, parent), p, parent, seen, words)
      ELSE mem

InsertItem(mem, p, item) == MutableListPush(mem, p, item)
QueuePush(mem, q, priority, value, words) ==
  LET h    == mem[q]
      p    == h.items
      full == InsertItem(mem, p, QueueItem(priority, value, h.order))
  IN  [SiftUp(full, p, mem[p].len, h.direction, words) EXCEPT ![q].order = @ + 1]

BestChild(mem, p, i, direction) ==
  LET left == 2 * i + 1
  IN  IF left + 1 < mem[p].len /\
         ShouldInsertBefore(direction, Slot(mem, p, left + 1), Slot(mem, p, left))
      THEN left + 1 ELSE left
RECURSIVE SiftDown(_, _, _, _)
SiftDown(mem, p, i, direction) ==
  LET best == BestChild(mem, p, i, direction)
  IN  IF 2 * i + 1 >= mem[p].len THEN mem
      ELSE IF ShouldInsertBefore(direction, Slot(mem, p, best), Slot(mem, p, i))
      THEN SiftDown(SwapItems(mem, p, i, best), p, best, direction)
      ELSE mem

RemoveItem(mem, p, i) == RemoveSlotInPlace(mem, p, i)
QueuePeek(mem, q) ==
  LET p == mem[q].items
  IN  IF mem[p].len = 0 THEN None
      ELSE Some(<< Slot(mem, p, 0).priority, Slot(mem, p, 0).value >>)

(* The last item takes the place of the first and sinks. *)
QueuePop(mem, q) ==
  LET p    == mem[q].items
      last == mem[p].len - 1
  IN  CASE last = -1 -> mem
        [] last = 0 -> RemoveItem(mem, p, 0)
        [] OTHER -> SiftDown(RemoveItem(Write(mem, mem[p].data, << Slot(mem, p, last) >>),
                                        p, last), p, 0, mem[q].direction)

(***************************************************************************)
(* The programs                                                            *)
(***************************************************************************)
CONSTANTS
  QueuePriorities,   \* priorities, positive
  MaxItems           \* bound: the items in a queue

QueueSurfaces == {"int queues", "char queues"}
Directions == {0, 1}

QueuesInit ==
  \E part \in QueueSurfaces, direction \in Directions :
    /\ Starting(part)
    /\ refs = [queue |-> 1]
    /\ objects = << [direction |-> direction, items |-> << >>, next |-> 0] >>
    /\ memory = QueueNew(<< >>, direction).memory
    /\ pointers = [queue |-> QueueNew(<< >>, direction).out]

Queue == Object("queue")
Precedes(direction, a, b) ==
  \/ a.priority = b.priority /\ a.value < b.value
  \/ direction = 0 /\ a.priority < b.priority
  \/ direction = 1 /\ a.priority > b.priority
First(queue) ==
  CHOOSE i \in DOMAIN queue.items :
    \A j \in DOMAIN queue.items \ {i} : Precedes(queue.direction, queue.items[i], queue.items[j])

(* Every item has its own value, the number of the push. *)
PushItem(priority) ==
  /\ Len(Queue.items) < MaxItems
  /\ Edit("queue", [Queue EXCEPT !.items = Append(@, [priority |-> priority, value |-> Queue.next]),
                                 !.next = @ + 1],
          QueuePush(memory, pointers.queue, priority, Queue.next, surface = "char queues"))

Best == << Queue.items[First(Queue)].priority, Queue.items[First(Queue)].value >>
Misordered == surface = "char queues" /\ Queue.direction = 0 /\ Queue.next > 1
PeekItem ==
  Ask("peek", Misordered,
      Ok(<< IF Queue.items = << >> THEN None ELSE Some(Best), Len(Queue.items) >>),
      {Ok(<< QueuePeek(memory, pointers.queue), memory[memory[pointers.queue].items].len >>)}, memory)
PopItem ==
  IF Queue.items = << >>
  THEN Ask("pop", FALSE, Ok(None), {Ok(QueuePeek(memory, pointers.queue))}, memory)
  ELSE Change("pop", Misordered, "queue", [Queue EXCEPT !.items = Remove(@, @[First(Queue)])],
              Ok(Some(Best)), {Ok(QueuePeek(memory, pointers.queue))},
              QueuePop(memory, pointers.queue))

QueuesNext ==
  /\ surface \in QueueSurfaces
  /\ \/ \E priority \in QueuePriorities : PushItem(priority)
     \/ PeekItem \/ PopItem
=============================================================================
