---------------------------- MODULE MCCollections ----------------------------
(***************************************************************************)
(* The interpreter's hashed and heap-ordered collections: a program uses   *)
(* either maps or a priority queue.                                        *)
(***************************************************************************)
EXTENDS PriorityQueue, Maps

\* Key x hashes to x, save 106 and 206, two representations of one value.
\* 3, 7 and -1 share the last slot of a table of four and probe into the
\* first, the home of 0; in a table of eight 7 and -1 still collide.
MCPrimitive == {3, 7, -1, 0}
MCOther == {106, 206}
MCHashOf == [k \in MCPrimitive \cup MCOther |-> IF k \in MCOther THEN 3 ELSE k]
MCClassOf == [k \in MCPrimitive \cup MCOther |-> IF k = 206 THEN 106 ELSE k]

\* One program fills and empties a MutableMap of primitive keys until its
\* table wraps, grows and is rebuilt; another moves both kinds of keys
\* between a MutableMap and a Map.
MCUses ==
  { [keys |-> {3, 7, -1, 0}, values |-> {1}, hints |-> {0, 3}, maps |-> FALSE, maxEntries |-> 6],
    [keys |-> {3, 7, 106, 206}, values |-> {1, 2}, hints |-> {0}, maps |-> TRUE, maxEntries |-> 3] }

\* A program without maps uses a queue.
NoMaps == [keys |-> {}, values |-> {}, hints |-> {}, maps |-> FALSE, maxEntries |-> 0]
Queueing == use = NoMaps

CollectionsInit ==
  /\ QueueInit
  /\ \/ MapsInit /\ direction = "min"
     \/ mutable = NoStorage(0) /\ persistent = PrimitiveMap(<<>>) /\ Queueing

CollectionsNext ==
  \/ Queueing /\ QueueNext /\ UNCHANGED mapVars
  \/ ~Queueing /\ MapsNext /\ UNCHANGED queueVars

CollectionsSpec == CollectionsInit /\ [][CollectionsNext]_<<queueVars, mapVars>>
=============================================================================
