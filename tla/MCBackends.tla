----------------------------- MODULE MCBackends -----------------------------
(***************************************************************************)
(* Small programs on each part of the library.                             *)
(***************************************************************************)
EXTENDS Strings, Lists, Tables, Bitsets, Queues, Seqs, Values, Numbers, HostCalls, Choices
LOCAL INSTANCE TLC

(* Characters of one to four bytes, spaces of one and three, both line ends. *)
MCLiterals == {<< >>, << 233, 97 >>, << 32, 8364, 12288 >>, << 97, 13, 10, 97 >>, << 10, 128512 >>}
MCStarts == {-1, 1, 5}

MCElements == {1, 11}
MCIndices == {-1, 1}
MCStartItems == {<< 1, 0 >>}

(* A table that was filled and emptied, and one whose keys share a bucket. *)
MCPrimitive == 0 .. 4
MCHashOf == [k \in Keys |-> k]
MCClassOf == [k \in Keys |-> k]
MCCapacities == {-1, 0, 2}
Churn(keys) == [i \in 1 .. 2 * Len(keys) |-> << i % 2 = 1, keys[(i + 1) \div 2] >>]
Put(keys) == [i \in DOMAIN keys |-> << TRUE, keys[i] >>]
MCHistories == {<< >>, Churn(<< 0, 1, 2 >>), Put(<< 0, 4, 1 >>), Put(<< 4, 0 >>) \o << << FALSE, 4 >> >>}

MCBitIndices == {-1, 0, 2, 3}

MCTexts == {<< >>, << 97, 44, 233 >>, << 97, 13, 10, 10 >>}
MCDelims == {<< >>, << 44 >>, << 97 >>}

(* Values of every shape that ==, compare, hash and show go through. *)
NameA == << 97 >>
NameA1 == << 97, 49 >>
NameB == << 98 >>
Point == RecordOf(<< NameB, NameA >>, << Whole, ListOf(Whole) >>)
Digits == RecordOf(<< NameA, NameA1 >>, << Whole, Text >>)
Nested == RecordOf(<< NameA, NameB >>, << Digits, Text >>)
Shape == AdtOf(<< << ListOf(Whole) >>, << Whole >>, << >> >>)
Maybe == AdtOf(<< << Whole, Text >>, << >> >>)
Tagged(tag, fields) == [tag |-> tag, fields |-> fields]
NumberLists == {<< >>, << 1 >>, << 1, 2 >>}
MCSamples == <<
  [type |-> Text, values |-> {<< >>, << 97 >>, << 97, 233 >>}],
  [type |-> Char, values |-> {97, 233}],
  [type |-> ListOf(Whole), values |-> NumberLists \cup {<< 2 >>}],
  [type |-> ListOf(ListOf(Whole)), values |-> {<< >>, << << >> >>, << << 1, 2 >> >>, << << 1 >>, << 2 >> >>}],
  [type |-> MutableListOf(Whole), values |-> NumberLists],
  [type |-> MutableListOf(Point), values |-> {<< << 1, << >> >> >>}],
  [type |-> ListOf(Maybe), values |->
     {<< >>, << Tagged(0, << 1, << 97 >> >>) >>, << Tagged(1, << >>), Tagged(1, << >>) >>}],
  [type |-> SetOf(Text), values |-> {<< >>, << << 98 >>, << 97 >> >>}],
  [type |-> MapOf(Whole, Text), values |-> {<< >>, << << 2, << 97 >> >>, << 1, << >> >> >>}],
  [type |-> MapOf(Whole, Maybe), values |-> {<< << 2, Tagged(1, << >>) >> >>}],
  [type |-> BitSetType, values |-> {[size |-> 0, bits |-> {}], [size |-> 3, bits |-> {0, 2}]}],
  [type |-> QueueType, values |-> {[direction |-> "max", len |-> 0], [direction |-> "min", len |-> 2]}],
  [type |-> Point, values |-> {<< 1, << >> >>, << 1, << 1 >> >>, << 2, << 1 >> >>}],
  [type |-> RecordOf(<< NameB, NameA >>, << Text, Whole >>),
   values |-> {<< << 97 >>, 1 >>, << << 98 >>, 1 >>, << << 97 >>, 2 >>}],
  [type |-> Digits, values |-> {<< 1, << 97 >> >>, << 2, << 97 >> >>, << 2, << 98 >> >>}],
  [type |-> Nested, values |-> {<< << 1, << 97 >> >>, << 97 >> >>, << << 1, << 97 >> >>, << 98 >> >>}],
  [type |-> Shape, values |-> {Tagged(0, << << >> >>), Tagged(0, << << 5 >> >>), Tagged(0, << << 5, 6 >> >>),
                               Tagged(1, << 7 >>), Tagged(2, << >>)}],
  [type |-> Maybe, values |-> {Tagged(0, << 1, << 97 >> >>), Tagged(0, << 1, << 98 >> >>), Tagged(1, << >>)}] >>

MCFloats == {Fin(n) : n \in -3 .. 3} \cup {Inf(1), Inf(-1), NaN}
MCRadixes == {-1, 1, 2, 10, 16, 36, 37}
MCDigitChars == {47, 48, 57, 58, 64, 65, 70, 90, 91, 96, 97, 122, 123, 233}

MCHostTexts == {<< 51 >>, << 49, 233 >>}
MCFileTexts == {<< >>, << 233 >>, << 97, 98, 99, 100, 101 >>}

MCSteps ==
  [part \in {"strings", "bool lists", "seqs", "ints", "floats", "chars"} |-> 2]
    @@ [part \in {"lists", "values", "host"} \cup MapSurfaces \cup SetSurfaces |-> 3]
    @@ [part \in {"bitsets", "options", "results"} |-> 4]
    @@ [part \in QueueSurfaces |-> 5]

(* Programs on a MutableSet of Strings alone. *)
MCSetSteps == [part \in DOMAIN MCSteps |-> IF part = "string sets" THEN 2 ELSE 0]

Init ==
  \/ StringsInit \/ ListsInit \/ TablesInit \/ BitsetsInit \/ QueuesInit
  \/ SeqsInit \/ ValuesInit \/ NumbersInit \/ HostInit \/ ChoicesInit
Next ==
  \/ StringsNext \/ ListsNext \/ TablesNext \/ BitsetsNext \/ QueuesNext
  \/ SeqsNext \/ ValuesNext \/ NumbersNext \/ HostNext \/ ChoicesNext
Spec == Init /\ [][Next]_programVars
=============================================================================
