------------------------------- MODULE Bitsets ------------------------------
(***************************************************************************)
(* Programs on two BitSets, a MutableBitSet, and the values of it.         *)
(*                                                                         *)
(* Known to differ: the values of a MutableBitSet, which the interpreter   *)
(* takes when values is called and the compiled program when they are used *)
(* (func.rs:7557).                                                         *)
(***************************************************************************)
EXTENDS Backends, WasmLists, FiniteSets

(***************************************************************************)
(* BitSet and MutableBitSet of the interpreter (crates/eval/src/value.rs): *)
(* a size and words; a word is the set of its bits that are one.           *)
(***************************************************************************)

BitOperations == {"union", "intersection", "difference", "xor"}
Combine(op, a, b) ==
  CASE op = "union" -> a \cup b
    [] op = "intersection" -> a \cap b
    [] op = "difference" -> a \ b
    [] OTHER -> (a \ b) \cup (b \ a)
Toggled(change, word, bit) ==
  CASE change = "set" -> word \cup {bit}
    [] change = "reset" -> word \ {bit}
    [] OTHER -> Combine("xor", word, {bit})
BitChanges == {"set", "reset", "flip"}

BitSetNew(size) == [size |-> size, words |-> [w \in 1 .. WordsFor(size) |-> {}]]
BitInRange(bits, i) == i >= 0 /\ i < bits.size
BitTest(bits, i) == BitOf(i) \in bits.words[WordOf(i)]
BitCount(bits) == Cardinality({i \in 0 .. bits.size - 1 : BitTest(bits, i)})

(* A BitSet is a new value after each change; one that has the bit is itself. *)
BitSetChanged(bits, change, i) ==
  [bits EXCEPT !.words[WordOf(i)] = Toggled(change, @, BitOf(i))]

(* The bits of the last word that are in the set. *)
LastWordMask(size) == 1 .. (IF size % WordBits = 0 THEN WordBits ELSE size % WordBits)
BinaryOp(op, a, b) ==
  [a EXCEPT !.words = [w \in DOMAIN a.words |->
     LET word == Combine(op, a.words[w], b.words[w])
     IN  IF w = Len(a.words) THEN word \cap LastWordMask(a.size) ELSE word]]

RECURSIVE ValuesFrom(_, _)
ValuesFrom(bits, i) ==
  IF i >= bits.size THEN << >>
  ELSE (IF BitTest(bits, i) THEN << i >> ELSE << >>) \o ValuesFrom(bits, i + 1)
BitValues(bits) == ValuesFrom(bits, 0)

(***************************************************************************)
(* The programs                                                            *)
(***************************************************************************)
CONSTANTS
  BitSizes,     \* the sizes of the bit sets a program makes
  BitIndices    \* the indices it uses

(* The values of an object, as they were. *)
Taken(object, bits) == [object |-> object, listed |-> BitValues(bits)]

BitsetsInit ==
  \E n, m \in BitSizes :
    /\ Starting("bitsets")
    /\ refs = [bits |-> BitSetNew(n), other |-> BitSetNew(m), mutable |-> 1, values |-> Taken(1, BitSetNew(n))]
    /\ objects = << BitSetNew(n) >>
    /\ LET one == AllocZeroedBitset(<< >>, n)
           two == AllocZeroedBitset(one.memory, m)
           all == AllocZeroedBitset(two.memory, n)
       IN  /\ memory = all.memory
           /\ pointers = [bits |-> one.out, other |-> two.out, mutable |-> all.out,
                          values |-> all.out]

ChangeBit(v, change, i) ==
  IF ~BitInRange(refs[v], i) THEN Refused(change)
  ELSE Store(v, BitSetChanged(refs[v], change, i), BitsetUpdate(memory, pointers[v], change, i))
CombineBits(op) ==
  IF refs.bits.size # refs.other.size THEN Refused(op)
  ELSE Store("bits", BinaryOp(op, refs.bits, refs.other),
             BitsetBinaryOp(memory, pointers.bits, pointers.other, op))
AskBits(i) ==
  Ask("test", FALSE, IF BitInRange(refs.bits, i) THEN Ok(BitTest(refs.bits, i)) ELSE Fails,
      {BitsetTest(memory, pointers.bits, i)}, memory)
CountBits ==
  Ask("count", FALSE, Ok(<< BitCount(refs.bits), refs.bits.size, BitCount(refs.bits) = 0 >>),
      {Ok(<< BitsetCount(memory, pointers.bits), memory[pointers.bits].len,
             BitsetCount(memory, pointers.bits) = 0 >>)}, memory)

ThawBits == StoreObject("mutable", refs.bits, CloneBitset(memory, pointers.bits))
FreezeBits == Store("other", Object("mutable"), CloneBitset(memory, pointers.mutable))
ChangeMutableBit(change, i) ==
  IF ~BitInRange(Object("mutable"), i) THEN Refused(change)
  ELSE Edit("mutable", BitSetChanged(Object("mutable"), change, i),
            BitsetUpdateInPlace(memory, pointers.mutable, change, i))

(* With itself too. *)
CombineMutable(op) ==
  Edit("mutable", BinaryOp(op, Object("mutable"), Object("mutable")),
       BitsetBinaryInPlace(memory, pointers.mutable, pointers.mutable, op))

(* values: the words of now, or the pointer to the bit set. *)
TakeValues ==
  Store("values", Taken(refs.mutable, Object("mutable")), Answer(memory, pointers.mutable))
ListedBits(listed) == Items(listed.memory, listed.out)
ListValues ==
  Ask("values", refs.values.listed # BitValues(objects[refs.values.object]),
      Ok(refs.values.listed), {Ok(ListedBits(SeqToListBitsetValues(memory, pointers.values)))}, memory)

BitsetsNext ==
  /\ surface = "bitsets"
  /\ \/ \E v \in {"bits", "other"}, change \in BitChanges, i \in BitIndices : ChangeBit(v, change, i)
     \/ \E op \in BitOperations : CombineBits(op) \/ CombineMutable(op)
     \/ \E i \in BitIndices : AskBits(i)
     \/ Bind("other", "bits") \/ CountBits \/ ThawBits \/ FreezeBits \/ TakeValues \/ ListValues
     \/ \E change \in BitChanges, i \in BitIndices : ChangeMutableBit(change, i)

-----------------------------------------------------------------------------
WordsAt(p) == [w \in 1 .. memory[p].cap |-> Word(memory, p, w)]

(* Bit sets have the same words in both, so that no bit past the size is   *)
(* ever one although only the interpreter masks the last word, and a       *)
(* BitSet does not change with the MutableBitSet it was made of or for     *)
(* (func.rs:6885, 7173; value.rs:2393).                                    *)
BitsetsHoldBits ==
  surface = "bitsets" =>
    /\ \A v \in {"bits", "other"} :
         WordsAt(pointers[v]) = refs[v].words /\ memory[pointers[v]].len = refs[v].size
    /\ WordsAt(pointers.mutable) = Object("mutable").words
=============================================================================
