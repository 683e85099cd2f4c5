------------------------------- MODULE Strings -------------------------------
(***************************************************************************)
(* Programs on strings: refs has the text of each variable, and the        *)
(* compiled program a node of WasmStrings.  The two routines that read a   *)
(* node without flattening it (func.rs:4224, 4429) are known to differ on  *)
(* operands that are not flat.                                             *)
(***************************************************************************)
EXTENDS Backends, WasmStrings

CONSTANTS
  Variables,     \* the number of variables
  Literals,      \* the texts of the literals
  Starts         \* the indices the program uses

Vars == 1 .. Variables

StringsInit ==
  /\ Starting("strings")
  /\ refs \in [Vars -> Literals]
  /\ objects = << >>
  /\ memory = [v \in Vars |-> Flat(Encode(refs[v]), Len(refs[v]))]
  /\ pointers = [v \in Vars |-> v]

Concat(v, a, b) ==
  Store(v, TextConcat(refs[a], refs[b]), StringConcat(memory, pointers[a], pointers[b]))

Substring(v, a, from, to) ==
  Store(v, TextSubstring(refs[a], from, to), StringSubstring(memory, pointers[a], from, to))

Trim(v, a) == Store(v, TextTrim(refs[a]), StringTrim(memory, pointers[a]))

(* The first character, as a string; and the list of the characters, joined. *)
OfChar(v, a) ==
  /\ refs[a] # << >>
  /\ Store(v, TextOfChar(refs[a][1]), CharToString(memory, refs[a][1]))

OfChars(v, a) ==
  Store(v, TextChars(refs[a]),
        StringFromCharList(SeqCharsToList(memory, pointers[a]).memory,
                           SeqCharsToList(memory, pointers[a]).out))

Length(a) == Ask("length", FALSE, Ok(TextLen(refs[a])), {Ok(StringLen(memory, pointers[a]))}, memory)

Compare(a, b) ==
  AskRoutine("compare", TextCompare(refs[a], refs[b]),
             StringCompare(memory, pointers[a], pointers[b]))

Contained(a, b) ==
  AskRoutine("contains", TextContains(refs[a], refs[b]),
             StringContains(memory, pointers[a], pointers[b]))

StartsWith(a, b) ==
  AskRoutine("starts_with", TextStartsWith(refs[a], refs[b]),
             StringStartsWith(memory, pointers[a], pointers[b]))

StartsWithFrom(a, b, from) ==
  Ask("starts_with_from", Unflattened(memory, pointers[a], pointers[b]),
      Ok(TextStartsWithFrom(refs[a], refs[b], from)),
      StringStartsWithFrom(memory, pointers[a], pointers[b], from), memory)

EndsWith(a, b) ==
  Ask("ends_with", Unflattened(memory, pointers[a], pointers[b]),
      Ok(TextEndsWith(refs[a], refs[b])),
      StringEndsWith(memory, pointers[a], pointers[b]), memory)

Index(a, n) ==
  Ask("index", FALSE, TextIndex(refs[a], n), {StringIndex(memory, pointers[a], n).out},
      StringIndex(memory, pointers[a], n).memory)

Hash(a) ==
  Ask("hash", FALSE, Ok(TextHash(refs[a], HashModulus)),
      {Ok(StringHashMix(memory, pointers[a], 1))}, memory)

(* The parts of a string, as the bytes and the character count of each. *)
Parts(given) ==
  Answer(given.memory, [i \in DOMAIN given.out |-> << given.out[i].bytes, given.out[i].chars >>])
Encoded(parts) == [i \in DOMAIN parts |-> << Encode(parts[i]), Len(parts[i]) >>]

Lines(a) ==
  AskRoutine("lines", Encoded(TextLines(refs[a])), Parts(SeqLinesToList(memory, pointers[a])))

Split(a, b) ==
  AskRoutine("split", Encoded(TextSplit(refs[a], refs[b])),
             Parts(SeqSplitToList(memory, pointers[a], pointers[b])))

ListChars(a) == AskRoutine("chars", TextChars(refs[a]), SeqCharsToList(memory, pointers[a]))

StringsNext ==
  /\ surface = "strings"
  /\ \E a, b \in Vars :
    \/ \E v \in Vars : Concat(v, a, b)
    \/ \E from, to \in Starts : Substring(b, a, from, to)
    \/ Trim(b, a)
    \/ OfChar(b, a)
    \/ OfChars(b, a)
    \/ Length(a)
    \/ Compare(a, b)
    \/ Contained(a, b)
    \/ StartsWith(a, b)
    \/ \E from \in Starts : StartsWithFrom(a, b, from)
    \/ EndsWith(a, b)
    \/ \E n \in Starts : Index(a, n)
    \/ Hash(a)
    \/ Lines(a)
    \/ Split(a, b)
    \/ ListChars(a)

-----------------------------------------------------------------------------
(* Whatever ropes, slices and forwarded nodes a string is made of, and     *)
(* however often they were flattened, its bytes are the interpreter's text *)
(* and its header has the lengths of that text (string.rs:322, 491;        *)
(* func.rs:17478, 5151).                                                   *)
StringsHoldTexts ==
  surface = "strings" =>
    \A v \in Vars :
      LET node == memory[pointers[v]]
      IN  /\ FlattenInto(memory, pointers[v]) = Encode(refs[v])
          /\ node.len = Len(Encode(refs[v]))
          /\ node.chars = Len(refs[v])
=============================================================================
