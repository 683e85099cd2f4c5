----------------------------- MODULE WasmStrings -----------------------------
(***************************************************************************)
(* Texts, and the strings of a compiled program that stand for them.       *)
(* First a Rust String as the sequence of its characters, UTF-8, and the   *)
(* string operations of the interpreter (crates/eval/src/intrinsics.rs and *)
(* interpreter.rs); then the memory of a compiled program and the routines *)
(* on it.  Indices count from 0.                                           *)
(***************************************************************************)
EXTENDS Outcomes
LOCAL INSTANCE SequencesExt

CONSTANTS
  EagerMax,      \* SMALL_EAGER_STRING_CONCAT_MAX_BYTES
  HashModulus    \* the modulus of the integers a hash is computed in

(***************************************************************************)
(* The UTF-8 routines of the WebAssembly backend                           *)
(* (crates/codegen/src/wasm/func.rs, string.rs, seq.rs).  A character is   *)
(* its code point, a text a sequence of characters (the interpreter's      *)
(* Rust String) and an encoded text a sequence of bytes.  Byte indices     *)
(* count from 0, as in the code.                                           *)
(***************************************************************************)

Newline == 10
Return == 13

(* The width of a code point, and of the character that a lead byte opens. *)
CodepointWidth(c) ==
  CASE c < 128 -> 1 [] c >= 128 /\ c < 2048 -> 2
    [] c >= 2048 /\ c < 65536 -> 3 [] OTHER -> 4

LeadWidth(b) ==
  CASE b < 128 -> 1 [] b >= 128 /\ b < 224 -> 2
    [] b >= 224 /\ b < 240 -> 3 [] OTHER -> 4

WidthAt(bytes, i) == LeadWidth(bytes[i + 1])

(* The low six bits of c shifted right by six bits n times, as a continuation byte. *)
Continuation(c, n) == 128 + ((c \div (64 ^ n)) % 64)

StoreCodepoint(c) ==
  CASE CodepointWidth(c) = 1 -> << c >>
    [] CodepointWidth(c) = 2 -> << 192 + (c \div 64), Continuation(c, 0) >>
    [] CodepointWidth(c) = 3 ->
         << 224 + (c \div 4096), Continuation(c, 1), Continuation(c, 0) >>
    [] OTHER ->
         << 240 + (c \div 262144), Continuation(c, 2), Continuation(c, 1), Continuation(c, 0) >>

(* The bytes a Rust String holds for the text. *)
Encode(text) == FlattenSeq([i \in DOMAIN text |-> StoreCodepoint(text[i])])

(* The code point of width w whose lead byte is at i. *)
CodepointAt(bytes, i, w) ==
  LET Low(k) == bytes[i + k + 1] % 64
  IN  CASE w = 1 -> bytes[i + 1]
        [] w = 2 -> (bytes[i + 1] % 32) * 64 + Low(1)
        [] w = 3 -> (bytes[i + 1] % 16) * 4096 + Low(1) * 64 + Low(2)
        [] OTHER -> (bytes[i + 1] % 8) * 262144 + Low(1) * 4096 + Low(2) * 64 + Low(3)

(* The code points that str::trim removes, as the backend lists them. *)
TrimWhitespace ==
  (9 .. 13) \cup {32, 133, 160, 5760} \cup (8192 .. 8202)
    \cup {8232, 8233, 8239, 8287, 12288}

(* The byte index of the character with index n, and the one of a byte's character. *)
RECURSIVE ByteOfChar(_, _)
ByteOfChar(bytes, n) ==
  IF n = 0 THEN 0
  ELSE LET before == ByteOfChar(bytes, n - 1) IN before + WidthAt(bytes, before)

RECURSIVE LeadOf(_, _)
LeadOf(bytes, i) == IF bytes[i + 1] \div 64 # 2 THEN i ELSE LeadOf(bytes, i - 1)

(* The number of characters that the lead bytes between two indices announce. *)
RECURSIVE CountChars(_, _, _)
CountChars(bytes, from, to) ==
  IF from >= to THEN 0 ELSE 1 + CountChars(bytes, from + WidthAt(bytes, from), to)

(* The characters of an encoded text, as the loops over chars() read them. *)
RECURSIVE DecodeFrom(_, _)
DecodeFrom(bytes, i) ==
  IF i >= Len(bytes) THEN << >>
  ELSE << CodepointAt(bytes, i, WidthAt(bytes, i)) >> \o DecodeFrom(bytes, i + WidthAt(bytes, i))

(***************************************************************************)
(* The string operations of the interpreter                                *)
(***************************************************************************)
(* s[from..to] *)
Chars(s, from, to) == SubSeq(s, from + 1, to)

(* str::find: the first index at which needle occurs, -1 if there is none. *)
Find(s, needle) ==
  LET at == {i \in 0 .. Len(s) - Len(needle) : Chars(s, i, i + Len(needle)) = needle}
  IN  IF at = {} THEN -1 ELSE CHOOSE i \in at : \A j \in at : i <= j

TextConcat(s, t) == s \o t
TextLen(s) == Len(s)
TextContains(s, needle) == Find(s, needle) >= 0
TextStartsWith(s, prefix) == IsPrefix(prefix, s)
TextEndsWith(s, suffix) == IsSuffix(suffix, s)

TextStartsWithFrom(s, prefix, start) ==
  start >= 0 /\ start <= Len(s) /\ IsPrefix(prefix, Chars(s, start, Len(s)))

Clamp(i, top) == IF i < 0 THEN 0 ELSE IF i > top THEN top ELSE i

TextSubstring(s, start, end) == Chars(s, Clamp(start, Len(s)), Clamp(end, Len(s)))

(* str::trim *)
TextTrim(s) ==
  LET kept == {i \in DOMAIN s : s[i] \notin TrimWhitespace}
  IN  IF kept = {} THEN << >>
      ELSE SubSeq(s, CHOOSE i \in kept : \A j \in kept : i <= j,
                     CHOOSE i \in kept : \A j \in kept : j <= i)

TextOfChar(c) == << c >>

TextIndex(s, i) == IF i < 0 \/ i >= Len(s) THEN Fails ELSE Ok(s[i + 1])

(* String's order, as -1, 0 or 1. *)
TextCompare(s, t) ==
  LET differ == {i \in DOMAIN s \cap DOMAIN t : s[i] # t[i]}
      first  == CHOOSE i \in differ : \A j \in differ : i <= j
      Order(a, b) == IF a < b THEN -1 ELSE IF a > b THEN 1 ELSE 0
  IN  IF differ = {} THEN Order(Len(s), Len(t)) ELSE Order(s[first], t[first])

(* Hash.hash of a text: 31 * h + byte over its bytes, from the tag of strings, *)
(* in integers of modulus m.                                                   *)
HashMix(h, piece, m) == (31 * h + piece) % m
TextHash(s, m) == FoldLeft(LAMBDA h, b : HashMix(h, b, m), 1, Encode(s))

(***************************************************************************)
(* The parts of a text, one per pull: what the pull functions return (a    *)
(* part, or << >> when none is left) and where the next pull starts.       *)
(***************************************************************************)
Pull(parts, next) == [parts |-> parts, next |-> next]

NextStringLine(s, start) ==
  LET end == start + Find(Chars(s, start, Len(s)), << Newline >>)
      cut == IF end > start /\ s[end] = Return THEN end - 1 ELSE end
  IN  CASE start >= Len(s) -> Pull(<< >>, start)
        [] start < Len(s) /\ end >= start -> Pull(<< Chars(s, start, cut) >>, end + 1)
        [] OTHER -> Pull(<< Chars(s, start, Len(s)) >>, Len(s))

NextStringSplitPart(s, delim, start) ==
  LET end == start + Find(Chars(s, start, Len(s)), delim)
  IN  CASE start > Len(s) -> Pull(<< >>, start)
        [] start <= Len(s) /\ end >= start -> Pull(<< Chars(s, start, end) >>, end + Len(delim))
        [] OTHER -> Pull(<< Chars(s, start, Len(s)) >>, Len(s) + 1)

NextStringChar(s, start) ==
  IF start >= Len(s) THEN Pull(<< >>, start) ELSE Pull(<< s[start + 1] >>, start + 1)

RECURSIVE LinesFrom(_, _)
LinesFrom(s, start) ==
  LET pull == NextStringLine(s, start)
  IN  pull.parts \o (IF pull.parts = << >> THEN << >> ELSE LinesFrom(s, pull.next))

RECURSIVE SplitFrom(_, _, _)
SplitFrom(s, delim, start) ==
  LET pull == NextStringSplitPart(s, delim, start)
  IN  pull.parts \o (IF pull.parts = << >> THEN << >> ELSE SplitFrom(s, delim, pull.next))

RECURSIVE CharsFrom(_, _)
CharsFrom(s, start) ==
  LET pull == NextStringChar(s, start)
  IN  pull.parts \o (IF pull.parts = << >> THEN << >> ELSE CharsFrom(s, pull.next))

TextLines(s) == LinesFrom(s, 0)
TextChars(s) == CharsFrom(s, 0)

(* With an empty delimiter: nothing, every character, nothing. *)
TextSplit(s, delim) ==
  IF delim = << >>
  THEN << << >> >> \o [i \in DOMAIN s |-> << s[i] >>] \o << << >> >>
  ELSE SplitFrom(s, delim, 0)

(***************************************************************************)
(* Strings in the memory of a compiled program, and the routines on them   *)
(* (crates/codegen/src/wasm/func.rs, string.rs, seq.rs).                   *)
(*                                                                         *)
(* memory is the sequence of the nodes allocated so far and a pointer its  *)
(* index.  A node is flat (its bytes follow the header), or the sign bit   *)
(* of its length marks it as a rope (a pending concatenation), a slice of  *)
(* a flat node, or forwarded to the flat copy made of it.  chars is the    *)
(* header's character count.  A routine returns the memory it leaves and   *)
(* its result (out).                                                       *)
(***************************************************************************)
Flat(bytes, chars) == [rep |-> "flat", len |-> Len(bytes), chars |-> chars, bytes |-> bytes]
Rope(memory, l, r) ==
  [rep |-> "rope", len |-> memory[l].len + memory[r].len,
   chars |-> memory[l].chars + memory[r].chars, lhs |-> l, rhs |-> r]
Slice(base, start, len, chars) ==
  [rep |-> "slice", len |-> len, chars |-> chars, base |-> base, start |-> start]
Forwarded(node, flat) == [rep |-> "forward", len |-> node.len, chars |-> node.chars, to |-> flat]

EmptyString(memory) == Alloc(memory, Flat(<< >>, 0))

IsFlat(memory, p) == memory[p].rep = "flat"

(* The length without its sign bit. *)
ByteLength(memory, p) == memory[p].len

(* The bytes $string_flatten_into copies out of a node. *)
RECURSIVE FlattenInto(_, _)
FlattenInto(memory, p) ==
  LET node == memory[p]
  IN  CASE node.rep = "flat" -> node.bytes
        [] node.rep = "forward" -> memory[node.to].bytes
        [] node.rep = "slice" ->
             SubSeq(memory[node.base].bytes, node.start + 1, node.start + node.len)
        [] OTHER -> FlattenInto(memory, node.lhs) \o FlattenInto(memory, node.rhs)

(* $string_flatten: the flat copy, made once: the node is forwarded to it. *)
FlattenNode(memory, p) ==
  LET copy == Len(memory) + 1
  IN  [memory |-> Append([memory EXCEPT ![p] = Forwarded(memory[p], copy)],
                         Flat(FlattenInto(memory, p), memory[p].chars)),
       out |-> copy]

Flatten(memory, p) ==
  CASE memory[p].rep = "flat" -> [memory |-> memory, out |-> p]
    [] memory[p].rep = "forward" -> [memory |-> memory, out |-> memory[p].to]
    [] OTHER -> FlattenNode(memory, p)

(* The memory once p is flattened, and then q; and the bytes of both. *)
FlattenTwo(memory, p, q) ==
  LET first  == Flatten(memory, p)
      second == Flatten(first.memory, q)
  IN  [memory |-> second.memory, fst |-> second.memory[first.out].bytes,
       snd |-> second.memory[second.out].bytes]

FlatBytes(flattened) == flattened.memory[flattened.out].bytes

(***************************************************************************)
(* Routines that make strings.                                             *)
(***************************************************************************)
CopyBoth(pair, chars) == Alloc(pair.memory, Flat(pair.fst \o pair.snd, chars))

StringConcat(memory, l, r) ==
  CASE ByteLength(memory, l) = 0 -> Answer(memory, r)
    [] ByteLength(memory, l) # 0 /\ ByteLength(memory, r) = 0 -> Answer(memory, l)
    [] OTHER -> IF Rope(memory, l, r).len <= EagerMax
                THEN CopyBoth(FlattenTwo(memory, l, r), Rope(memory, l, r).chars)
                ELSE Alloc(memory, Rope(memory, l, r))

ClampedIndex(i, top) == IF i < 0 THEN 0 ELSE IF i > top THEN top ELSE i

\* Mutant: every character is taken for one byte.
ByteIndexOfAscii(node, n) == n

(* With as many bytes as characters, an index of a character is one of a byte. *)
ByteIndex(node, n) == IF node.len = node.chars THEN n ELSE ByteOfChar(node.bytes, n)

SliceOf(flat, from, to) ==
  LET node  == flat.memory[flat.out]
      start == ByteIndex(node, from)
  IN  IF from >= to THEN EmptyString(flat.memory)
      ELSE Alloc(flat.memory, Slice(flat.out, start, ByteIndex(node, to) - start, to - from))

StringSubstring(memory, p, start, end) ==
  SliceOf(Flatten(memory, p), ClampedIndex(start, memory[p].chars),
                              ClampedIndex(end, memory[p].chars))

CharToString(memory, c) == Alloc(memory, Flat(StoreCodepoint(c), 1))

StringFromCharList(memory, chars) ==
  Alloc(memory, Flat(FlattenSeq([i \in DOMAIN chars |-> StoreCodepoint(chars[i])]), Len(chars)))

(* The spaces at the front: where they end, and how many they are. *)
TrimCodepointAt(bytes, i) == CodepointAt(bytes, i, WidthAt(bytes, i))
TrimSpaceAt(bytes, i) == TrimCodepointAt(bytes, i) \in TrimWhitespace

RECURSIVE SkipSpaces(_, _, _)
SkipSpaces(bytes, i, count) ==
  IF i < Len(bytes) /\ TrimSpaceAt(bytes, i)
  THEN SkipSpaces(bytes, i + WidthAt(bytes, i), count + 1)
  ELSE [at |-> i, count |-> count]

(* Backwards from byte i, down to byte start: where the text ends, and the *)
(* spaces passed.                                                          *)
RECURSIVE DropSpaces(_, _, _, _)
DropSpaces(bytes, start, i, count) ==
  IF i > start /\ TrimSpaceAt(bytes, LeadOf(bytes, i - 1))
  THEN DropSpaces(bytes, start, LeadOf(bytes, i - 1), count + 1)
  ELSE [at |-> i, count |-> count]

TrimBetween(memory, node, front, back) ==
  Alloc(memory, Flat(SubSeq(node.bytes, front.at + 1, back.at),
                     node.chars - back.count - front.count))

TrimAfter(memory, node, front) ==
  IF front.at = node.len THEN EmptyString(memory)
  ELSE TrimBetween(memory, node, front, DropSpaces(node.bytes, front.at, node.len, 0))

TrimFlat(flat) ==
  TrimAfter(flat.memory, flat.memory[flat.out], SkipSpaces(FlatBytes(flat), 0, 0))

StringTrim(memory, p) == TrimFlat(Flatten(memory, p))

(***************************************************************************)
(* Routines that answer a question.  The ones that flatten their operands  *)
(* read the bytes of the flat copies.                                      *)
(***************************************************************************)
StringLen(memory, p) == memory[p].chars

(* Bytes in turn, then the lengths. *)
CompareBytes(a, b) ==
  LET differ == {i \in DOMAIN a \cap DOMAIN b : a[i] # b[i]}
      first  == CHOOSE i \in differ : \A j \in differ : i <= j
      less   == IF differ = {} THEN Len(a) < Len(b) ELSE a[first] < b[first]
  IN  IF less THEN -1 ELSE IF a = b THEN 0 ELSE 1

CompareFlat(pair) == Answer(pair.memory, CompareBytes(pair.fst, pair.snd))
StringCompare(memory, p, q) == CompareFlat(FlattenTwo(memory, p, q))

BytesAt(bytes, i, part) ==
  i + Len(part) <= Len(bytes) /\ SubSeq(bytes, i + 1, i + Len(part)) = part

ContainsFlat(pair) ==
  Answer(pair.memory, \/ pair.snd = << >>
                      \/ \E i \in 0 .. Len(pair.fst) - Len(pair.snd) :
                            BytesAt(pair.fst, i, pair.snd))
StringContains(memory, p, needle) == ContainsFlat(FlattenTwo(memory, p, needle))

StartsWithFlat(pair) == Answer(pair.memory, BytesAt(pair.fst, 0, pair.snd))
StringStartsWith(memory, p, prefix) == StartsWithFlat(FlattenTwo(memory, p, prefix))

IndexFlat(flat, n) ==
  Answer(flat.memory, Ok(TrimCodepointAt(FlatBytes(flat), ByteOfChar(FlatBytes(flat), n))))
StringIndex(memory, p, n) ==
  IF n < 0 \/ n >= memory[p].chars THEN Answer(memory, Fails)
  ELSE IndexFlat(Flatten(memory, p), n)

(* $string_hash_mix descends into a node and leaves it as it is. *)
RECURSIVE StringHashMix(_, _, _)
HashMixed(acc, piece) == (31 * acc + piece) % HashModulus
StringHashMix(memory, p, acc) ==
  LET node == memory[p]
      MixBytes(bytes) == FoldLeft(HashMixed, acc, bytes)
  IN  CASE node.rep = "flat" -> MixBytes(node.bytes)
        [] node.rep = "forward" -> StringHashMix(memory, node.to, acc)
        [] node.rep = "slice" -> MixBytes(FlattenInto(memory, p))
        [] OTHER -> StringHashMix(memory, node.rhs, StringHashMix(memory, node.lhs, acc))

(***************************************************************************)
(* Two routines read the header and the bytes of their operands without    *)
(* flattening them.  On a node that is not flat the length has its sign    *)
(* bit set, so it is above every flat length, and the bytes read are the   *)
(* words of the node: the outcomes a read of them allows.                  *)
(***************************************************************************)
Unflattened(memory, p, q) == ~IsFlat(memory, p) \/ ~IsFlat(memory, q)

StringEndsWith(memory, p, suffix) ==
  LET s == memory[p]
      t == memory[suffix]
  IN  CASE ~Unflattened(memory, p, suffix) ->
             {Ok(t.len <= s.len /\ BytesAt(s.bytes, s.len - t.len, t.bytes))}
        [] IsFlat(memory, p) /\ ~IsFlat(memory, suffix) -> {Ok(FALSE)}
        [] ~IsFlat(memory, p) /\ IsFlat(memory, suffix) -> IF t.len = 0 THEN {Ok(TRUE)} ELSE {Fails}
        [] OTHER -> IF t.len > s.len THEN {Ok(FALSE)} ELSE {Ok(FALSE), Fails}

StringStartsWithFrom(memory, p, prefix, start) ==
  LET s == memory[p]
      t == memory[prefix]
  IN  CASE start < 0 \/ start > s.chars -> {Ok(FALSE)}
        [] start \in 0 .. s.chars /\ ~Unflattened(memory, p, prefix) ->
             {Ok(BytesAt(s.bytes, ByteOfChar(s.bytes, start), t.bytes))}
        [] OTHER -> IF IsFlat(memory, p) THEN {Ok(FALSE)}
                    ELSE IF t.len = 0 THEN {Ok(TRUE)} ELSE {Ok(TRUE), Ok(FALSE), Fails}

(***************************************************************************)
(* Routines that list the parts of a string: the flat strings they store.  *)
(***************************************************************************)
StringRange(bytes, from, to) ==
  Flat(SubSeq(bytes, from + 1, to), CountChars(bytes, from, to))

RECURSIVE LinesOf(_, _, _)
LinesOf(bytes, start, i) ==
  CASE i >= Len(bytes) -> IF start < Len(bytes) THEN << StringRange(bytes, start, i) >> ELSE << >>
    [] i < Len(bytes) /\ bytes[i + 1] = Newline ->
         << StringRange(bytes, start, IF i > start /\ bytes[i] = Return THEN i - 1 ELSE i) >>
           \o LinesOf(bytes, i + 1, i + 1)
    [] OTHER -> LinesOf(bytes, start, i + 1)

SeqLinesToList(memory, p) ==
  LET flat == Flatten(memory, p) IN Answer(flat.memory, LinesOf(FlatBytes(flat), 0, 0))

RECURSIVE SplitChars(_, _)
SplitChars(bytes, i) ==
  IF i >= Len(bytes) THEN << >>
  ELSE << StringRange(bytes, i, i + WidthAt(bytes, i)) >> \o SplitChars(bytes, i + WidthAt(bytes, i))

RECURSIVE SplitOf(_, _, _, _)
SplitOf(bytes, delim, start, i) ==
  CASE i + Len(delim) > Len(bytes) -> << StringRange(bytes, start, Len(bytes)) >>
    [] i + Len(delim) <= Len(bytes) /\ BytesAt(bytes, i, delim) ->
         << StringRange(bytes, start, i) >>
           \o SplitOf(bytes, delim, i + Len(delim), i + Len(delim))
    [] OTHER -> SplitOf(bytes, delim, start, i + 1)

SplitFlat(pair) ==
  Answer(pair.memory,
         IF pair.snd = << >>
         THEN << Flat(<< >>, 0) >> \o SplitChars(pair.fst, 0) \o << Flat(<< >>, 0) >>
         ELSE SplitOf(pair.fst, pair.snd, 0, 0))
SeqSplitToList(memory, p, delim) == SplitFlat(FlattenTwo(memory, p, delim))

SeqCharsToList(memory, p) ==
  LET flat == Flatten(memory, p) IN Answer(flat.memory, DecodeFrom(FlatBytes(flat), 0))
=============================================================================
