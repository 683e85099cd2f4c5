------------------------------ MODULE HostCalls -----------------------------
(***************************************************************************)
(* Programs on digests and on the host functions that read strings.  refs  *)
(* has the text of each variable.  Once compiled, the digest of a string   *)
(* that is not flat when the digest is first read is an error              *)
(* (lib.rs:1036), and so are md5(a + n) when a is a slice or has a digest  *)
(* that was read before (lib.rs:1113), and parse_float (func.rs:26108) and *)
(* fs.read_file (func.rs:6515) on a string that is not flat; a file larger *)
(* than the first buffer is read several times (func.rs:6565).             *)
(***************************************************************************)
EXTENDS Backends, WasmStrings, Numbers
LOCAL INSTANCE SequencesExt

(***************************************************************************)
(* The host functions that read the strings of a compiled program, and the *)
(* calls of them (crates/wasm-runtime/src/lib.rs,                          *)
(* crates/codegen/src/wasm/func.rs): digests, parsing, printing, files.    *)
(*                                                                         *)
(* "text".md5() only allocates a node that points to the string; the host  *)
(* computes the digest when the node is first read, and keeps it in the    *)
(* node (the source is then Inline).  memory[HostCell] is the state of the *)
(* host: the digest it computed last, and for which node.                  *)
(***************************************************************************)

DigestLen == 2       \* the length of a digest in hexadecimal, 32
Inline == -1         \* MD5_INLINE_DIGEST_SOURCE_PTR
HostCell == 1
Host(last) == [rep |-> "host", last |-> last]

(* The md5 crate: some function from bytes to digests; and a digest as text. *)
DigestOf(bytes) == FoldLeft(LAMBDA h, b : (31 * h + b) % 256, 7, bytes)
HexDigit(n) == IF n < 10 THEN 48 + n ELSE 87 + n
Md5HexBytes(digest) == << HexDigit(digest \div 16), HexDigit(digest % 16) >>
TextMd5(text) == Md5HexBytes(DigestOf(Encode(text)))

AllocGuestMd5String(mem, source) ==
  Alloc(mem, [rep |-> "md5", len |-> DigestLen, chars |-> DigestLen, source |-> source, digest |-> 0])

(* The digest of a node, if the host has it. *)
LookupCachedMd5Digest(mem, p) ==
  CASE mem[HostCell].last # << >> /\ mem[HostCell].last[1] = p -> Some(mem[HostCell].last[2])
    [] mem[p].rep = "md5" /\ mem[p].source = Inline -> Some(mem[p].digest)
    [] OTHER -> None
StoreCachedMd5Digest(mem, p, digest) ==
  [mem EXCEPT ![HostCell] = Host(<< p, digest >>),
                 ![p] = [mem[p] EXCEPT !.source = Inline, !.digest = digest]]

\* Mutant: a digest of the digest, not of its text.
RECURSIVE ApplyMd5HexRounds(_, _)
ApplyMd5Rounds(digest, rounds) ==
  IF rounds = 0 THEN digest ELSE ApplyMd5HexRounds(DigestOf(<< digest >>), rounds - 1)

ApplyMd5HexRounds(digest, rounds) ==
  IF rounds = 0 THEN digest ELSE ApplyMd5HexRounds(DigestOf(Md5HexBytes(digest)), rounds - 1)

(* From p along the sources, to a node whose digest is there or to a flat  *)
(* string.  Any other node on the way is an error.                         *)
Computed(mem, p, digest) == Answer(StoreCachedMd5Digest(mem, p, digest), Ok(digest))
RECURSIVE DigestAlong(_, _, _, _)
DigestAlong(mem, p, current, rounds) ==
  CASE LookupCachedMd5Digest(mem, current) # None ->
         Computed(mem, p, ApplyMd5HexRounds(LookupCachedMd5Digest(mem, current)[1], rounds))
    [] mem[current].rep = "flat" ->
         Computed(mem, p, ApplyMd5HexRounds(DigestOf(mem[current].bytes), rounds - 1))
    [] LookupCachedMd5Digest(mem, current) = None /\ mem[current].rep = "md5" ->
         DigestAlong(mem, p, mem[current].source, rounds + 1)
    [] OTHER -> Answer(mem, Fails)
ReadOrComputeMd5Digest(mem, p) == DigestAlong(mem, p, p, 0)

HexOf(read) == Answer(read.memory, IF Succeeds(read.out) THEN Ok(Md5HexBytes(Value(read.out))) ELSE Fails)
Md5Materialize(mem, p) == HexOf(ReadOrComputeMd5Digest(mem, p))

(* The parts of a string one after the other, each read in the memory that *)
(* the one before left.                                                    *)
Before(bytes, read) ==
  Answer(read.memory, IF Succeeds(read.out) THEN Ok(bytes \o Value(read.out)) ELSE Fails)

(* $string_flatten_into and $string_flatten, on every kind of string. *)
RECURSIVE ReadInto(_, _)
ReadBoth(left, right) ==
  IF Succeeds(left.out) THEN Before(Value(left.out), ReadInto(left.memory, right)) ELSE left
ReadInto(mem, p) ==
  CASE mem[p].rep = "md5" -> Md5Materialize(mem, p)
    [] mem[p].rep = "rope" -> ReadBoth(ReadInto(mem, mem[p].lhs), mem[p].rhs)
    [] OTHER -> Answer(mem, Ok(FlattenInto(mem, p)))
Forward(read, p) ==
  IF ~Succeeds(read.out) THEN read
  ELSE Answer(Append([read.memory EXCEPT ![p] = Forwarded(read.memory[p], Len(read.memory) + 1)],
                     Flat(Value(read.out), read.memory[p].chars)), Ok(Len(read.memory) + 1))
FlattenAny(mem, p) ==
  CASE mem[p].rep = "flat" -> Answer(mem, Ok(p))
    [] mem[p].rep = "forward" -> Answer(mem, Ok(mem[p].to))
    [] OTHER -> Forward(ReadInto(mem, p), p)

(* What the host feeds to MD5 for md5(text + n): not a slice, and not the  *)
(* digest of a node that has it (its source is negative).                  *)
RECURSIVE UpdateMd5FromGuestString(_, _)
UpdateBoth(left, right) ==
  IF Succeeds(left.out) THEN Before(Value(left.out), UpdateMd5FromGuestString(left.memory, right)) ELSE left
UpdateMd5FromGuestString(mem, p) ==
  CASE mem[p].rep = "flat" -> Answer(mem, Ok(mem[p].bytes))
    [] mem[p].rep = "forward" -> UpdateMd5FromGuestString(mem, mem[p].to)
    [] mem[p].rep = "md5" /\ mem[p].source # Inline -> Md5Materialize(mem, p)
    [] mem[p].rep = "rope" ->
         UpdateBoth(UpdateMd5FromGuestString(mem, mem[p].lhs), mem[p].rhs)
    [] OTHER -> Answer(mem, Fails)
UpdateMd5FromIntDecimal(digit) == << 48 + digit >>
AllocGuestCachedMd5String(mem, digest) ==
  Answer(StoreCachedMd5Digest(AllocGuestMd5String(mem, Inline).memory, Len(mem) + 1, digest),
         Len(mem) + 1)
DigestWithInt(read, digit) ==
  IF Succeeds(read.out)
  THEN AllocGuestCachedMd5String(read.memory, DigestOf(Value(read.out) \o UpdateMd5FromIntDecimal(digit)))
  ELSE Answer(read.memory, 0)
StringMd5ConcatInt(mem, p, digit) == DigestWithInt(UpdateMd5FromGuestString(mem, p), digit)

(* The questions the host answers about a digest that nobody flattened; an *)
(* error is FALSE, or the code of the error as a character.                *)
BadGuestMemory == 4
Md5Contains(read, needle) ==
  Answer(read.memory, Ok(Succeeds(read.out) /\ ContainsFlat([memory |-> read.memory, fst |-> Value(read.out), snd |-> needle]).out))
Md5StartsWith(read, prefix) ==
  Answer(read.memory, Ok(Succeeds(read.out) /\ BytesAt(Value(read.out), 0, prefix)))
Md5CharCode(read, i) ==
  Answer(read.memory, Ok(IF Succeeds(read.out) THEN Value(read.out)[i + 1] ELSE BadGuestMemory))

(* What main returned, read by the host once the program ended. *)
RECURSIVE ReadProgramString(_, _)
ReadProgramString(mem, p) ==
  CASE mem[p].rep = "forward" -> ReadProgramString(mem, mem[p].to)
    [] mem[p].rep = "md5" ->
         IF mem[p].source = Inline THEN Md5HexBytes(mem[p].digest)
         ELSE Md5HexBytes(DigestOf(ReadProgramString(mem, mem[p].source)))
    [] mem[p].rep = "rope" ->
         ReadProgramString(mem, mem[p].lhs) \o ReadProgramString(mem, mem[p].rhs)
    [] OTHER -> FlattenInto(mem, p)

(* fs.read_file: a path that is not flat is an error; the file is read     *)
(* again into a buffer twice as large until it fits.  How often.           *)
RECURSIVE Reads(_, _)
Reads(size, capacity) == IF size <= capacity THEN 1 ELSE 1 + Reads(size, 2 * capacity)
FsReadFile(mem, p, content, capacity) ==
  IF IsFlat(mem, p)
  THEN Ok(<< content, CountChars(content, 0, Len(content)), Reads(Len(content), capacity) >>)
  ELSE Fails

(* parse_int and parse_float: a value, or the error as a value.  parse_int *)
(* flattens the text; parse_float reads what is after the header whatever  *)
(* the node is, and traps when that is no text.                            *)
Parsed(number) == IF number = None THEN << "Err" >> ELSE << "Ok", number[1] >>
ParsedFloat(s) ==
  IF s # << >> /\ (\A i \in 1 .. Len(s) : IsDigit(s[i])) THEN Some(DigitsValue(s)) ELSE None
ParseInt(flat) ==
  Answer(flat.memory,
         IF Succeeds(flat.out) THEN Ok(Parsed(ParsedInt(DecodeFrom(flat.memory[Value(flat.out)].bytes, 0)))) ELSE Fails)
ParseFloat(mem, p) ==
  IF IsFlat(mem, p) THEN {Ok(Parsed(ParsedFloat(DecodeFrom(mem[p].bytes, 0))))}
  ELSE {Fails, Ok(Parsed(None))}

(***************************************************************************)
(* The programs                                                            *)
(***************************************************************************)
CONSTANTS
  HostTexts,       \* the texts of the literals
  FileTexts,       \* the contents of files
  ReadCapacity     \* WASM_READ_FILE_INITIAL_CAPACITY

Named == {1, 2}
Suffix == 3

HostInit ==
  /\ Starting("host")
  /\ refs \in [Named -> HostTexts]
  /\ objects = << >>
  /\ memory = << Host(<< >>) >> \o [v \in Named |-> Flat(Encode(refs[v]), Len(refs[v]))]
  /\ pointers = [v \in Named |-> v + 1]

(* A digest in the string whose source, when it is read, is neither flat   *)
(* nor a digest the host still has.                                        *)
RECURSIVE Unfollowed(_, _)
Unfollowed(m, p) ==
  LookupCachedMd5Digest(m, p) = None /\
    CASE m[p].rep = "md5" -> Unfollowed(m, m[p].source)
      [] m[p].rep = "flat" -> FALSE
      [] OTHER -> TRUE
RECURSIVE Unreadable(_, _)
Unreadable(m, p) ==
  CASE m[p].rep = "md5" -> Unfollowed(m, p)
    [] m[p].rep = "rope" ->
         Unreadable(m, m[p].lhs) \/ Unreadable(ReadInto(m, m[p].lhs).memory, m[p].rhs)
    [] OTHER -> FALSE

(* A slice, or a digest that was read, among the parts of the string. *)
RECURSIVE Unfed(_, _)
Unfed(m, p) ==
  CASE m[p].rep = "slice" -> TRUE
    [] m[p].rep = "md5" -> m[p].source = Inline \/ Unfollowed(m, p)
    [] m[p].rep = "rope" ->
         Unfed(m, m[p].lhs) \/ Unfed(UpdateMd5FromGuestString(m, m[p].lhs).memory, m[p].rhs)
    [] OTHER -> FALSE

ConcatTexts(v, a, b) ==
  Store(v, TextConcat(refs[a], refs[b]), StringConcat(memory, pointers[a], pointers[b]))
TakeSlice(v, a) ==
  /\ ~Unreadable(memory, pointers[a])
  /\ LET flat == FlattenAny(memory, pointers[a])
     IN  Store(v, TextSubstring(refs[a], 0, 1),
               SliceOf(Answer(flat.memory, Value(flat.out)), 0, ClampedIndex(1, memory[pointers[a]].chars)))
TakeDigest(v, a) == Store(v, TextMd5(refs[a]), AllocGuestMd5String(memory, pointers[a]))

(* On an error the host returns the address 0, of the first string made. *)
TakeDigestWithInt(v, a) ==
  LET made == StringMd5ConcatInt(memory, pointers[a], Suffix)
      text == TextMd5(refs[a] \o UpdateMd5FromIntDecimal(Suffix))
  IN  IF made.out # 0 THEN ~Unfed(memory, pointers[a]) /\ Store(v, text, made)
      ELSE Ask("md5", Unfed(memory, pointers[a]), Ok(text), {Ok(memory[HostCell + 1].bytes)}, made.memory)

PrintText(a) ==
  LET flat == FlattenAny(memory, pointers[a])
  IN  Ask("print", Unreadable(memory, pointers[a]), Ok(refs[a]),
          {IF Succeeds(flat.out) THEN Ok(DecodeFrom(flat.memory[Value(flat.out)].bytes, 0)) ELSE Fails},
          flat.memory)
ReturnText(a) ==
  Ask("result", FALSE, Ok(refs[a]), {Ok(DecodeFrom(ReadProgramString(memory, pointers[a]), 0))}, memory)

(* Questions on a digest that was not flattened; b is flat. *)
AskDigest(query, a, b, expected, given) ==
  /\ memory[pointers[a]].rep = "md5"
  /\ Ask(query, Unreadable(memory, pointers[a]), Ok(expected), {given.out}, given.memory)
DigestContains(a, b) ==
  /\ IsFlat(memory, pointers[b])
  /\ AskDigest("contains", a, b, TextContains(refs[a], refs[b]),
               Md5Contains(Md5Materialize(memory, pointers[a]), memory[pointers[b]].bytes))
DigestStartsWith(a, b) ==
  /\ IsFlat(memory, pointers[b])
  /\ AskDigest("starts_with", a, b, TextStartsWith(refs[a], refs[b]),
               Md5StartsWith(Md5Materialize(memory, pointers[a]), memory[pointers[b]].bytes))
DigestChar(a, i) ==
  AskDigest("index", a, a, refs[a][i + 1], Md5CharCode(Md5Materialize(memory, pointers[a]), i))

ReadFile(a, content) ==
  Ask("read_file", ~IsFlat(memory, pointers[a]) \/ Len(Encode(content)) > ReadCapacity,
      Ok(<< Encode(content), Len(content), 1 >>),
      {FsReadFile(memory, pointers[a], Encode(content), ReadCapacity)}, memory)

ParseIntText(a) ==
  LET given == ParseInt(FlattenAny(memory, pointers[a]))
  IN  Ask("parse_int", Unreadable(memory, pointers[a]), Ok(Parsed(ParsedInt(refs[a]))), {given.out}, given.memory)
ParseFloatText(a) ==
  Ask("parse_float", ~IsFlat(memory, pointers[a]), Ok(Parsed(ParsedFloat(refs[a]))),
      ParseFloat(memory, pointers[a]), memory)

HostNext ==
  /\ surface = "host"
  /\ \E a, b \in Named :
    \/ \E v \in Named : ConcatTexts(v, a, b)
    \/ TakeSlice(b, a)
    \/ TakeDigest(b, a)
    \/ TakeDigestWithInt(b, a)
    \/ PrintText(a)
    \/ ReturnText(a)
    \/ DigestContains(a, b)
    \/ DigestStartsWith(a, b)
    \/ \E i \in 0 .. DigestLen - 1 : DigestChar(a, i)
    \/ \E content \in FileTexts : ReadFile(a, content)
    \/ ParseIntText(a)
    \/ ParseFloatText(a)

-----------------------------------------------------------------------------
(* However often digests are read, and in whatever order, a digest kept in *)
(* a node or by the host is the digest of the text the node stands for     *)
(* (lib.rs:970, 997).                                                      *)
DigestsHold ==
  surface = "host" =>
    LET last == memory[HostCell].last
        Holds(v, digest) == Md5HexBytes(digest) = Encode(refs[v])
    IN  \A v \in Named :
          LET node == memory[pointers[v]]
          IN  /\ node.rep = "md5" /\ node.source = Inline => Holds(v, node.digest)
              /\ last # << >> /\ last[1] = pointers[v] => Holds(v, last[2])
=============================================================================
