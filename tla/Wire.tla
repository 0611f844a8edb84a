-------------------------------- MODULE Wire --------------------------------
(***************************************************************************)
(* ToBytes and FromBytes of the crate protocol: the implementations for    *)
(* std types (protocol/src/{to,from}_bytes/impls.rs) and those that        *)
(* protocol-derive writes for structs and enums.                           *)
(*                                                                         *)
(* A type is its codec: write gives for every value of the type what       *)
(* write_to makes of it, read for any bytes what read_from makes of them.  *)
(* A type with parameters is an operator on codecs. A value is             *)
(*   of a primitive of n bytes  the function from the place 0 .. n - 1 of  *)
(*                              a byte, by significance, to the byte       *)
(*   of VarInt                  a number of 32 bits                        *)
(*   of String, JSON            its bytes; of JSON those of its only text  *)
(*                              that serde_json::to_string gives           *)
(*   of Option                  << >> or <<value>>                         *)
(*   of Vec, Box<[_]>           the sequence of the values in it           *)
(*   of a struct                << >>, the value of its only field, or     *)
(*                              <<the first, the others>>                  *)
(*   of an enum                 <<variant, the value of its fields>>       *)
(* Box<T> is T.                                                            *)
(***************************************************************************)
EXTENDS Integers, Sequences, FiniteSetsExt

CONSTANTS
  LengthLimit,   (* i32::MAX, as far as lengths go                         *)
  JsonTexts      (* the texts serde_json writes for the values in use      *)

ASSUME LimitAssumption == LengthLimit \in Nat /\ LengthLimit <= 2147483647

Byte == 0 .. 255
Bytes == Seq(Byte)
Values(codec) == DOMAIN codec.write
Int32 == {n \in Int : -2147483647 - 1 <= n /\ n <= 2147483647}

-----------------------------------------------------------------------------
(* Variable-length integers, whole: VarNum has their loops.                *)

(* The groups of seven bits, the last of four, and how many are not zero.  *)
Groups(n) ==
  <<n % 128, (n \div 128) % 128, (n \div 16384) % 128, (n \div 2097152) % 128,
    (n \div 268435456) % 16>>

Size(n) ==
  CASE 0 <= n /\ n < 128             -> 1
    [] 128 <= n /\ n < 16384         -> 2
    [] 16384 <= n /\ n < 2097152     -> 3
    [] 2097152 <= n /\ n < 268435456 -> 4
    [] OTHER                         -> 5

VarIntBytes(n) ==
  [k \in 1 .. Size(n) |-> Groups(n)[k] + (IF k < Size(n) THEN 128 ELSE 0)]

(* What is above bit 31 is shifted out.                                    *)
VarIntValue(bytes) ==
  LET group == [k \in 1 .. 4 |-> IF k <= Len(bytes) THEN bytes[k] % 128 ELSE 0]
      top == IF Len(bytes) < 5 THEN 0 ELSE bytes[5] % 16
  IN  group[1] + 128 * group[2] + 16384 * group[3] + 2097152 * group[4]
        + 268435456 * (IF top < 8 THEN top ELSE top - 16)

-----------------------------------------------------------------------------
(* What write_to gives. written is the count that it returns, which every  *)
(* implementation keeps apart from the bytes; an error leaves nothing that *)
(* anybody looks at.                                                       *)

Wrote(count, bytes) == [ok |-> TRUE, written |-> count, bytes |-> bytes]
TooLong == [ok |-> FALSE, written |-> 0, bytes |-> << >>]

Then(first, second) ==
  IF first.ok /\ second.ok
  THEN [ok |-> TRUE, written |-> first.written + second.written,
        bytes |-> first.bytes \o second.bytes]
  ELSE TooLong

(* What read_from gives: what was read and what is left, or how it failed. *)
(* "eof" and "data" are the ErrorKinds UnexpectedEof and InvalidData,      *)
(* "json" is the one of the two that serde_json chooses; a negative        *)
(* length, as a usize, is more than can be allocated and panics.           *)

Ok(value, rest) == [kind |-> "ok", value |-> value, rest |-> rest]
Fails(kind) == [kind |-> kind, value |-> << >>, rest |-> << >>]
After(bytes, n) == SubSeq(bytes, n + 1, Len(bytes))

-----------------------------------------------------------------------------
(* Primitives: to_be_bytes, the most significant byte first; read_exact    *)
(* and from_be_bytes.                                                      *)

WritePrim(size, v) == Wrote(size, [k \in 1 .. size |-> v[size - k]])

ReadPrim(size, bytes) ==
  IF Len(bytes) < size THEN Fails("eof")
  ELSE Ok([place \in 0 .. size - 1 |-> bytes[size - place]], After(bytes, size))

Prim(size) ==
  [write |-> [v \in [0 .. size - 1 -> Byte] |-> WritePrim(size, v)],
   read  |-> [bytes \in Bytes |-> ReadPrim(size, bytes)]]

ReadVarInt(bytes) ==
  LET ends == {k \in DOMAIN bytes \cap 1 .. 5 : bytes[k] < 128} IN
  IF ends # {} THEN Ok(VarIntValue(SubSeq(bytes, 1, Min(ends))), After(bytes, Min(ends)))
  ELSE Fails(IF Len(bytes) < 5 THEN "eof" ELSE "data")

(* It counts the turns of its loop.                                        *)
WriteVarInt(n) == Wrote(Size(n), VarIntBytes(n))

VarInt == [write |-> [n \in Int32 |-> WriteVarInt(n)],
           read  |-> [bytes \in Bytes |-> ReadVarInt(bytes)]]

-----------------------------------------------------------------------------
(* Strings                                                                 *)

(* String::from_utf8, for characters of one and of two bytes.              *)
Utf8(bytes) ==
  \A k \in DOMAIN bytes :
    LET next == bytes[k + 1] IN
    \/ bytes[k] < 128
    \/ bytes[k] \in 194 .. 223 /\ k < Len(bytes) /\ next \in 128 .. 191
    \/ bytes[k] \in 128 .. 191 /\ k > 1 /\ bytes[k - 1] \in 194 .. 223

WriteString(s) ==
  IF Len(s) > LengthLimit THEN TooLong
  ELSE Then(WriteVarInt(Len(s)), Wrote(Len(s), s))

ReadString(bytes) ==
  LET len == ReadVarInt(bytes)
      text == SubSeq(len.rest, 1, len.value)
  IN  IF len.kind # "ok" THEN len
      ELSE IF len.value < 0 THEN Fails("panic")
      ELSE IF len.value > Len(len.rest) THEN Fails("eof")
      ELSE IF Utf8(text) THEN Ok(text, After(len.rest, len.value)) ELSE Fails("data")

String == [write |-> [s \in {s \in Bytes : Utf8(s)} |-> WriteString(s)],
           read  |-> [bytes \in Bytes |-> ReadString(bytes)]]

(* Derived: what BString::new tests, neither direction does.               *)
BString(max) == String

(* serde_json::from_reader takes all there is: one text, in whitespace. No *)
(* list of packets holds a Value, and only a slice looks at the kind of an *)
(* error.                                                                  *)
Whitespace == {9, 10, 13, 32}

(* A text is not empty, has no space around it, and is none with the byte  *)
(* or bytes of its length before it.                                       *)
ASSUME JsonAssumption ==
  \A text \in JsonTexts :
    /\ text \in Bytes /\ text # << >>
    /\ text[1] \notin Whitespace /\ text[Len(text)] \notin Whitespace
    /\ VarIntBytes(Len(text)) \o text \notin JsonTexts

JsonFromReader(bytes) ==
  LET inked == {k \in DOMAIN bytes : bytes[k] \notin Whitespace}
      text == SubSeq(bytes, Min(inked), Max(inked))
  IN  IF inked # {} /\ text \in JsonTexts THEN Ok(text, << >>) ELSE Fails("json")

(* A Value is written as the String of its text.                           *)
Json == [write |-> [text \in JsonTexts |-> WriteString(text)],
         read  |-> [bytes \in Bytes |-> JsonFromReader(bytes)]]

-----------------------------------------------------------------------------
(* Structs and lists: one after the other.                                 *)

Nothing == Wrote(0, << >>)

Unit == [write |-> [v \in {<< >>} |-> Nothing],
         read  |-> [bytes \in Bytes |-> Ok(<< >>, bytes)]]

(* The second is read from what the first leaves.                          *)
ReadBoth(one, others) ==
  LET more == others.read[one.rest] IN
  IF one.kind # "ok" THEN one
  ELSE IF more.kind # "ok" THEN more ELSE Ok(<<one.value, more.value>>, more.rest)

Pair(first, others) ==
  [write |-> [v \in Values(first) \X Values(others) |->
                Then(first.write[v[1]], others.write[v[2]])],
   read  |-> [bytes \in Bytes |-> ReadBoth(first.read[bytes], others)]]

(* A list of one more element.                                             *)
Joined(both) ==
  IF both.kind = "ok" THEN Ok(<<both.value[1]>> \o both.value[2], both.rest) ELSE both

Longer(of, m, shorter) ==
  [write |-> [v \in [1 .. m -> Values(of)] |-> Pair(of, shorter).write[<<v[1], Tail(v)>>]],
   read  |-> [bytes \in Bytes |-> Joined(Pair(of, shorter).read[bytes])]]

Repeat(of, n) ==
  LET times[m \in 0 .. n] == IF m = 0 THEN Unit ELSE Longer(of, m, times[m - 1])
  IN  times[n]

(* Mutant: the tag of an Option is not counted.                            *)
WriteBoolUncounted(b) == Wrote(0, IF b THEN <<1>> ELSE <<0>>)

WriteBool(b) == Wrote(1, IF b THEN <<1>> ELSE <<0>>)

ReadBool(bytes) ==
  IF bytes = << >> THEN Fails("eof") ELSE Ok(bytes[1] # 0, Tail(bytes))

WriteOption(of, v) == Then(WriteBool(v # << >>), Repeat(of, Len(v)).write[v])

ReadOption(of, bytes) ==
  LET tag == ReadBool(bytes) IN
  IF tag.kind # "ok" THEN tag
  ELSE Repeat(of, IF tag.value THEN 1 ELSE 0).read[tag.rest]

Option(of) ==
  [write |-> [v \in {v \in Seq(Values(of)) : Len(v) <= 1} |-> WriteOption(of, v)],
   read  |-> [bytes \in Bytes |-> ReadOption(of, bytes)]]

WriteVec(of, v) ==
  IF Len(v) > LengthLimit THEN TooLong
  ELSE Then(WriteVarInt(Len(v)), Repeat(of, Len(v)).write[v])

(* An element has a byte at least, so of a longer list one more element    *)
(* than there are bytes is enough to fail as the list does.                *)
ReadVec(of, bytes) ==
  LET len == ReadVarInt(bytes) IN
  IF len.kind # "ok" THEN len
  ELSE IF len.value < 0 THEN Fails("panic")
  ELSE Repeat(of, Min({len.value, Len(len.rest) + 1})).read[len.rest]

Vec(of) ==
  [write |-> [v \in Seq(Values(of)) |-> WriteVec(of, v)],
   read  |-> [bytes \in Bytes |-> ReadVec(of, bytes)]]

WriteSlice(of, v) == Repeat(of, Len(v)).write[v]

(* Mutant: the boxed slice has a length prefix, like a Vec.                *)
ReadSlicePrefixed(of, bytes) == ReadVec(of, bytes)

(* Elements until an end of file, even one inside an element; an element   *)
(* has a byte at least.                                                    *)
ReadSlice(of, bytes) ==
  LET found(n) == Repeat(of, n).read[bytes]
      most == Max({n \in 0 .. Len(bytes) : found(n).kind = "ok"})
  IN  IF found(most + 1).kind = "eof" THEN Ok(found(most).value, << >>)
      ELSE found(most + 1)

Slice(of) ==
  [write |-> [v \in Seq(Values(of)) |-> WriteSlice(of, v)],
   read  |-> [bytes \in Bytes |-> ReadSlice(of, bytes)]]

-----------------------------------------------------------------------------
(* Enums. given: the discriminant that is written in the source, if any;   *)
(* fields: the codec of the fields, as of a struct.                        *)
Variant(given, fields) == [given |-> given, fields |-> fields]

(* #[derive]: a discriminant is the one given, or one more than the last.  *)
Discriminants(variants) ==
  LET next[k \in DOMAIN variants] ==
        IF variants[k].given # << >> THEN variants[k].given[1]
        ELSE IF k = 1 THEN 0 ELSE next[k - 1] + 1
  IN  next

(* The values of the variants: <<k, fields>>.                              *)
Variants(variants) ==
  LET upTo[m \in 0 .. Len(variants)] ==
        IF m = 0 THEN {}
        ELSE upTo[m - 1] \cup ({m} \X Values(variants[m].fields))
  IN  upTo[Len(variants)]

WriteEnum(tagged, variants, v) ==
  Then(IF tagged THEN WriteVarInt(Discriminants(variants)[v[1]]) ELSE Nothing,
       variants[v[1]].fields.write[v[2]])

(* Mutant: the variant is taken by its position.                           *)
MatchingAt(variants, discriminant) == {discriminant + 1} \cap DOMAIN variants

Matching(variants, discriminant) ==
  {k \in DOMAIN variants : Discriminants(variants)[k] = discriminant}

ReadEnum(variants, bytes) ==
  LET tag == ReadVarInt(bytes)
      k == Min(Matching(variants, tag.value))
      fields == variants[k].fields.read[tag.rest]
  IN  IF tag.kind # "ok" THEN tag
      ELSE IF Matching(variants, tag.value) = {} THEN Fails("data")
      ELSE IF fields.kind # "ok" THEN fields ELSE Ok(<<k, fields.value>>, fields.rest)

(* tagged: the discriminant is a VarInt; otherwise it is packets::NoTag,   *)
(* and nothing reads it.                                                   *)
Enum(tagged, variants) ==
  [write |-> [v \in Variants(variants) |-> WriteEnum(tagged, variants, v)],
   read  |-> [bytes \in Bytes |-> ReadEnum(variants, bytes)]]

=============================================================================
