----------------------------- MODULE WireProofs -----------------------------
(***************************************************************************)
(* What the codecs of Wire promise, for every value, every bytes and lists *)
(* of any length, from the single number up to the packet types. Each      *)
(* codec is shown to keep some of the promises Typed, Prefix, Whole,       *)
(* Frugal and Hungry; each combinator, to keep them if its parts do. Lists *)
(* go by induction over their length (Induction).                          *)
(***************************************************************************)
EXTENDS Packets, Induction, SequenceTheorems, TLAPS

(* The groups of a number say what it is.                                  *)
Seven(g) == g \in Nat /\ g < 128
Four(g) == g \in Nat /\ g < 16

LEMMA GroupsOf ==
  ASSUME NEW n \in Int32
  PROVE  /\ \A k \in 1 .. 5 : Seven(Groups(n)[k])
         /\ Groups(n)[5] < 16
         /\ n = Groups(n)[1] + 128 * Groups(n)[2] + 16384 * Groups(n)[3]
                + 2097152 * Groups(n)[4]
                + 268435456 * (IF Groups(n)[5] < 8 THEN Groups(n)[5] ELSE Groups(n)[5] - 16)
<1> DEFINE a == n \div 128  b == n \div 16384  c == n \div 2097152  d == n \div 268435456
<1>1. n \in Int /\ -2147483648 <= n /\ n <= 2147483647
  BY SMT DEF Int32
<1> USE DEF Seven
<1>2. /\ a \in Int /\ b \in Int /\ c \in Int /\ d \in Int
      /\ n = 128 * a + (n % 128) /\ Seven(n % 128)
  BY <1>1, SMT
<1>3. b = a \div 128 /\ c = b \div 128 /\ d = c \div 128
  BY <1>1, SMT
<1>4. /\ a = 128 * b + (a % 128) /\ Seven(a % 128)
      /\ b = 128 * c + (b % 128) /\ Seven(b % 128)
      /\ c = 128 * d + (c % 128) /\ Seven(c % 128)
  <2> HIDE DEF a, b, c, d
  <2> QED BY <1>2, <1>3, SMT
<1>5. d \in -8 .. 7
  BY <1>1, SMT
<1>6. d % 16 = IF d < 0 THEN d + 16 ELSE d
  <2> HIDE DEF d
  <2> QED BY <1>5, SMT
<1> HIDE DEF a, b, c, d
<1>7. Groups(n) = <<n % 128, a % 128, b % 128, c % 128, d % 16>>
  BY SMT DEF Groups, a, b, c, d
<1>8. d % 16 \in 0 .. 15 /\ (IF d % 16 < 8 THEN d % 16 ELSE (d % 16) - 16) = d
  BY <1>5, <1>6, SMT
<1> QED
  BY <1>2, <1>4, <1>7, <1>8, SMT

LEMMA SizeOf ==
  ASSUME NEW n \in Int32
  PROVE  /\ Size(n) \in 1 .. 5
         /\ \A k \in 1 .. 5 : k > Size(n) => Groups(n)[k] = 0
BY SMT DEF Size, Groups, Int32

LEMMA ByteIs ==
  /\ \A x : x \in Byte <=> x \in Nat /\ x < 256
  /\ Bytes = Seq(Byte)
<1>1. ASSUME NEW m \in Nat, m = 255 PROVE \A x : x \in 0 .. m <=> x \in Nat /\ x <= m
  OBVIOUS
<1>2. ASSUME NEW m \in Nat, m = 255 PROVE \A x : x \in Byte <=> x \in Nat /\ x <= m
  BY <1>1, <1>2 DEF Byte
<1>3. 255 \in Nat /\ \A x : x \in Nat => (x <= 255 <=> x < 256)
  BY SMT
<1> QED
  BY <1>2, <1>3 DEF Bytes

(* All bytes of a number but the last have the bit that says more follows. *)
LEMMA VarIntBytesAre ==
  ASSUME NEW n \in Int32
  PROVE  /\ Size(n) \in 1 .. 5
         /\ VarIntBytes(n) \in Bytes
         /\ Len(VarIntBytes(n)) = Size(n)
         /\ \A k \in 1 .. Size(n) :
              /\ k < Size(n) => VarIntBytes(n)[k] = Groups(n)[k] + 128
              /\ k = Size(n) => VarIntBytes(n)[k] = Groups(n)[k]
<1> DEFINE s == Size(n)  f == VarIntBytes(n)
<1>1. s \in 1 .. 5
  BY SizeOf
<1>2. \A k \in 1 .. s : k \in 1 .. 5 /\ Seven(Groups(n)[k])
  BY <1>1, GroupsOf
<1>3. f = [k \in 1 .. s |-> Groups(n)[k] + (IF k < s THEN 128 ELSE 0)]
  BY DEF VarIntBytes
<1> HIDE DEF s, f
<1>4. \A k \in 1 .. s : /\ k < s => f[k] = Groups(n)[k] + 128
                        /\ k = s => f[k] = Groups(n)[k]
  BY <1>1, <1>2, <1>3 DEF Seven
<1>5. \A k \in 1 .. s : f[k] \in Byte
  BY <1>1, <1>2, <1>4, ByteIs, SMT DEF Seven
<1>6. f \in [1 .. s -> Byte]
  BY <1>3, <1>5
<1>7. f \in Seq(Byte) /\ Len(f) = s
  BY <1>1, <1>6
<1> QED
  BY <1>1, <1>4, <1>7, ByteIs DEF s, f

(* The least and the greatest of a set of numbers.                         *)
LEMMA MinIs ==
  ASSUME NEW T, NEW n \in T, T \subseteq Int, \A m \in T : n <= m
  PROVE  Min(T) = n
<1>1. Min(T) \in T /\ \A m \in T : Min(T) <= m
  BY DEF Min
<1>2. Min(T) \in Int /\ n \in Int /\ Min(T) <= n /\ n <= Min(T)
  BY <1>1
<1> QED
  BY <1>2

LEMMA MaxIs ==
  ASSUME NEW T, NEW n \in T, T \subseteq Int, \A m \in T : n >= m
  PROVE  Max(T) = n
<1>1. Max(T) \in T /\ \A m \in T : Max(T) >= m
  BY DEF Max
<1>2. Max(T) \in Int /\ n \in Int /\ Max(T) >= n /\ n >= Max(T)
  BY <1>1
<1> QED
  BY <1>2

LEMMA MinHas ==
  ASSUME NEW T, T # {}, T \subseteq Nat
  PROVE  Min(T) \in T /\ \A m \in T : Min(T) <= m
<1>1. PICK n \in T : \A m \in T : n <= m
  BY LeastNumber
<1>2. Min(T) = n
  BY <1>1, MinIs, T \subseteq Int
<1> QED
  BY <1>1, <1>2

(* What is left after the first n of some bytes.                           *)
LEMMA AfterIs ==
  ASSUME NEW b \in Bytes, NEW n \in 0 .. Len(b)
  PROVE  /\ After(b, n) \in Bytes /\ Len(After(b, n)) = Len(b) - n
         /\ \A k \in 1 .. Len(b) - n : After(b, n)[k] = b[n + k]
         /\ SubSeq(b, 1, n) \in Bytes /\ Len(SubSeq(b, 1, n)) = n
         /\ \A k \in 1 .. n : SubSeq(b, 1, n)[k] = b[k]
         /\ b = SubSeq(b, 1, n) \o After(b, n)
<1> Bytes = Seq(Byte)
  BY DEF Bytes
<1>1. /\ After(b, n) \in Seq(Byte) /\ Len(After(b, n)) = Len(b) - n
      /\ \A k \in 1 .. Len(b) - n : After(b, n)[k] = b[n + k]
  BY SubSeqProperties, n + 1 \in 1 .. Len(b) + 1, Len(b) \in Int DEF After
<1>2. /\ SubSeq(b, 1, n) \in Seq(Byte) /\ Len(SubSeq(b, 1, n)) = n
      /\ \A k \in 1 .. n : SubSeq(b, 1, n)[k] = b[k]
  BY SubSeqProperties, n \in 0 .. Len(b), Len(b) \in Nat
<1>3. b = SubSeq(b, 1, n) \o After(b, n)
  <2> DEFINE p == SubSeq(b, 1, n)  q == After(b, n)
  <2>1. Len(p \o q) = Len(b) /\ p \o q \in Seq(Byte)
    BY <1>1, <1>2, ConcatProperties
  <2>2. \A k \in 1 .. Len(b) : (p \o q)[k] = b[k]
    <3> HIDE DEF p, q
    <3> SUFFICES ASSUME NEW k \in 1 .. Len(b) PROVE (p \o q)[k] = b[k]
      OBVIOUS
    <3>1. CASE k <= n
      BY <3>1, <1>2, <1>1, ConcatProperties DEF p, q
    <3>2. CASE k > n
      <4>1. (p \o q)[k] = q[k - n] /\ k - n \in 1 .. Len(b) - n
        BY <3>2, <1>2, <1>1, ConcatProperties DEF p, q
      <4>2. q[k - n] = b[n + (k - n)]
        BY <4>1, <1>1 DEF q
      <4>3. n + (k - n) = k
        OBVIOUS
      <4> QED BY <4>1, <4>2, <4>3, Zenon
    <3>3. k <= n \/ k > n
      BY Len(b) \in Nat
    <3> QED BY <3>1, <3>2, <3>3, Zenon
  <2> QED
    BY <2>1, <2>2, SeqEqual
<1> QED
  BY <1>1, <1>2, <1>3

(* Bytes that begin like those of a number, as far as they go, are read as *)
(* the number if they go far enough, and as too few if they do not.        *)
LEMMA ReadVarIntFrom ==
  ASSUME NEW n \in Int32, NEW b \in Bytes,
         \A k \in 1 .. Size(n) : k <= Len(b) => b[k] = VarIntBytes(n)[k]
  PROVE  /\ Len(b) >= Size(n) => ReadVarInt(b) = Ok(n, After(b, Size(n)))
         /\ Len(b) < Size(n) => ReadVarInt(b) = Fails("eof")
<1> DEFINE s == Size(n)  f == VarIntBytes(n)  g == Groups(n)
           ends == {k \in DOMAIN b \cap 1 .. 5 : b[k] < 128}
<1>1. s \in 1 .. 5 /\ Len(b) \in Nat /\ DOMAIN b = 1 .. Len(b)
  BY SizeOf DEF Bytes
<1>2. \A k \in 1 .. 5 : Seven(g[k]) /\ (k > s => g[k] = 0)
  BY GroupsOf, SizeOf
<1>3. \A k \in 1 .. s : /\ k < s => f[k] = g[k] + 128
                        /\ k = s => f[k] = g[k]
                        /\ k <= Len(b) => b[k] = f[k]
                        /\ k \in 1 .. 5
  BY VarIntBytesAre, <1>1
<1> HIDE DEF s, f, g
<1>4. \A k \in 1 .. s : k < s /\ k <= Len(b) => ~(b[k] < 128)
  <2> TAKE k \in 1 .. s
  <2>1. Seven(g[k])
    BY <1>2, <1>3
  <2> QED
    BY <1>1, <1>3, <2>1 DEF Seven
<1>5. ASSUME Len(b) < s PROVE ReadVarInt(b) = Fails("eof")
  <2>1. ends = {}
    BY <1>1, <1>4, <1>5
  <2>2. Len(b) < 5
    BY <1>1, <1>5
  <2> QED
    BY <2>1, <2>2 DEF ReadVarInt
<1>6. ASSUME Len(b) >= s PROVE ReadVarInt(b) = Ok(n, After(b, s))
  <2>1. s \in ends
    <3>1. s \in 1 .. s /\ s \in 1 .. 5 /\ b[s] = g[s] /\ Seven(g[s])
      BY <1>1, <1>2, <1>3, <1>6
    <3> QED
      BY <1>1, <1>6, <3>1 DEF Seven
  <2>2. \A k \in ends : s <= k
    BY <1>1, <1>4
  <2>3. Min(ends) = s
    <3>1. \A k \in ends : k \in Int
      BY <1>1
    <3> HIDE DEF ends
    <3> QED
      BY <2>1, <2>2, <3>1, MinIs
  <2> DEFINE c == SubSeq(b, 1, s)
  <2>4. Len(c) = s /\ \A k \in 1 .. s : c[k] = f[k]
    <3>1. s \in 0 .. Len(b) /\ \A k \in 1 .. s : k <= Len(b)
      BY <1>1, <1>6
    <3>2. Len(c) = s /\ \A k \in 1 .. s : c[k] = b[k]
      BY <3>1, AfterIs
    <3> HIDE DEF c
    <3> QED
      BY <1>3, <3>1, <3>2
  <2>5. \A k \in 1 .. 5 : (IF k <= Len(c) THEN (c[k] % 128) ELSE 0) = g[k]
    <3> HIDE DEF c
    <3> SUFFICES ASSUME NEW k \in 1 .. 5
                 PROVE  (IF k <= Len(c) THEN (c[k] % 128) ELSE 0) = g[k]
      OBVIOUS
    <3>1. Seven(g[k]) /\ (g[k] % 128) = g[k] /\ ((g[k] + 128) % 128) = g[k]
      <4>1. \A x : Seven(x) => (x % 128) = x /\ ((x + 128) % 128) = x
        BY SMT DEF Seven
      <4> QED
        BY <1>2, <4>1
    <3> QED
      BY <1>1, <1>2, <1>3, <2>4, <3>1
  <2>6. (IF Len(c) < 5 THEN 0 ELSE (c[5] % 16)) = g[5]
    <3>1. g[5] \in Nat /\ g[5] < 16
      BY <1>2, GroupsOf DEF Seven, g
    <3>2. (g[5] % 16) = g[5]
      BY <3>1
    <3> HIDE DEF c
    <3> QED
      BY <1>1, <1>2, <1>3, <2>4, <3>2
  <2>7. VarIntValue(c) = n
    <3> HIDE DEF c
    <3>1. VarIntValue(c) = g[1] + 128 * g[2] + 16384 * g[3] + 2097152 * g[4]
                             + 268435456 * (IF g[5] < 8 THEN g[5] ELSE g[5] - 16)
      BY <2>5, <2>6 DEF VarIntValue
    <3> QED
      BY <3>1, GroupsOf DEF g
  <2> QED
    BY <2>1, <2>3, <2>7 DEF ReadVarInt
<1> QED
  BY <1>5, <1>6 DEF s

(* What a number of m groups of seven bits can be.                         *)
OfGroups(v, w, x, y, z) ==
  v + 128 * w + 16384 * x + 2097152 * y + 268435456 * (IF z < 8 THEN z ELSE z - 16)

LEMMA GroupsBound ==
  ASSUME NEW v, NEW w, NEW x, NEW y, NEW z, NEW n, n = OfGroups(v, w, x, y, z),
         Seven(v), Seven(w), Seven(x), Seven(y), Four(z)
  PROVE  /\ n \in Int32 /\ Size(n) \in 1 .. 5
         /\ z = 0 => Size(n) <= 4
         /\ z = 0 /\ y = 0 => Size(n) <= 3
         /\ z = 0 /\ y = 0 /\ x = 0 => Size(n) <= 2
         /\ z = 0 /\ y = 0 /\ x = 0 /\ w = 0 => Size(n) <= 1
<1>1. n \in Int32
  BY SMT DEF OfGroups, Int32, Seven, Four
<1>2. /\ z = 0 => 0 <= n /\ n < 268435456
      /\ z = 0 /\ y = 0 => 0 <= n /\ n < 2097152
      /\ z = 0 /\ y = 0 /\ x = 0 => 0 <= n /\ n < 16384
      /\ z = 0 /\ y = 0 /\ x = 0 /\ w = 0 => 0 <= n /\ n < 128
  BY SMT DEF OfGroups, Seven, Four
<1>3. /\ 0 <= n /\ n < 268435456 => Size(n) <= 4
      /\ 0 <= n /\ n < 2097152 => Size(n) <= 3
      /\ 0 <= n /\ n < 16384 => Size(n) <= 2
      /\ 0 <= n /\ n < 128 => Size(n) <= 1
  BY <1>1, SMT DEF Size, Int32
<1> QED
  BY <1>1, <1>2, <1>3, SizeOf, SMT

(* Of any bytes a number is read that has no more bytes than it was read   *)
(* from.                                                                   *)
LEMMA ValueSize ==
  ASSUME NEW m \in 1 .. 5, NEW c \in Bytes, Len(c) = m
  PROVE  VarIntValue(c) \in Int32 /\ Size(VarIntValue(c)) <= m
<1> DEFINE g == [k \in 1 .. 4 |-> IF k <= Len(c) THEN c[k] % 128 ELSE 0]
           t == IF Len(c) < 5 THEN 0 ELSE c[5] % 16
           n == OfGroups(g[1], g[2], g[3], g[4], t)
<1>1. \A k \in 1 .. 5 : k <= m => c[k] \in Nat
  <2>1. \A k \in 1 .. 5 : k <= m => k \in 1 .. Len(c)
    OBVIOUS
  <2>2. \A k \in 1 .. Len(c) : c[k] \in Byte
    BY ElementOfSeq DEF Bytes
  <2> QED
    BY <2>1, <2>2, ByteIs
<1>2. \A x \in Nat : (x % 128) \in Nat /\ (x % 128) < 128 /\ (x % 16) \in Nat /\ (x % 16) < 16
  BY SMT
<1>3. /\ g[1] \in Nat /\ g[1] < 128
      /\ g[2] \in Nat /\ g[2] < 128 /\ (m < 2 => g[2] = 0)
      /\ g[3] \in Nat /\ g[3] < 128 /\ (m < 3 => g[3] = 0)
      /\ g[4] \in Nat /\ g[4] < 128 /\ (m < 4 => g[4] = 0)
  BY <1>1, <1>2, SMTT(30)
<1>4. t \in Nat /\ t < 16 /\ (m < 5 => t = 0)
  BY <1>1, <1>2
<1>5. VarIntValue(c) = n
  BY SMT DEF VarIntValue, OfGroups
<1> HIDE DEF g, t
<1> HIDE DEF n
<1>6. /\ n \in Int32 /\ Size(n) \in 1 .. 5
      /\ t = 0 => Size(n) <= 4
      /\ t = 0 /\ g[4] = 0 => Size(n) <= 3
      /\ t = 0 /\ g[4] = 0 /\ g[3] = 0 => Size(n) <= 2
      /\ t = 0 /\ g[4] = 0 /\ g[3] = 0 /\ g[2] = 0 => Size(n) <= 1
  <2>1. Seven(g[1]) /\ Seven(g[2]) /\ Seven(g[3]) /\ Seven(g[4]) /\ Four(t)
    BY <1>3, <1>4 DEF Seven, Four
  <2> QED
    BY <2>1, GroupsBound, Zenon DEF n
<1>7. n \in Int32 /\ Size(n) <= m
  BY <1>3, <1>4, <1>6
<1> QED
  BY <1>5, <1>7

LEMMA ReadVarIntIs ==
  ASSUME NEW b \in Bytes, NEW r, r = ReadVarInt(b)
  PROVE  \/ /\ r = Ok(r.value, r.rest)
            /\ r.value \in Int32 /\ r.rest \in Bytes
            /\ Len(r.rest) + Size(r.value) <= Len(b)
         \/ r = Fails("eof")
         \/ r = Fails("data")
<1> DEFINE ends == {k \in DOMAIN b \cap 1 .. 5 : b[k] < 128}
<1>1. CASE ends = {}
  BY <1>1 DEF ReadVarInt
<1>2. CASE ends # {}
  <2> DEFINE m == Min(ends)  c == SubSeq(b, 1, m)
  <2>1. m \in 1 .. 5 /\ m \in 1 .. Len(b) /\ Len(b) \in Nat
    <3>1. \A k \in ends : k \in Nat /\ k \in 1 .. 5 /\ k \in 1 .. Len(b) /\ Len(b) \in Nat
      BY DEF Bytes
    <3> HIDE DEF ends
    <3>2. m \in ends
      BY <1>2, <3>1, MinHas
    <3> QED
      BY <3>1, <3>2
  <2>2. r = Ok(VarIntValue(c), After(b, m))
    BY <1>2 DEF ReadVarInt
  <2> HIDE DEF m
  <2>3. /\ c \in Bytes /\ Len(c) = m /\ After(b, m) \in Bytes
        /\ Len(After(b, m)) = Len(b) - m
    BY <2>1, AfterIs, m \in 0 .. Len(b)
  <2>4. VarIntValue(c) \in Int32 /\ Size(VarIntValue(c)) <= m
    BY <2>1, <2>3, ValueSize
  <2>5. r.value = VarIntValue(c) /\ r.rest = After(b, m) /\ r = Ok(r.value, r.rest)
    BY <2>2 DEF Ok
  <2> QED
    BY <2>1, <2>3, <2>4, <2>5, SizeOf
<1> QED
  BY <1>1, <1>2

-----------------------------------------------------------------------------
(* What a codec may promise.                                               *)

(* What is written are bytes, counted, or an error. What is read leaves    *)
(* some of the bytes that were there, and if it succeeds gives a value of  *)
(* the type.                                                               *)
Typed(c) ==
  /\ \A v \in Values(c) :
       /\ c.write[v].ok \in BOOLEAN
       /\ c.write[v].bytes \in Bytes
       /\ c.write[v].written = Len(c.write[v].bytes)
  /\ \A b \in Bytes :
       /\ c.read[b].rest \in Bytes
       /\ Len(c.read[b].rest) <= Len(b)
       /\ c.read[b].kind = "ok" => c.read[b].value \in Values(c)

(* What was written is read as it was, whatever comes after it.            *)
Prefix(c) ==
  \A v \in Values(c) : c.write[v].ok =>
    \A rest \in Bytes : c.read[c.write[v].bytes \o rest] = Ok(v, rest)

(* What was written is read as it was, if nothing comes after it.          *)
Whole(c) ==
  \A v \in Values(c) : c.write[v].ok => c.read[c.write[v].bytes] = Ok(v, << >>)

(* What was read can be written, in no more bytes than it had.             *)
Frugal(c) ==
  \A b \in Bytes : c.read[b].kind = "ok" /\ Len(b) <= LengthLimit =>
    /\ c.write[c.read[b].value].ok
    /\ c.write[c.read[b].value].written + Len(c.read[b].rest) <= Len(b)

(* Every value has a byte at least.                                        *)
Hungry(c) ==
  \A b \in Bytes : c.read[b].kind = "ok" => Len(c.read[b].rest) < Len(b)

LEMMA WholeIs ==
  ASSUME NEW c, Typed(c), Prefix(c)
  PROVE  Whole(c)
<1>1. << >> \in Bytes /\ \A b \in Bytes : b \o << >> = b
  BY EmptySeq, ConcatEmptySeq DEF Bytes
<1> QED
  <2> SUFFICES ASSUME NEW v \in Values(c), c.write[v].ok
               PROVE  c.read[c.write[v].bytes] = Ok(v, << >>)
    BY DEF Whole
  <2> DEFINE b == c.write[v].bytes
  <2>1. b \in Bytes /\ \A rest \in Bytes : c.read[b \o rest] = Ok(v, rest)
    BY DEF Prefix, Typed
  <2> HIDE DEF b
  <2>2. b \o << >> = b
    BY <1>1, <2>1
  <2>3. c.read[b \o << >>] = Ok(v, << >>)
    BY <1>1, <2>1
  <2> QED
    BY <2>2, <2>3 DEF b

LEMMA BytesConcat ==
  /\ << >> \in Bytes /\ Len(<< >>) = 0
  /\ \A a \in Bytes : a \o << >> = a /\ << >> \o a = a /\ Len(a) \in Nat
  /\ \A a, b \in Bytes : /\ a \o b \in Bytes
                         /\ Len(a \o b) = Len(a) + Len(b)
  /\ \A a, b, c \in Bytes : (a \o b) \o c = a \o (b \o c)
BY EmptySeq, ConcatEmptySeq, ConcatProperties, ConcatAssociative DEF Bytes

LEMMA AfterConcat ==
  ASSUME NEW a \in Bytes, NEW b \in Bytes
  PROVE  After(a \o b, Len(a)) = b /\ SubSeq(a \o b, 1, Len(a)) = a
<1> DEFINE c == a \o b
<1>1. /\ c \in Seq(Byte) /\ Len(c) = Len(a) + Len(b) /\ Len(a) \in Nat /\ Len(b) \in Nat
      /\ \A k \in 1 .. Len(a) + Len(b) : c[k] = IF k <= Len(a) THEN a[k] ELSE b[k - Len(a)]
  BY ConcatProperties DEF Bytes
<1> HIDE DEF c
<1>2. Len(a) \in 0 .. Len(c)
  BY <1>1
<1>3. /\ After(c, Len(a)) \in Seq(Byte) /\ Len(After(c, Len(a))) = Len(b)
      /\ \A k \in 1 .. Len(b) : After(c, Len(a))[k] = c[Len(a) + k]
      /\ SubSeq(c, 1, Len(a)) \in Seq(Byte) /\ Len(SubSeq(c, 1, Len(a))) = Len(a)
      /\ \A k \in 1 .. Len(a) : SubSeq(c, 1, Len(a))[k] = c[k]
  BY <1>1, <1>2, AfterIs DEF Bytes
<1>4. \A k \in 1 .. Len(b) : After(c, Len(a))[k] = b[k]
  <2> TAKE k \in 1 .. Len(b)
  <2>1. c[Len(a) + k] = b[(Len(a) + k) - Len(a)]
    BY <1>1
  <2>2. (Len(a) + k) - Len(a) = k
    BY <1>1
  <2> QED
    BY <1>3, <2>1, <2>2
<1>5. \A k \in 1 .. Len(a) : SubSeq(c, 1, Len(a))[k] = a[k]
  BY <1>1, <1>3
<1>6. After(c, Len(a)) = b /\ SubSeq(c, 1, Len(a)) = a
  BY <1>3, <1>4, <1>5, SeqEqual DEF Bytes
<1> QED
  BY <1>6 DEF c

-----------------------------------------------------------------------------
(* Primitives, VarInt and strings keep all the promises.                   *)

LEMMA PrimPromises ==
  ASSUME NEW n \in Nat \ {0}
  PROVE  Typed(Prim(n)) /\ Prefix(Prim(n)) /\ Frugal(Prim(n)) /\ Hungry(Prim(n))
<1> DEFINE c == Prim(n)
<1>1. /\ Values(c) = [0 .. n - 1 -> Byte]
      /\ \A v \in Values(c) : c.write[v] = WritePrim(n, v)
      /\ \A b \in Bytes : c.read[b] = ReadPrim(n, b)
  BY DEF Prim, Values
<1> HIDE DEF c
<1>2. ASSUME NEW v \in Values(c)
      PROVE  /\ c.write[v].ok = TRUE /\ c.write[v].written = n
             /\ c.write[v].bytes \in Bytes /\ Len(c.write[v].bytes) = n
             /\ \A k \in 1 .. n : c.write[v].bytes[k] = v[n - k]
  <2> DEFINE f == [k \in 1 .. n |-> v[n - k]]
  <2>1. \A k \in 1 .. n : n - k \in 0 .. n - 1
    OBVIOUS
  <2>2. f \in [1 .. n -> Byte]
    BY <1>1, <2>1
  <2>3. f \in Seq(Byte) /\ Len(f) = n
    BY <2>2
  <2>4. \A k \in 1 .. n : f[k] = v[n - k]
    OBVIOUS
  <2>5. c.write[v] = Wrote(n, f)
    BY <1>1 DEF WritePrim
  <2> HIDE DEF f
  <2>6. c.write[v].ok = TRUE /\ c.write[v].written = n /\ c.write[v].bytes = f
    BY <2>5 DEF Wrote
  <2> QED
    BY <2>3, <2>4, <2>6 DEF Bytes
<1>3. ASSUME NEW b \in Bytes, Len(b) < n PROVE c.read[b] = Fails("eof")
  BY <1>1, <1>3 DEF ReadPrim
<1>4. ASSUME NEW b \in Bytes, Len(b) >= n
      PROVE  /\ c.read[b] = Ok(c.read[b].value, After(b, n))
             /\ c.read[b].kind = "ok" /\ c.read[b].rest = After(b, n)
             /\ c.read[b].value \in Values(c)
             /\ \A place \in 0 .. n - 1 : c.read[b].value[place] = b[n - place]
             /\ After(b, n) \in Bytes /\ Len(After(b, n)) = Len(b) - n
  <2> DEFINE v == [place \in 0 .. n - 1 |-> b[n - place]]
  <2>1. Len(b) \in Nat /\ n \in 0 .. Len(b)
    BY <1>4, BytesConcat
  <2>2. \A place \in 0 .. n - 1 : n - place \in 1 .. Len(b)
    BY <2>1
  <2>3. \A k \in 1 .. Len(b) : b[k] \in Byte
    BY ElementOfSeq DEF Bytes
  <2>4. v \in [0 .. n - 1 -> Byte] /\ \A place \in 0 .. n - 1 : v[place] = b[n - place]
    BY <2>2, <2>3
  <2>5. ~(Len(b) < n)
    BY <1>4, <2>1
  <2>6. c.read[b] = Ok(v, After(b, n))
    BY <1>1, <2>5 DEF ReadPrim
  <2> HIDE DEF v
  <2>7. /\ c.read[b].kind = "ok" /\ c.read[b].rest = After(b, n) /\ c.read[b].value = v
    BY <2>6 DEF Ok
  <2> QED
    BY <1>1, <2>1, <2>4, <2>6, <2>7, AfterIs
<1>5. \A b \in Bytes : Len(b) \in Nat /\ (Len(b) < n \/ Len(b) >= n)
  BY BytesConcat
<1>6. Typed(c)
  <2>1. \A v \in Values(c) : /\ c.write[v].ok \in BOOLEAN /\ c.write[v].bytes \in Bytes
                             /\ c.write[v].written = Len(c.write[v].bytes)
    BY <1>2
  <2>2. ASSUME NEW b \in Bytes
        PROVE  /\ c.read[b].rest \in Bytes /\ Len(c.read[b].rest) <= Len(b)
               /\ c.read[b].kind = "ok" => c.read[b].value \in Values(c)
    <3>1. CASE Len(b) < n
      BY <1>3, <1>5, <3>1, BytesConcat DEF Fails
    <3>2. CASE Len(b) >= n
      BY <1>4, <1>5, <3>2
    <3> QED
      BY <1>5, <3>1, <3>2
  <2> QED
    BY <2>1, <2>2 DEF Typed
<1>7. Prefix(c)
  <2> SUFFICES ASSUME NEW v \in Values(c), NEW rest \in Bytes
               PROVE  c.read[c.write[v].bytes \o rest] = Ok(v, rest)
    BY DEF Prefix
  <2> DEFINE f == c.write[v].bytes  b == f \o rest  w == c.read[b].value
  <2>1. f \in Bytes /\ Len(f) = n /\ \A k \in 1 .. n : f[k] = v[n - k]
    BY <1>2
  <2>2. b \in Bytes /\ Len(b) >= n /\ \A k \in 1 .. n : b[k] = f[k]
    <3>1. b \in Bytes /\ Len(b) = n + Len(rest) /\ Len(rest) \in Nat
      BY <2>1, BytesConcat
    <3>2. \A k \in 1 .. n + Len(rest) : k <= n => b[k] = f[k]
      BY <2>1, ConcatProperties DEF Bytes
    <3> HIDE DEF b, f
    <3> QED
      BY <3>1, <3>2
  <2>3. /\ c.read[b] = Ok(w, After(b, n)) /\ w \in Values(c)
        /\ \A place \in 0 .. n - 1 : w[place] = b[n - place]
    BY <1>4, <2>2
  <2>4. After(b, n) = rest
    BY <2>1, AfterConcat
  <2> HIDE DEF f, b, w
  <2>5. \A place \in 0 .. n - 1 : w[place] = v[place]
    <3>1. \A place \in 0 .. n - 1 : n - place \in 1 .. n /\ n - (n - place) = place
      OBVIOUS
    <3>2. \A place \in 0 .. n - 1 : w[place] = f[n - place]
      BY <2>2, <2>3, <3>1
    <3>3. \A place \in 0 .. n - 1 : f[n - place] = v[n - (n - place)]
      BY <2>1, <3>1
    <3> QED
      BY <3>1, <3>2, <3>3
  <2>6. w = v
    BY <1>1, <2>3, <2>5
  <2> QED
    BY <2>3, <2>4, <2>6 DEF f, b
<1>8. Frugal(c)
  <2> SUFFICES ASSUME NEW b \in Bytes, c.read[b].kind = "ok"
               PROVE  /\ c.write[c.read[b].value].ok
                      /\ c.write[c.read[b].value].written + Len(c.read[b].rest) <= Len(b)
    BY DEF Frugal
  <2>1. Len(b) >= n
    BY <1>3, <1>5 DEF Fails
  <2>2. c.read[b].value \in Values(c) /\ Len(c.read[b].rest) = Len(b) - n
    BY <1>4, <2>1
  <2>3. c.write[c.read[b].value].ok /\ c.write[c.read[b].value].written = n
    BY <1>2, <2>2
  <2> QED
    BY <1>5, <2>2, <2>3
<1>9. Hungry(c)
  <2> SUFFICES ASSUME NEW b \in Bytes, c.read[b].kind = "ok"
               PROVE  Len(c.read[b].rest) < Len(b)
    BY DEF Hungry
  <2>1. Len(b) >= n
    BY <1>3, <1>5 DEF Fails
  <2> QED
    BY <1>4, <1>5, <2>1
<1> QED
  BY <1>6, <1>7, <1>8, <1>9 DEF c

LEMMA VarIntPromises ==
  Typed(VarInt) /\ Prefix(VarInt) /\ Frugal(VarInt) /\ Hungry(VarInt)
<1> DEFINE c == VarInt
<1>1. /\ Values(c) = Int32
      /\ \A v \in Int32 : /\ c.write[v].ok = TRUE
                          /\ c.write[v].bytes = VarIntBytes(v)
                          /\ c.write[v].written = Size(v)
      /\ \A b \in Bytes : c.read[b] = ReadVarInt(b)
  BY DEF VarInt, Values, WriteVarInt, Wrote
<1> HIDE DEF c
<1>2. \A v \in Int32 : /\ VarIntBytes(v) \in Bytes /\ Len(VarIntBytes(v)) = Size(v)
                       /\ Size(v) \in 1 .. 5
  BY VarIntBytesAre
<1>3. ASSUME NEW b \in Bytes
      PROVE  /\ c.read[b].rest \in Bytes /\ Len(c.read[b].rest) <= Len(b)
             /\ c.read[b].kind = "ok" =>
                  /\ c.read[b].value \in Int32
                  /\ Len(c.read[b].rest) + Size(c.read[b].value) <= Len(b)
                  /\ Len(c.read[b].rest) \in Nat /\ Len(b) \in Nat
  <2>1. \/ /\ c.read[b] = Ok(c.read[b].value, c.read[b].rest)
           /\ c.read[b].value \in Int32 /\ c.read[b].rest \in Bytes
           /\ Len(c.read[b].rest) + Size(c.read[b].value) <= Len(b)
        \/ c.read[b] = Fails("eof")
        \/ c.read[b] = Fails("data")
    BY <1>1, ReadVarIntIs
  <2>2. \A kind : Fails(kind).rest = << >> /\ Fails(kind).kind = kind
    BY DEF Fails
  <2>3. Len(b) \in Nat /\ << >> \in Bytes /\ Len(<< >>) = 0
    BY BytesConcat
  <2>4. CASE c.read[b] = Fails("eof")
    BY <2>2, <2>3, <2>4
  <2>5. CASE c.read[b] = Fails("data")
    BY <2>2, <2>3, <2>5
  <2>6. CASE /\ c.read[b].value \in Int32 /\ c.read[b].rest \in Bytes
             /\ Len(c.read[b].rest) + Size(c.read[b].value) <= Len(b)
    <3>1. Size(c.read[b].value) \in 1 .. 5 /\ Len(c.read[b].rest) \in Nat
      BY <2>6, <1>2, BytesConcat
    <3> QED
      BY <2>3, <2>6, <3>1
  <2> QED
    BY <2>1, <2>4, <2>5, <2>6
<1>4. Typed(c)
  BY <1>1, <1>2, <1>3 DEF Typed
<1>5. Prefix(c)
  <2> SUFFICES ASSUME NEW n \in Int32, NEW rest \in Bytes
               PROVE  ReadVarInt(VarIntBytes(n) \o rest) = Ok(n, rest)
    <3>1. \A n \in Int32, rest \in Bytes :
            c.read[c.write[n].bytes \o rest] = ReadVarInt(VarIntBytes(n) \o rest)
      <4> TAKE n \in Int32, rest \in Bytes
      <4>1. VarIntBytes(n) \o rest \in Bytes /\ c.write[n].bytes = VarIntBytes(n)
        BY <1>1, <1>2, BytesConcat
      <4> QED
        BY <1>1, <4>1
    <3> QED
      BY <1>1, <3>1, Zenon DEF Prefix
  <2> DEFINE f == VarIntBytes(n)  b == f \o rest
  <2>1. f \in Bytes /\ Len(f) = Size(n) /\ Size(n) \in 1 .. 5 /\ Len(rest) \in Nat
    BY <1>2, BytesConcat
  <2>2. b \in Bytes /\ Len(b) = Size(n) + Len(rest)
    BY <2>1, BytesConcat
  <2>3. \A k \in 1 .. Size(n) + Len(rest) : k <= Size(n) => b[k] = f[k]
    BY <2>1, ConcatProperties DEF Bytes
  <2>4. After(b, Size(n)) = rest
    BY <2>1, AfterConcat
  <2> HIDE DEF b
  <2>5. \A k \in 1 .. Size(n) : b[k] = VarIntBytes(n)[k]
    BY <2>1, <2>3
  <2>6. Len(b) >= Size(n)
    BY <2>1, <2>2
  <2> QED
    BY <2>2, <2>4, <2>5, <2>6, ReadVarIntFrom DEF b
<1>6. Frugal(c)
  <2>1. \A b \in Bytes : Len(b) \in Nat
    BY BytesConcat
  <2> QED
    BY <1>1, <1>2, <1>3, <2>1 DEF Frugal
<1>7. Hungry(c)
  <2>1. \A b \in Bytes : Len(b) \in Nat
    BY BytesConcat
  <2> QED
    BY <1>2, <1>3, <2>1 DEF Hungry
<1> QED
  BY <1>4, <1>5, <1>6, <1>7 DEF c

LEMMA UnitPromises ==
  /\ Typed(Unit) /\ Prefix(Unit) /\ Frugal(Unit)
  /\ Values(Unit) = {<< >>}
<1>1. /\ Values(Unit) = {<< >>}
      /\ Unit.write[<< >>].ok = TRUE
      /\ Unit.write[<< >>].bytes = << >>
      /\ Unit.write[<< >>].written = Len(<< >>)
      /\ \A b \in Bytes : Unit.read[b] = Ok(<< >>, b)
  BY DEF Unit, Values, Nothing, Wrote
<1>2. \A b \in Bytes : Unit.read[b].value = << >> /\ Unit.read[b].rest = b
  <2> TAKE b \in Bytes
  <2>1. \A v, r : Ok(v, r).value = v /\ Ok(v, r).rest = r
    BY DEF Ok
  <2>2. Unit.read[b] = Ok(<< >>, b)
    BY <1>1
  <2> QED
    BY <2>1, <2>2
<1>3. Typed(Unit)
  <2>1. ASSUME NEW v \in Values(Unit)
        PROVE  /\ Unit.write[v].ok \in BOOLEAN
               /\ Unit.write[v].bytes \in Bytes
               /\ Unit.write[v].written = Len(Unit.write[v].bytes)
    <3>1. v = << >> /\ << >> \in Bytes
      BY <1>1, BytesConcat
    <3> QED
      BY <1>1, <3>1
  <2>2. ASSUME NEW b \in Bytes
        PROVE  /\ Unit.read[b].rest \in Bytes
               /\ Len(Unit.read[b].rest) <= Len(b)
               /\ Unit.read[b].kind = "ok" => Unit.read[b].value \in Values(Unit)
    <3>1. Len(b) \in Nat /\ Unit.read[b].rest = b /\ Unit.read[b].value \in Values(Unit)
      BY <1>1, <1>2, BytesConcat
    <3> QED
      BY <3>1
  <2> QED
    BY <2>1, <2>2 DEF Typed
<1>4. Prefix(Unit)
  BY <1>1, BytesConcat DEF Prefix
<1>5. Frugal(Unit)
  BY <1>1, <1>2, BytesConcat DEF Frugal
<1> QED
  BY <1>1, <1>3, <1>4, <1>5

(* A length in the limit is a number of 32 bits.                           *)
LEMMA LimitIs ==
  LengthLimit \in Nat /\ \A n \in Nat : n <= LengthLimit => n \in Int32
BY LimitAssumption, SMT DEF Int32

(* What a text is read from: as many bytes as its length says.             *)
LEMMA StringPromises ==
  Typed(String) /\ Prefix(String) /\ Frugal(String) /\ Hungry(String)
<1> DEFINE c == String
<1>1. /\ Values(c) = {s \in Bytes : Utf8(s)}
      /\ \A v \in Values(c) : c.write[v] = WriteString(v)
      /\ \A b \in Bytes : c.read[b] = ReadString(b)
  BY DEF String, Values
<1> HIDE DEF c
<1>2. \A v : v \in Values(c) <=> v \in Bytes /\ Utf8(v)
  BY <1>1
<1>3. \A n \in Nat : n <= LengthLimit => n \in Int32
  BY LimitIs
<1>4. ASSUME NEW v \in Bytes
      PROVE  /\ Len(v) > LengthLimit => WriteString(v) = TooLong
             /\ Len(v) <= LengthLimit =>
                  /\ Len(v) \in Int32 /\ Len(v) \in Nat
                  /\ WriteString(v).ok = TRUE
                  /\ WriteString(v).bytes = VarIntBytes(Len(v)) \o v
                  /\ WriteString(v).written = Size(Len(v)) + Len(v)
                  /\ Len(VarIntBytes(Len(v))) = Size(Len(v))
                  /\ VarIntBytes(Len(v)) \in Bytes
  <2>1. Len(v) \in Nat /\ LengthLimit \in Nat
    BY BytesConcat, LimitIs
  <2>2. ASSUME Len(v) <= LengthLimit
        PROVE  /\ Len(v) \in Int32 /\ VarIntBytes(Len(v)) \in Bytes
               /\ Len(VarIntBytes(Len(v))) = Size(Len(v))
    BY <1>3, <2>1, <2>2, VarIntBytesAre
  <2>3. ~(Len(v) > LengthLimit) => WriteString(v) = Then(WriteVarInt(Len(v)), Wrote(Len(v), v))
    BY DEF WriteString
  <2>4. \A m, a, n, b : /\ Then(Wrote(m, a), Wrote(n, b)).ok = TRUE
                        /\ Then(Wrote(m, a), Wrote(n, b)).bytes = a \o b
                        /\ Then(Wrote(m, a), Wrote(n, b)).written = m + n
    BY DEF Then, Wrote
  <2>5. Len(v) > LengthLimit => WriteString(v) = TooLong
    BY DEF WriteString
  <2>6. ASSUME Len(v) <= LengthLimit
        PROVE  /\ WriteString(v).ok = TRUE
               /\ WriteString(v).bytes = VarIntBytes(Len(v)) \o v
               /\ WriteString(v).written = Size(Len(v)) + Len(v)
    <3>1. ~(Len(v) > LengthLimit)
      BY <2>1, <2>6
    <3>2. WriteString(v) = Then(Wrote(Size(Len(v)), VarIntBytes(Len(v))), Wrote(Len(v), v))
      BY <2>3, <3>1 DEF WriteVarInt
    <3> QED
      BY <2>4, <3>2
  <2> QED
    BY <2>1, <2>2, <2>5, <2>6, Zenon
<1>5. ASSUME NEW b \in Bytes, c.read[b].kind = "ok"
      PROVE  LET len == ReadVarInt(b) IN
             /\ c.read[b].value \in Bytes /\ Utf8(c.read[b].value)
             /\ c.read[b].rest \in Bytes
             /\ Len(c.read[b].value) = len.value
             /\ len.value \in Nat
             /\ Len(c.read[b].rest) + len.value + Size(len.value) <= Len(b)
             /\ Size(len.value) \in 1 .. 5
  <2> DEFINE len == ReadVarInt(b)  text == SubSeq(len.rest, 1, len.value)
  <2>1. len.kind = "ok" /\ ~(len.value < 0) /\ ~(len.value > Len(len.rest)) /\ Utf8(text)
    BY <1>1, <1>5 DEF ReadString, Fails
  <2>2. c.read[b] = Ok(text, After(len.rest, len.value))
    BY <1>1, <2>1 DEF ReadString
  <2>3. /\ len.value \in Int32 /\ len.rest \in Bytes
        /\ Len(len.rest) + Size(len.value) <= Len(b)
    BY <2>1, ReadVarIntIs DEF Fails
  <2> HIDE DEF len
  <2>4. /\ len.value \in 0 .. Len(len.rest) /\ len.value \in Nat
        /\ Size(len.value) \in 1 .. 5 /\ Len(len.rest) \in Nat
    <3>1. len.value \in Int /\ Len(len.rest) \in Nat
      BY <2>3, BytesConcat DEF Int32
    <3> QED
      BY <2>1, <2>3, <3>1, SizeOf
  <2>5. /\ text \in Bytes /\ Len(text) = len.value
        /\ After(len.rest, len.value) \in Bytes
        /\ Len(After(len.rest, len.value)) = Len(len.rest) - len.value
    BY <2>3, <2>4, AfterIs
  <2> HIDE DEF text
  <2>6. c.read[b].value = text /\ c.read[b].rest = After(len.rest, len.value)
    BY <2>2 DEF Ok
  <2>7. Len(b) \in Nat
    BY BytesConcat
  <2>8. Len(c.read[b].rest) + len.value + Size(len.value) <= Len(b)
    BY <2>3, <2>4, <2>5, <2>6, <2>7
  <2> QED
    BY <2>1, <2>4, <2>5, <2>6, <2>8 DEF len
<1>6. ASSUME NEW b \in Bytes, c.read[b].kind # "ok"
      PROVE  c.read[b].rest \in Bytes /\ Len(c.read[b].rest) <= Len(b)
  <2> DEFINE len == ReadVarInt(b)  text == SubSeq(len.rest, 1, len.value)
  <2>1. len.rest \in Bytes /\ Len(len.rest) <= Len(b)
    BY VarIntPromises DEF Typed, VarInt
  <2>2. \A kind : Fails(kind).rest = << >>
    BY DEF Fails
  <2>3. \A v, r : Ok(v, r).kind = "ok"
    BY DEF Ok
  <2>4. c.read[b] = len \/ \E kind : c.read[b] = Fails(kind)
    <3>1. c.read[b] = ReadString(b)
      BY <1>1
    <3>2. CASE len.kind # "ok"
      BY <3>1, <3>2 DEF ReadString
    <3>3. CASE len.kind = "ok" /\ len.value < 0
      BY <3>1, <3>3 DEF ReadString
    <3>4. CASE len.kind = "ok" /\ ~(len.value < 0) /\ len.value > Len(len.rest)
      BY <3>1, <3>4 DEF ReadString
    <3>5. CASE len.kind = "ok" /\ ~(len.value < 0) /\ ~(len.value > Len(len.rest)) /\ ~Utf8(text)
      BY <3>1, <3>5 DEF ReadString
    <3>6. CASE len.kind = "ok" /\ ~(len.value < 0) /\ ~(len.value > Len(len.rest)) /\ Utf8(text)
      <4>1. c.read[b] = Ok(text, After(len.rest, len.value))
        BY <3>1, <3>6 DEF ReadString
      <4> QED
        BY <1>6, <2>3, <4>1
    <3> QED
      BY <3>2, <3>3, <3>4, <3>5, <3>6
  <2> HIDE DEF len
  <2> QED
    BY <2>1, <2>2, <2>4, BytesConcat
<1>7. \A b \in Bytes : Len(b) \in Nat
  BY BytesConcat
<1>8. Typed(c)
  <2>1. ASSUME NEW v \in Values(c)
        PROVE  /\ c.write[v].ok \in BOOLEAN
               /\ c.write[v].bytes \in Bytes
               /\ c.write[v].written = Len(c.write[v].bytes)
    <3>1. v \in Bytes /\ c.write[v] = WriteString(v) /\ LengthLimit \in Nat /\ Len(v) \in Nat
      BY <1>1, <1>2, <1>7, LimitIs
    <3>2. CASE Len(v) > LengthLimit
      <4>1. c.write[v] = TooLong
        BY <1>4, <3>1, <3>2, Zenon
      <4> QED
        BY <4>1, BytesConcat DEF TooLong
    <3>3. CASE Len(v) <= LengthLimit
      <4>1. /\ c.write[v].ok = TRUE
            /\ c.write[v].bytes = VarIntBytes(Len(v)) \o v
            /\ c.write[v].written = Size(Len(v)) + Len(v)
            /\ Len(VarIntBytes(Len(v))) = Size(Len(v))
            /\ VarIntBytes(Len(v)) \in Bytes
        BY <1>4, <3>1, <3>3, Zenon
      <4>2. \A f \in Bytes : f \o v \in Bytes /\ Len(f \o v) = Len(f) + Len(v)
        BY <3>1, BytesConcat, Zenon
      <4> QED
        BY <4>1, <4>2
    <3> QED
      BY <3>1, <3>2, <3>3
  <2>2. ASSUME NEW b \in Bytes
        PROVE  /\ c.read[b].rest \in Bytes
               /\ Len(c.read[b].rest) <= Len(b)
               /\ c.read[b].kind = "ok" => c.read[b].value \in Values(c)
    <3>1. CASE c.read[b].kind = "ok"
      <4> DEFINE value == c.read[b].value  rest == c.read[b].rest
                 len == ReadVarInt(b).value
      <4>1. /\ value \in Bytes /\ Utf8(value) /\ rest \in Bytes
            /\ len \in Nat /\ Len(rest) + len + Size(len) <= Len(b) /\ Size(len) \in 1 .. 5
        BY <1>5, <3>1, Zenon
      <4> HIDE DEF value, rest, len
      <4>2. value \in Values(c)
        BY <1>2, <4>1
      <4>3. Len(rest) \in Nat /\ Len(b) \in Nat
        BY <1>7, <4>1
      <4>4. Len(rest) <= Len(b)
        <5> DEFINE r == Len(rest)  s == Size(len)  l == Len(b)
        <5>1. r \in Nat /\ l \in Nat /\ s \in Nat /\ r + len + s <= l
          BY <4>1, <4>3
        <5> HIDE DEF r, s, l
        <5>2. r <= l
          BY <4>1, <5>1
        <5> QED
          BY <5>2 DEF r, l
      <4> QED
        BY <4>1, <4>2, <4>4 DEF value, rest
    <3>2. CASE c.read[b].kind # "ok"
      BY <1>6, <3>2
    <3> QED
      BY <3>1, <3>2
  <2> QED
    BY <2>1, <2>2 DEF Typed
<1>9. Prefix(c)
  <2> SUFFICES ASSUME NEW v \in Values(c), c.write[v].ok, NEW rest \in Bytes
               PROVE  c.read[c.write[v].bytes \o rest] = Ok(v, rest)
    BY DEF Prefix
  <2>1. /\ v \in Bytes /\ Utf8(v) /\ c.write[v] = WriteString(v)
        /\ LengthLimit \in Nat /\ Len(v) \in Nat
    BY <1>1, <1>2, <1>7, LimitIs
  <2>2. Len(v) <= LengthLimit
    <3>1. TooLong.ok = FALSE
      BY DEF TooLong
    <3>2. ~(Len(v) > LengthLimit)
      BY <1>4, <2>1, <3>1, Zenon
    <3> QED
      BY <2>1, <3>2
  <2> DEFINE f == VarIntBytes(Len(v))  b == f \o (v \o rest)  len == ReadVarInt(b)
  <2>3. c.write[v].bytes \o rest = b /\ b \in Bytes /\ v \o rest \in Bytes
    <3>1. c.write[v].bytes = VarIntBytes(Len(v)) \o v /\ VarIntBytes(Len(v)) \in Bytes
      BY <1>4, <2>1, <2>2, Zenon
    <3>2. \A g \in Bytes : (g \o v) \o rest = g \o (v \o rest) /\ g \o (v \o rest) \in Bytes
      <4> TAKE g \in Bytes
      <4>1. (g \o v) \o rest = g \o (v \o rest)
        BY <2>1, BytesConcat, Zenon
      <4>2. g \o (v \o rest) \in Bytes
        <5>1. v \o rest \in Bytes
          BY <2>1, BytesConcat, Zenon
        <5> QED
          BY <5>1, BytesConcat, Zenon
      <4> QED
        BY <4>1, <4>2
    <3>3. v \o rest \in Bytes
      BY <2>1, BytesConcat, Zenon
    <3> QED
      BY <3>1, <3>2, <3>3
  <2>4. len = Ok(Len(v), v \o rest)
    <3>1. VarInt.read[VarInt.write[Len(v)].bytes \o (v \o rest)] = Ok(Len(v), v \o rest)
      <4>1. Len(v) \in Values(VarInt) /\ VarInt.write[Len(v)].ok = TRUE
        BY <1>3, <2>1, <2>2 DEF Values, VarInt, WriteVarInt, Wrote
      <4> QED
        BY <2>3, <4>1, VarIntPromises DEF Prefix
    <3>2. VarInt.write[Len(v)].bytes = f
      BY <1>3, <2>1, <2>2 DEF VarInt, WriteVarInt, Wrote
    <3>3. VarInt.read[b] = ReadVarInt(b)
      BY <2>3 DEF VarInt
    <3> HIDE DEF f
    <3> QED
      BY <3>1, <3>2, <3>3
  <2> HIDE DEF f, b, len
  <2>5. len.kind = "ok" /\ len.value = Len(v) /\ len.rest = v \o rest
    BY <2>4 DEF Ok
  <2>6. /\ SubSeq(len.rest, 1, len.value) = v /\ After(len.rest, len.value) = rest
        /\ Len(len.rest) = Len(v) + Len(rest) /\ Len(rest) \in Nat
    BY <2>1, <2>5, AfterConcat, BytesConcat
  <2>7. ~(len.value < 0) /\ ~(len.value > Len(len.rest))
    BY <2>1, <2>5, <2>6
  <2>8. ReadString(b) = Ok(v, rest)
    BY <2>1, <2>5, <2>6, <2>7 DEF ReadString, len
  <2> QED
    BY <1>1, <2>3, <2>8
<1>10. Frugal(c)
  <2> SUFFICES ASSUME NEW b \in Bytes, c.read[b].kind = "ok", Len(b) <= LengthLimit
               PROVE  /\ c.write[c.read[b].value].ok
                      /\ c.write[c.read[b].value].written + Len(c.read[b].rest) <= Len(b)
    BY DEF Frugal
  <2> DEFINE v == c.read[b].value
  <2>1. /\ v \in Bytes /\ Utf8(v) /\ Len(c.read[b].rest) \in Nat
        /\ Len(c.read[b].rest) + Len(v) + Size(Len(v)) <= Len(b)
        /\ Len(v) \in Nat /\ Size(Len(v)) \in 1 .. 5 /\ Len(b) \in Nat
    BY <1>5, <1>7
  <2> DEFINE n == Len(v)  k == Size(n)  m == Len(c.read[b].rest)  w == c.write[v].written
  <2>2. n \in Nat /\ k \in 1 .. 5 /\ m \in Nat /\ Len(b) \in Nat /\ m + n + k <= Len(b)
    BY <2>1
  <2>3. LengthLimit \in Nat
    BY LimitIs
  <2>4. n <= LengthLimit
    <3> HIDE DEF n, k, m
    <3> QED
      BY <2>2, <2>3
  <2>5. c.write[v].ok = TRUE /\ w = k + n
    <3>1. c.write[v] = WriteString(v)
      BY <1>1, <1>2, <2>1
    <3> QED
      BY <1>4, <2>1, <2>4, <3>1, Zenon
  <2>6. w + m <= Len(b)
    <3> HIDE DEF n, k, m, w
    <3> QED
      BY <2>2, <2>5
  <2> QED
    BY <2>5, <2>6
<1>11. Hungry(c)
  <2> SUFFICES ASSUME NEW b \in Bytes, c.read[b].kind = "ok"
               PROVE  Len(c.read[b].rest) < Len(b)
    BY DEF Hungry
  <2> DEFINE n == ReadVarInt(b).value  k == Size(n)  m == Len(c.read[b].rest)
  <2>1. n \in Nat /\ k \in 1 .. 5 /\ m \in Nat /\ Len(b) \in Nat /\ m + n + k <= Len(b)
    BY <1>5, <1>7
  <2> HIDE DEF n, k, m
  <2>2. m < Len(b)
    BY <2>1
  <2> QED
    BY <2>2 DEF m
<1> QED
  BY <1>8, <1>9, <1>10, <1>11 DEF c

-----------------------------------------------------------------------------
(* A struct keeps what its fields keep: what comes before the last field   *)
(* must not need the end of the bytes.                                     *)

LEMMA PairPromises ==
  ASSUME NEW one, NEW two, Typed(one), Typed(two)
  PROVE  /\ Typed(Pair(one, two))
         /\ Prefix(one) /\ Prefix(two) => Prefix(Pair(one, two))
         /\ Prefix(one) /\ Whole(two) => Whole(Pair(one, two))
         /\ Frugal(one) /\ Frugal(two) => Frugal(Pair(one, two))
         /\ Hungry(one) => Hungry(Pair(one, two))
<1> DEFINE c == Pair(one, two)
<1>2. Values(c) = Values(one) \X Values(two)
  BY DEF Pair, Values
<1>1. \A u \in Values(c) : \E v \in Values(one), w \in Values(two) : u = <<v, w>>
  BY <1>2
<1>3. ASSUME NEW v \in Values(one), NEW w \in Values(two)
      PROVE  /\ one.write[v].ok /\ two.write[w].ok =>
                  /\ c.write[<<v, w>>].ok = TRUE
                  /\ c.write[<<v, w>>].bytes = one.write[v].bytes \o two.write[w].bytes
                  /\ c.write[<<v, w>>].written = one.write[v].written + two.write[w].written
             /\ ~(one.write[v].ok /\ two.write[w].ok) => c.write[<<v, w>>] = TooLong
  <2>1. c.write[<<v, w>>] = Then(one.write[v], two.write[w])
    BY DEF Pair, Values
  <2> HIDE DEF c
  <2>2. CASE one.write[v].ok /\ two.write[w].ok
    <3> DEFINE m == one.write[v].written + two.write[w].written
               f == one.write[v].bytes \o two.write[w].bytes
    <3>1. c.write[<<v, w>>] = [ok |-> TRUE, written |-> m, bytes |-> f]
      BY <2>1, <2>2, Zenon DEF Then
    <3> HIDE DEF m, f
    <3>2. c.write[<<v, w>>].ok = TRUE /\ c.write[<<v, w>>].written = m /\ c.write[<<v, w>>].bytes = f
      BY <3>1
    <3> QED
      BY <2>2, <3>2, Zenon DEF m, f
  <2>3. CASE ~(one.write[v].ok /\ two.write[w].ok)
    <3>1. c.write[<<v, w>>] = TooLong
      BY <2>1, <2>3 DEF Then
    <3> QED
      BY <2>3, <3>1
  <2> QED
    BY <2>2, <2>3
<1>4. ASSUME NEW b \in Bytes
      PROVE  /\ one.read[b].kind # "ok" => c.read[b] = one.read[b]
             /\ one.read[b].kind = "ok" /\ two.read[one.read[b].rest].kind # "ok" =>
                  c.read[b] = two.read[one.read[b].rest]
             /\ one.read[b].kind = "ok" /\ two.read[one.read[b].rest].kind = "ok" =>
                  c.read[b] = Ok(<<one.read[b].value, two.read[one.read[b].rest].value>>,
                                 two.read[one.read[b].rest].rest)
  <2>1. c.read[b] = ReadBoth(one.read[b], two)
    BY DEF Pair
  <2> QED
    BY <2>1 DEF ReadBoth
<1> HIDE DEF c
<1>5. ASSUME NEW b \in Bytes, c.read[b].kind = "ok"
      PROVE  /\ one.read[b].kind = "ok" /\ two.read[one.read[b].rest].kind = "ok"
             /\ c.read[b].value = <<one.read[b].value, two.read[one.read[b].rest].value>>
             /\ c.read[b].rest = two.read[one.read[b].rest].rest
  <2> DEFINE x == one.read[b]  y == two.read[x.rest]
  <2>1. x.kind = "ok" /\ y.kind = "ok"
    BY <1>4, <1>5
  <2>2. c.read[b] = Ok(<<x.value, y.value>>, y.rest)
    BY <1>4, <2>1
  <2> QED
    BY <2>1, <2>2 DEF Ok
<1>6. \A b \in Bytes : Len(b) \in Nat
  BY BytesConcat
<1>7. \A b \in Bytes : /\ one.read[b].rest \in Bytes
                       /\ Len(one.read[b].rest) <= Len(b)
                       /\ one.read[b].kind = "ok" => one.read[b].value \in Values(one)
  BY DEF Typed
<1>8. \A b \in Bytes : /\ two.read[b].rest \in Bytes
                       /\ Len(two.read[b].rest) <= Len(b)
                       /\ two.read[b].kind = "ok" => two.read[b].value \in Values(two)
  BY DEF Typed
<1>9. Typed(c)
  <2>1. ASSUME NEW u \in Values(c)
        PROVE  /\ c.write[u].ok \in BOOLEAN
               /\ c.write[u].bytes \in Bytes
               /\ c.write[u].written = Len(c.write[u].bytes)
    <3>1. PICK v \in Values(one), w \in Values(two) : u = <<v, w>>
      BY <1>1
    <3>2. /\ one.write[v].bytes \in Bytes /\ two.write[w].bytes \in Bytes
          /\ one.write[v].written = Len(one.write[v].bytes)
          /\ two.write[w].written = Len(two.write[w].bytes)
      BY DEF Typed
    <3>3. CASE one.write[v].ok /\ two.write[w].ok
      <4>1. /\ c.write[u].ok = TRUE
            /\ c.write[u].bytes = one.write[v].bytes \o two.write[w].bytes
            /\ c.write[u].written = Len(one.write[v].bytes) + Len(two.write[w].bytes)
        BY <1>3, <3>1, <3>2, <3>3
      <4> DEFINE x == one.write[v].bytes  y == two.write[w].bytes
      <4>2. x \o y \in Bytes /\ Len(x \o y) = Len(x) + Len(y)
        BY <3>2, BytesConcat, Zenon
      <4> QED
        BY <4>1, <4>2
    <3>4. CASE ~(one.write[v].ok /\ two.write[w].ok)
      <4>1. c.write[u] = TooLong
        BY <1>3, <3>1, <3>4
      <4> QED
        BY <4>1, BytesConcat DEF TooLong
    <3> QED
      BY <3>3, <3>4
  <2>2. ASSUME NEW b \in Bytes
        PROVE  /\ c.read[b].rest \in Bytes
               /\ Len(c.read[b].rest) <= Len(b)
               /\ c.read[b].kind = "ok" => c.read[b].value \in Values(c)
    <3> DEFINE x == one.read[b]  y == two.read[x.rest]
    <3>1. /\ x.rest \in Bytes /\ Len(x.rest) <= Len(b)
          /\ y.rest \in Bytes /\ Len(y.rest) <= Len(x.rest)
          /\ Len(b) \in Nat /\ Len(x.rest) \in Nat /\ Len(y.rest) \in Nat
      BY <1>6, <1>7, <1>8
    <3>2. Len(y.rest) <= Len(b)
      <4> HIDE DEF x, y
      <4> QED
        BY <3>1
    <3>3. CASE c.read[b].kind = "ok"
      <4>1. x.value \in Values(one) /\ y.value \in Values(two)
        BY <1>5, <1>7, <1>8, <3>1, <3>3
      <4> QED
        BY <1>2, <1>5, <3>1, <3>2, <3>3, <4>1
    <3>4. CASE c.read[b].kind # "ok"
      <4>1. c.read[b] = x \/ c.read[b] = y
        <5>1. \A v, r : Ok(v, r).kind = "ok"
          BY DEF Ok
        <5>2. /\ x.kind # "ok" => c.read[b] = x
              /\ x.kind = "ok" /\ y.kind # "ok" => c.read[b] = y
              /\ x.kind = "ok" /\ y.kind = "ok" =>
                   c.read[b] = Ok(<<x.value, y.value>>, y.rest)
          BY <1>4
        <5> QED
          BY <3>4, <5>1, <5>2
      <4> QED
        BY <3>1, <3>2, <3>4, <4>1
    <3> QED
      BY <3>3, <3>4
  <2> QED
    BY <2>1, <2>2 DEF Typed
<1>10. ASSUME NEW v \in Values(one), NEW w \in Values(two), c.write[<<v, w>>].ok
       PROVE  /\ one.write[v].ok /\ two.write[w].ok
              /\ c.write[<<v, w>>].bytes = one.write[v].bytes \o two.write[w].bytes
              /\ one.write[v].bytes \in Bytes /\ two.write[w].bytes \in Bytes
  <2>1. TooLong.ok = FALSE
    BY DEF TooLong
  <2> QED
    BY <1>3, <1>10, <2>1, ZenonT(30) DEF Typed
<1>11. ASSUME NEW v \in Values(one), NEW w \in Values(two), Prefix(one),
              NEW x \in Bytes, NEW y \in Bytes, NEW rest,
              one.write[v].ok, x = one.write[v].bytes, two.read[y] = Ok(w, rest)
       PROVE  c.read[x \o y] = Ok(<<v, w>>, rest)
  <2>1. one.read[x \o y] = Ok(v, y)
    BY <1>11 DEF Prefix
  <2>2. /\ one.read[x \o y].kind = "ok" /\ one.read[x \o y].value = v
        /\ one.read[x \o y].rest = y
    BY <2>1 DEF Ok
  <2>3. two.read[y].kind = "ok" /\ two.read[y].value = w /\ two.read[y].rest = rest
    BY <1>11 DEF Ok
  <2>4. x \o y \in Bytes
    BY BytesConcat
  <2> QED
    BY <1>4, <2>2, <2>3, <2>4
<1>12. ASSUME Prefix(one), Prefix(two) PROVE Prefix(c)
  <2> SUFFICES ASSUME NEW u \in Values(c), c.write[u].ok, NEW rest \in Bytes
               PROVE  c.read[c.write[u].bytes \o rest] = Ok(u, rest)
    BY DEF Prefix
  <2>1. PICK v \in Values(one), w \in Values(two) : u = <<v, w>>
    BY <1>1
  <2> DEFINE x == one.write[v].bytes  y == two.write[w].bytes
  <2>2. /\ one.write[v].ok /\ two.write[w].ok /\ c.write[u].bytes = x \o y
        /\ x \in Bytes /\ y \in Bytes
    BY <1>10, <2>1
  <2>3. two.read[y \o rest] = Ok(w, rest)
    BY <1>12, <2>2 DEF Prefix
  <2>4. y \o rest \in Bytes
    BY <2>2, BytesConcat, Zenon
  <2>5. (x \o y) \o rest = x \o (y \o rest)
    <3>1. x \in Bytes /\ y \in Bytes
      BY <2>2
    <3> HIDE DEF x, y
    <3> QED
      BY <3>1, BytesConcat, Zenon
  <2>6. c.read[x \o (y \o rest)] = Ok(<<v, w>>, rest)
    BY <1>11, <1>12, <2>2, <2>3, <2>4
  <2> QED
    BY <2>1, <2>2, <2>5, <2>6
<1>13. ASSUME Prefix(one), Whole(two) PROVE Whole(c)
  <2> SUFFICES ASSUME NEW u \in Values(c), c.write[u].ok
               PROVE  c.read[c.write[u].bytes] = Ok(u, << >>)
    BY DEF Whole
  <2>1. PICK v \in Values(one), w \in Values(two) : u = <<v, w>>
    BY <1>1
  <2> DEFINE x == one.write[v].bytes  y == two.write[w].bytes
  <2>2. /\ one.write[v].ok /\ two.write[w].ok /\ c.write[u].bytes = x \o y
        /\ x \in Bytes /\ y \in Bytes
    BY <1>10, <2>1
  <2>3. two.read[y] = Ok(w, << >>)
    BY <1>13, <2>2 DEF Whole
  <2> QED
    BY <1>11, <1>13, <2>1, <2>2, <2>3
<1>14. ASSUME Frugal(one), Frugal(two) PROVE Frugal(c)
  <2> SUFFICES ASSUME NEW b \in Bytes, c.read[b].kind = "ok", Len(b) <= LengthLimit
               PROVE  /\ c.write[c.read[b].value].ok
                      /\ c.write[c.read[b].value].written + Len(c.read[b].rest) <= Len(b)
    BY DEF Frugal
  <2> DEFINE x == one.read[b]  y == two.read[x.rest]  v == x.value  w == y.value
             m == one.write[v].written  n == two.write[w].written
  <2>1. /\ x.kind = "ok" /\ y.kind = "ok"
        /\ c.read[b].value = <<v, w>> /\ c.read[b].rest = y.rest
        /\ x.rest \in Bytes /\ v \in Values(one) /\ w \in Values(two)
        /\ Len(x.rest) <= Len(b) /\ Len(x.rest) \in Nat /\ Len(b) \in Nat
        /\ y.rest \in Bytes /\ Len(y.rest) \in Nat
    BY <1>5, <1>6, <1>7, <1>8
  <2>2. one.write[v].ok /\ m + Len(x.rest) <= Len(b)
    BY <1>14, <2>1 DEF Frugal
  <2>3. two.write[w].ok /\ n + Len(y.rest) <= Len(x.rest)
    <3>1. Len(x.rest) <= LengthLimit
      <4> HIDE DEF x
      <4> QED
        BY <2>1, LimitIs
    <3> QED
      BY <1>14, <2>1, <3>1 DEF Frugal
  <2>4. m \in Nat /\ n \in Nat
    BY <1>6, <2>1 DEF Typed
  <2>5. c.write[<<v, w>>].ok /\ c.write[<<v, w>>].written = m + n
    BY <1>3, <2>1, <2>2, <2>3
  <2>6. (m + n) + Len(y.rest) <= Len(b)
    <3> HIDE DEF x, y, v, w, m, n
    <3> QED
      BY <2>1, <2>2, <2>3, <2>4
  <2> QED
    BY <2>1, <2>5, <2>6
<1>15. ASSUME Hungry(one) PROVE Hungry(c)
  <2> SUFFICES ASSUME NEW b \in Bytes, c.read[b].kind = "ok"
               PROVE  Len(c.read[b].rest) < Len(b)
    BY DEF Hungry
  <2> DEFINE x == one.read[b]  y == two.read[x.rest]
  <2>1. /\ x.kind = "ok" /\ c.read[b].rest = y.rest /\ x.rest \in Bytes
        /\ Len(x.rest) \in Nat /\ Len(b) \in Nat
        /\ Len(y.rest) \in Nat /\ Len(y.rest) <= Len(x.rest)
    BY <1>5, <1>6, <1>7, <1>8
  <2>2. Len(x.rest) < Len(b)
    BY <1>15, <2>1 DEF Hungry
  <2> HIDE DEF x, y
  <2> QED
    BY <2>1, <2>2
<1> QED
  BY <1>9, <1>12, <1>13, <1>14, <1>15 DEF c

-----------------------------------------------------------------------------
(* Lists.                                                                  *)

LEMMA RepeatIs ==
  ASSUME NEW of
  PROVE  /\ Repeat(of, 0) = Unit
         /\ \A n \in Nat : Repeat(of, n + 1) = Longer(of, n + 1, Repeat(of, n))
<1> DEFINE Good(f, n) == f = [m \in 0 .. n |-> IF m = 0 THEN Unit ELSE Longer(of, m, f[m - 1])]
           F(n) == CHOOSE f : Good(f, n)
           S == {n \in Nat : \E f : Good(f, n)}
           T == {m \in Nat : \A n, k \in Nat : m <= n /\ m <= k => F(n)[m] = F(k)[m]}
<1>1. 0 \in S
  <2>1. Good([m \in 0 .. 0 |-> Unit], 0)
    OBVIOUS
  <2> QED
    BY <2>1
<1>2. ASSUME NEW n \in Nat, n \in S PROVE n + 1 \in S
  <2>1. PICK f : Good(f, n)
    BY <1>2
  <2> DEFINE g == [m \in 0 .. n + 1 |-> IF m = 0 THEN Unit ELSE Longer(of, m, f[m - 1])]
  <2>2. \A m \in 0 .. n + 1 : m # 0 => g[m - 1] = f[m - 1]
    BY <2>1
  <2>3. Good(g, n + 1)
    BY <2>2
  <2>4. \E h : Good(h, n + 1)
    <3> HIDE DEF Good
    <3> QED
      BY <2>3
  <2> HIDE DEF Good
  <2> QED
    BY <2>4
<1>3. \A n \in Nat : n \in S
  <2> HIDE DEF S
  <2> QED
    BY <1>1, <1>2, SetInduction
<1>4. \A n \in Nat : Good(F(n), n)
  BY <1>3
<1>5. \A n \in Nat : F(n)[0] = Unit
  <2> HIDE DEF F
  <2> QED
    BY <1>4
<1>6. \A n \in Nat, m \in Nat : m + 1 <= n => F(n)[m + 1] = Longer(of, m + 1, F(n)[m])
  <2> HIDE DEF F
  <2> TAKE n \in Nat, m \in Nat
  <2> HAVE m + 1 <= n
  <2>1. m + 1 \in 0 .. n /\ m + 1 # 0 /\ (m + 1) - 1 = m
    OBVIOUS
  <2>2. Good(F(n), n)
    BY <1>4
  <2> QED
    BY <2>1, <2>2
<1> HIDE DEF F
<1>7. 0 \in T
  BY <1>5
<1>8. ASSUME NEW m \in Nat, m \in T PROVE m + 1 \in T
  <2> SUFFICES ASSUME NEW n \in Nat, NEW k \in Nat, m + 1 <= n, m + 1 <= k
               PROVE  F(n)[m + 1] = F(k)[m + 1]
    OBVIOUS
  <2>1. F(n)[m] = F(k)[m]
    BY <1>8
  <2> QED
    BY <1>6, <2>1
<1>9. \A m \in Nat : m \in T
  <2> HIDE DEF T
  <2> QED
    BY <1>7, <1>8, SetInduction
<1>10. \A n \in Nat : Repeat(of, n) = F(n)[n]
  BY DEF Repeat, F
<1>11. ASSUME NEW n \in Nat PROVE Repeat(of, n + 1) = Longer(of, n + 1, Repeat(of, n))
  <2>1. F(n + 1)[n + 1] = Longer(of, n + 1, F(n + 1)[n])
    BY <1>6
  <2>2. F(n + 1)[n] = F(n)[n]
    BY <1>9
  <2> QED
    BY <1>10, <2>1, <2>2
<1> QED
  BY <1>5, <1>10, <1>11

(* A sequence of m elements is one more element before one of m - 1.       *)
LEMMA ConsIs ==
  ASSUME NEW V, NEW m \in Nat \ {0}
  PROVE  /\ \A v \in [1 .. m -> V] :
              /\ v[1] \in V /\ Tail(v) \in [1 .. m - 1 -> V]
              /\ <<v[1]>> \o Tail(v) = v
         /\ \A x \in V, t \in [1 .. m - 1 -> V] :
              /\ <<x>> \o t \in [1 .. m -> V]
              /\ (<<x>> \o t)[1] = x /\ Tail(<<x>> \o t) = t
<1>1. ASSUME NEW x \in V, NEW t \in [1 .. m - 1 -> V]
      PROVE  /\ <<x>> \o t \in Seq(V) /\ Len(<<x>> \o t) = m
             /\ <<x>> \o t \in [1 .. m -> V]
             /\ (<<x>> \o t)[1] = x
             /\ \A k \in 1 .. m - 1 : (<<x>> \o t)[k + 1] = t[k]
  <2> DEFINE w == <<x>> \o t
  <2>1. /\ <<x>> \in Seq(V) /\ Len(<<x>>) = 1 /\ <<x>>[1] = x
        /\ t \in Seq(V) /\ Len(t) = m - 1
    OBVIOUS
  <2>2. /\ w \in Seq(V) /\ Len(w) = 1 + (m - 1)
        /\ \A k \in 1 .. 1 + (m - 1) : w[k] = IF k <= 1 THEN <<x>>[k] ELSE t[k - 1]
    BY <2>1, ConcatProperties
  <2> HIDE DEF w
  <2>3. w[1] = x /\ \A k \in 1 .. m - 1 : w[k + 1] = t[k]
    <3>1. w[1] = x
      BY <2>1, <2>2
    <3>2. ASSUME NEW k \in 1 .. m - 1 PROVE w[k + 1] = t[k]
      <4>1. k + 1 \in 1 .. 1 + (m - 1) /\ ~(k + 1 <= 1) /\ (k + 1) - 1 = k
        OBVIOUS
      <4> QED
        BY <2>2, <4>1
    <3> QED
      BY <3>1, <3>2
  <2>4. Len(w) = m
    BY <2>2
  <2>5. w \in [1 .. m -> V]
    BY <2>2, <2>4, LenProperties
  <2> QED
    BY <2>2, <2>3, <2>4, <2>5 DEF w
<1>2. ASSUME NEW v \in [1 .. m -> V]
      PROVE  /\ v[1] \in V /\ Tail(v) \in [1 .. m - 1 -> V]
             /\ <<v[1]>> \o Tail(v) = v
  <2>1. v \in Seq(V) /\ Len(v) = m /\ v # << >> /\ v[1] \in V
    OBVIOUS
  <2>2. /\ Tail(v) \in Seq(V) /\ Len(Tail(v)) = m - 1
        /\ \A k \in 1 .. m - 1 : Tail(v)[k] = v[k + 1]
    BY <2>1, HeadTailProperties
  <2>3. Tail(v) \in [1 .. m - 1 -> V]
    BY <2>2, LenProperties
  <2> DEFINE w == <<v[1]>> \o Tail(v)
  <2>4. /\ w \in Seq(V) /\ Len(w) = m /\ w[1] = v[1]
        /\ \A k \in 1 .. m - 1 : w[k + 1] = Tail(v)[k]
    BY <1>1, <2>1, <2>3
  <2> HIDE DEF w
  <2>5. \A k \in 1 .. m : w[k] = v[k]
    <3> SUFFICES ASSUME NEW k \in 1 .. m, k # 1 PROVE w[k] = v[k]
      BY <2>4
    <3>1. k - 1 \in 1 .. m - 1 /\ (k - 1) + 1 = k
      OBVIOUS
    <3> QED
      BY <2>2, <2>4, <3>1
  <2>6. w = v
    BY <2>1, <2>4, <2>5, SeqEqual
  <2> QED
    BY <2>1, <2>3, <2>6 DEF w
<1>3. ASSUME NEW x \in V, NEW t \in [1 .. m - 1 -> V]
      PROVE  Tail(<<x>> \o t) = t
  <2> DEFINE w == <<x>> \o t
  <2>1. w \in [1 .. m -> V] /\ \A k \in 1 .. m - 1 : w[k + 1] = t[k]
    BY <1>1
  <2> HIDE DEF w
  <2>2. w \in Seq(V) /\ Len(w) = m /\ w # << >>
    BY <2>1
  <2>3. /\ Tail(w) \in Seq(V) /\ Len(Tail(w)) = m - 1
        /\ \A k \in 1 .. m - 1 : Tail(w)[k] = w[k + 1]
    BY <2>2, HeadTailProperties
  <2>4. t \in Seq(V) /\ Len(t) = m - 1
    OBVIOUS
  <2>5. Tail(w) = t
    BY <2>1, <2>3, <2>4, SeqEqual
  <2> QED
    BY <2>5 DEF w
<1> QED
  BY <1>1, <1>2, <1>3

LEMMA LongerPromises ==
  ASSUME NEW of, NEW shorter, NEW m \in Nat \ {0}, Typed(of), Typed(shorter),
         Values(shorter) = [1 .. m - 1 -> Values(of)]
  PROVE  /\ Typed(Longer(of, m, shorter))
         /\ Values(Longer(of, m, shorter)) = [1 .. m -> Values(of)]
         /\ Prefix(of) /\ Prefix(shorter) => Prefix(Longer(of, m, shorter))
         /\ Frugal(of) /\ Frugal(shorter) => Frugal(Longer(of, m, shorter))
         /\ \A b \in Bytes : Longer(of, m, shorter).read[b].kind = "ok" =>
              /\ of.read[b].kind = "ok" /\ shorter.read[of.read[b].rest].kind = "ok"
              /\ Longer(of, m, shorter).read[b].rest = shorter.read[of.read[b].rest].rest
<1> DEFINE c == Longer(of, m, shorter)  p == Pair(of, shorter)
<1>1. /\ Values(c) = [1 .. m -> Values(of)]
      /\ \A v \in Values(c) : c.write[v] = p.write[<<v[1], Tail(v)>>]
      /\ \A b \in Bytes : c.read[b] = Joined(p.read[b])
  <2> HIDE DEF p
  <2> QED
    BY DEF Longer, Values, p
<1>2. /\ Typed(p)
      /\ Values(p) = Values(of) \X [1 .. m - 1 -> Values(of)]
      /\ Prefix(of) /\ Prefix(shorter) => Prefix(p)
      /\ Frugal(of) /\ Frugal(shorter) => Frugal(p)
  <2>1. Values(p) = Values(of) \X Values(shorter)
    BY DEF Pair, Values
  <2> QED
    BY <2>1, PairPromises
<1>3. \A b \in Bytes : p.read[b] = ReadBoth(of.read[b], shorter)
  BY DEF Pair
<1> HIDE DEF c, p
<1>4. \A v \in Values(c) : /\ <<v[1], Tail(v)>> \in Values(p)
                           /\ <<v[1]>> \o Tail(v) = v
  BY <1>1, <1>2, ConsIs
<1>5. ASSUME NEW u \in Values(p)
      PROVE  /\ <<u[1]>> \o u[2] \in Values(c)
             /\ c.write[<<u[1]>> \o u[2]] = p.write[u]
  <2>1. u[1] \in Values(of) /\ u[2] \in [1 .. m - 1 -> Values(of)] /\ u = <<u[1], u[2]>>
    BY <1>2
  <2> DEFINE w == <<u[1]>> \o u[2]
  <2>2. w \in [1 .. m -> Values(of)] /\ w[1] = u[1] /\ Tail(w) = u[2]
    <3>1. \A x \in Values(of), t \in [1 .. m - 1 -> Values(of)] :
            /\ <<x>> \o t \in [1 .. m -> Values(of)]
            /\ (<<x>> \o t)[1] = x /\ Tail(<<x>> \o t) = t
      BY ConsIs
    <3> QED
      BY <2>1, <3>1, Zenon
  <2> HIDE DEF w
  <2>3. c.write[w] = p.write[<<w[1], Tail(w)>>]
    BY <1>1, <2>2
  <2> QED
    BY <1>1, <2>1, <2>2, <2>3 DEF w
<1>6. ASSUME NEW b \in Bytes
      PROVE  /\ c.read[b].rest = p.read[b].rest /\ c.read[b].kind = p.read[b].kind
             /\ p.read[b].kind = "ok" =>
                  c.read[b].value = <<p.read[b].value[1]>> \o p.read[b].value[2]
  <2>1. c.read[b] = Joined(p.read[b])
    BY <1>1
  <2>2. CASE p.read[b].kind = "ok"
    BY <2>1, <2>2 DEF Joined, Ok
  <2>3. CASE p.read[b].kind # "ok"
    BY <2>1, <2>3 DEF Joined
  <2> QED
    BY <2>2, <2>3
<1>7. Typed(c)
  <2>1. \A v \in Values(c) : /\ c.write[v].ok \in BOOLEAN
                             /\ c.write[v].bytes \in Bytes
                             /\ c.write[v].written = Len(c.write[v].bytes)
    <3>1. \A u \in Values(p) : /\ p.write[u].ok \in BOOLEAN
                               /\ p.write[u].bytes \in Bytes
                               /\ p.write[u].written = Len(p.write[u].bytes)
      BY <1>2 DEF Typed
    <3> TAKE v \in Values(c)
    <3>2. <<v[1], Tail(v)>> \in Values(p) /\ c.write[v] = p.write[<<v[1], Tail(v)>>]
      BY <1>1, <1>4
    <3> QED
      BY <3>1, <3>2
  <2>2. \A b \in Bytes : /\ c.read[b].rest \in Bytes
                         /\ Len(c.read[b].rest) <= Len(b)
                         /\ c.read[b].kind = "ok" => c.read[b].value \in Values(c)
    <3> TAKE b \in Bytes
    <3>1. /\ p.read[b].rest \in Bytes /\ Len(p.read[b].rest) <= Len(b)
          /\ p.read[b].kind = "ok" => p.read[b].value \in Values(p)
      BY <1>2 DEF Typed
    <3> QED
      BY <1>5, <1>6, <3>1
  <2> QED
    BY <2>1, <2>2 DEF Typed
<1>8. ASSUME Prefix(of), Prefix(shorter) PROVE Prefix(c)
  <2> SUFFICES ASSUME NEW v \in Values(c), c.write[v].ok, NEW rest \in Bytes
               PROVE  c.read[c.write[v].bytes \o rest] = Ok(v, rest)
    BY DEF Prefix
  <2> DEFINE u == <<v[1], Tail(v)>>  f == c.write[v].bytes
  <2>1. u \in Values(p) /\ c.write[v] = p.write[u] /\ <<v[1]>> \o Tail(v) = v
    BY <1>1, <1>4
  <2>2. p.read[f \o rest] = Ok(u, rest)
    <3> HIDE DEF u
    <3> QED
      BY <1>2, <1>8, <2>1, ZenonT(30) DEF Prefix
  <2>3. f \o rest \in Bytes
    BY <1>7, BytesConcat DEF Typed
  <2>4. c.read[f \o rest] = Joined(Ok(u, rest))
    BY <1>1, <2>2, <2>3
  <2>5. Joined(Ok(u, rest)) = Ok(<<v[1]>> \o Tail(v), rest)
    BY DEF Joined, Ok
  <2> QED
    BY <2>1, <2>4, <2>5
<1>9. ASSUME Frugal(of), Frugal(shorter) PROVE Frugal(c)
  <2> SUFFICES ASSUME NEW b \in Bytes, c.read[b].kind = "ok", Len(b) <= LengthLimit
               PROVE  /\ c.write[c.read[b].value].ok
                      /\ c.write[c.read[b].value].written + Len(c.read[b].rest) <= Len(b)
    BY DEF Frugal
  <2>1. p.read[b].kind = "ok" /\ p.read[b].value \in Values(p)
    BY <1>2, <1>6 DEF Typed
  <2>2. c.write[c.read[b].value] = p.write[p.read[b].value]
    BY <1>5, <1>6, <2>1
  <2>3. /\ p.write[p.read[b].value].ok
        /\ p.write[p.read[b].value].written + Len(p.read[b].rest) <= Len(b)
    BY <1>2, <1>9, <2>1 DEF Frugal
  <2> QED
    BY <1>6, <2>2, <2>3
<1>10. ASSUME NEW b \in Bytes, c.read[b].kind = "ok"
       PROVE  /\ of.read[b].kind = "ok" /\ shorter.read[of.read[b].rest].kind = "ok"
              /\ c.read[b].rest = shorter.read[of.read[b].rest].rest
  <2> DEFINE x == of.read[b]  y == shorter.read[x.rest]
  <2>1. p.read[b] = ReadBoth(x, shorter) /\ p.read[b].kind = "ok" /\ c.read[b].rest = p.read[b].rest
    BY <1>3, <1>6, <1>10
  <2>2. /\ x.kind # "ok" => p.read[b] = x
        /\ x.kind = "ok" /\ y.kind # "ok" => p.read[b] = y
        /\ x.kind = "ok" /\ y.kind = "ok" => p.read[b] = Ok(<<x.value, y.value>>, y.rest)
    BY <2>1 DEF ReadBoth
  <2>3. x.kind = "ok" /\ y.kind = "ok"
    BY <2>1, <2>2
  <2> QED
    BY <2>1, <2>2, <2>3 DEF Ok
<1> QED
  BY <1>1, <1>7, <1>8, <1>9, <1>10 DEF c

LEMMA NoneIs ==
  ASSUME NEW V
  PROVE  [1 .. 0 -> V] = {<< >>}
<1>1. ASSUME NEW f \in [1 .. 0 -> V] PROVE f = << >>
  <2>1. f \in Seq(V) /\ Len(f) = 0
    OBVIOUS
  <2> QED
    BY <2>1, EmptySeq
<1>2. << >> \in [1 .. 0 -> V]
  <2>1. << >> \in [1 .. Len(<< >>) -> V] /\ Len(<< >>) = 0
    BY EmptySeq, LenProperties
  <2> QED
    BY <2>1, Zenon
<1> QED
  BY <1>1, <1>2

LEMMA RepeatPromises ==
  ASSUME NEW of, Typed(of), NEW n \in Nat
  PROVE  /\ Typed(Repeat(of, n))
         /\ Values(Repeat(of, n)) = [1 .. n -> Values(of)]
         /\ Prefix(of) => Prefix(Repeat(of, n))
         /\ Frugal(of) => Frugal(Repeat(of, n))
         /\ Hungry(of) => \A b \in Bytes : Repeat(of, n).read[b].kind = "ok" =>
                            Len(Repeat(of, n).read[b].rest) + n <= Len(b)
<1> DEFINE Long(c, k) == \A b \in Bytes : c.read[b].kind = "ok" => Len(c.read[b].rest) + k <= Len(b)
           Good(c, k) == /\ Typed(c)
                         /\ Values(c) = [1 .. k -> Values(of)]
                         /\ Prefix(of) => Prefix(c)
                         /\ Frugal(of) => Frugal(c)
                         /\ Hungry(of) => Long(c, k)
           S == {k \in Nat : Good(Repeat(of, k), k)}
<1>1. Good(Repeat(of, 0), 0)
  <2>1. Repeat(of, 0) = Unit
    BY RepeatIs
  <2>2. [1 .. 0 -> Values(of)] = {<< >>}
    BY NoneIs
  <2>3. Long(Unit, 0)
    BY UnitPromises, BytesConcat DEF Typed
  <2> HIDE DEF Long
  <2> QED
    BY <2>1, <2>2, <2>3, UnitPromises
<1>2. ASSUME NEW k \in Nat, Good(Repeat(of, k), k) PROVE Good(Repeat(of, k + 1), k + 1)
  <2> DEFINE s == Repeat(of, k)  c == Longer(of, k + 1, s)
  <2>1. Repeat(of, k + 1) = c
    BY RepeatIs
  <2>2. k + 1 \in Nat \ {0} /\ (k + 1) - 1 = k
    OBVIOUS
  <2>3. Typed(s) /\ Values(s) = [1 .. (k + 1) - 1 -> Values(of)]
    BY <1>2, <2>2
  <2> HIDE DEF s
  <2>4. /\ Typed(c)
        /\ Values(c) = [1 .. k + 1 -> Values(of)]
        /\ Prefix(of) /\ Prefix(s) => Prefix(c)
        /\ Frugal(of) /\ Frugal(s) => Frugal(c)
        /\ \A b \in Bytes : c.read[b].kind = "ok" =>
             /\ of.read[b].kind = "ok" /\ s.read[of.read[b].rest].kind = "ok"
             /\ c.read[b].rest = s.read[of.read[b].rest].rest
    <3> DEFINE m == k + 1
    <3>1. m \in Nat \ {0} /\ Values(s) = [1 .. m - 1 -> Values(of)]
      BY <2>2, <2>3
    <3> HIDE DEF m
    <3>2. /\ Typed(Longer(of, m, s))
          /\ Values(Longer(of, m, s)) = [1 .. m -> Values(of)]
          /\ Prefix(of) /\ Prefix(s) => Prefix(Longer(of, m, s))
          /\ Frugal(of) /\ Frugal(s) => Frugal(Longer(of, m, s))
          /\ \A b \in Bytes : Longer(of, m, s).read[b].kind = "ok" =>
               /\ of.read[b].kind = "ok" /\ s.read[of.read[b].rest].kind = "ok"
               /\ Longer(of, m, s).read[b].rest = s.read[of.read[b].rest].rest
      BY <2>3, <3>1, LongerPromises
    <3> QED
      BY <3>2 DEF m
  <2>5. Hungry(of) => Long(c, k + 1)
    <3> SUFFICES ASSUME Hungry(of), NEW b \in Bytes, c.read[b].kind = "ok"
                 PROVE  Len(c.read[b].rest) + (k + 1) <= Len(b)
      OBVIOUS
    <3> DEFINE x == of.read[b]  y == s.read[x.rest]
    <3>1. /\ x.kind = "ok" /\ y.kind = "ok" /\ c.read[b].rest = y.rest
          /\ x.rest \in Bytes /\ y.rest \in Bytes
      BY <2>3, <2>4 DEF Typed
    <3>2. Len(x.rest) < Len(b)
      BY <3>1 DEF Hungry
    <3>3. Len(y.rest) + k <= Len(x.rest)
      BY <1>2, <3>1 DEF s
    <3>4. Len(b) \in Nat /\ Len(x.rest) \in Nat /\ Len(y.rest) \in Nat
      BY <3>1, BytesConcat
    <3> DEFINE l == Len(b)  q == Len(x.rest)  r == Len(y.rest)
    <3>5. r + (k + 1) <= l
      <4>1. l \in Nat /\ q \in Nat /\ r \in Nat /\ q < l /\ r + k <= q
        BY <3>2, <3>3, <3>4
      <4> HIDE DEF l, q, r
      <4> QED
        BY <4>1
    <3> QED
      BY <3>1, <3>5
  <2> HIDE DEF Long, c
  <2> QED
    BY <1>2, <2>1, <2>4, <2>5 DEF s
<1> HIDE DEF Good
<1>3. 0 \in S /\ \A k \in Nat : k \in S => k + 1 \in S
  BY <1>1, <1>2
<1>4. n \in S
  <2> HIDE DEF S
  <2> QED
    BY <1>3, SetInduction
<1> QED
  BY <1>4 DEF Good

(* A list of one element is its element.                                   *)
LEMMA OneWhole ==
  ASSUME NEW of, Typed(of), Whole(of)
  PROVE  Whole(Repeat(of, 1))
<1> DEFINE c == Repeat(of, 1)  p == Pair(of, Unit)
<1>1. c = Longer(of, 1, Unit)
  <2>1. 0 + 1 = 1
    OBVIOUS
  <2> QED
    BY <2>1, RepeatIs
<1>2. /\ Values(c) = [1 .. 1 -> Values(of)]
      /\ \A v \in Values(c) : c.write[v] = p.write[<<v[1], Tail(v)>>]
      /\ \A b \in Bytes : c.read[b] = Joined(p.read[b])
  <2> HIDE DEF p, c
  <2> QED
    BY <1>1 DEF Longer, Values, p
<1>3. Typed(c)
  BY RepeatPromises
<1> SUFFICES ASSUME NEW v \in Values(c), c.write[v].ok
             PROVE  c.read[c.write[v].bytes] = Ok(v, << >>)
  BY DEF Whole
<1> HIDE DEF c
<1>4. v[1] \in Values(of) /\ Tail(v) = << >> /\ <<v[1]>> \o Tail(v) = v
  <2>1. v[1] \in Values(of) /\ Tail(v) \in [1 .. 1 - 1 -> Values(of)] /\ <<v[1]>> \o Tail(v) = v
    <3>1. ASSUME NEW m, m = 1
          PROVE  \A w \in [1 .. m -> Values(of)] :
                   w[1] \in Values(of) /\ Tail(w) \in [1 .. m - 1 -> Values(of)]
                   /\ <<w[1]>> \o Tail(w) = w
      <4>1. m \in Nat \ {0}
        BY <3>1
      <4> QED
        BY <4>1, ConsIs
    <3> QED
      BY <1>2, <3>1, Zenon
  <2>2. [1 .. 1 - 1 -> Values(of)] = {<< >>}
    <3>1. 1 - 1 = 0
      OBVIOUS
    <3> QED
      BY <3>1, NoneIs, Zenon
  <2> QED
    BY <2>1, <2>2
<1> DEFINE f == of.write[v[1]].bytes
<1>5. c.write[v] = Then(of.write[v[1]], Unit.write[<< >>])
  BY <1>2, <1>4, UnitPromises DEF Pair, Values
<1>6. of.write[v[1]].ok /\ c.write[v].bytes = f \o << >> /\ f \in Bytes
  <2>1. Unit.write[<< >>].bytes = << >>
    BY DEF Unit, Nothing, Wrote
  <2> DEFINE x == of.write[v[1]]  y == Unit.write[<< >>]
  <2>2. f \in Bytes
    BY <1>4 DEF Typed
  <2> HIDE DEF x, y, f
  <2>3. x.ok /\ y.ok
    BY <1>5, SMTT(30) DEF Then, TooLong, x, y
  <2>4. Then(x, y).bytes = x.bytes \o y.bytes
    <3>1. \A m, g : [ok |-> TRUE, written |-> m, bytes |-> g].bytes = g
      OBVIOUS
    <3> QED
      BY <2>3, <3>1, Zenon DEF Then
  <2> QED
    BY <1>5, <2>1, <2>2, <2>3, <2>4 DEF x, y, f
<1>7. c.write[v].bytes = f
  BY <1>6, BytesConcat
<1>8. of.read[f] = Ok(v[1], << >>)
  BY <1>4, <1>6 DEF Whole
<1>9. p.read[f] = ReadBoth(Ok(v[1], << >>), Unit)
  BY <1>6, <1>8 DEF Pair
<1>10. Unit.read[<< >>] = Ok(<< >>, << >>)
  BY BytesConcat DEF Unit
<1>11. ReadBoth(Ok(v[1], << >>), Unit) = Ok(<<v[1], << >>>>, << >>)
  BY <1>10 DEF ReadBoth, Ok
<1>12. Joined(Ok(<<v[1], << >>>>, << >>)) = Ok(<<v[1]>> \o << >>, << >>)
  BY DEF Joined, Ok
<1>13. c.read[f] = Joined(p.read[f])
  BY <1>2, <1>6
<1> QED
  BY <1>4, <1>7, <1>9, <1>11, <1>12, <1>13

LEMMA ThenIs ==
  ASSUME NEW x, NEW y
  PROVE  /\ x.ok /\ y.ok => /\ Then(x, y).ok = TRUE
                            /\ Then(x, y).bytes = x.bytes \o y.bytes
                            /\ Then(x, y).written = x.written + y.written
         /\ ~(x.ok /\ y.ok) => Then(x, y) = TooLong
<1> DEFINE m == x.written + y.written  f == x.bytes \o y.bytes
<1>1. CASE x.ok /\ y.ok
  <2>1. Then(x, y) = [ok |-> TRUE, written |-> m, bytes |-> f]
    BY <1>1, Zenon DEF Then
  <2> HIDE DEF m, f
  <2>2. Then(x, y).ok = TRUE /\ Then(x, y).written = m /\ Then(x, y).bytes = f
    BY <2>1
  <2> QED
    BY <1>1, <2>2, Zenon DEF m, f
<1>2. CASE ~(x.ok /\ y.ok)
  <2>1. Then(x, y) = TooLong
    BY <1>2, Zenon DEF Then
  <2> QED
    BY <1>2, <2>1
<1> QED
  BY <1>1, <1>2

(* One byte before others.                                                 *)
LEMMA TagIs ==
  ASSUME NEW t \in Byte, NEW g \in Bytes
  PROVE  /\ <<t>> \o g \in Bytes /\ <<t>> \o g # << >>
         /\ Len(<<t>> \o g) = 1 + Len(g)
         /\ (<<t>> \o g)[1] = t /\ Tail(<<t>> \o g) = g
<1> DEFINE m == Len(g) + 1  b == <<t>> \o g
<1>1. m \in Nat \ {0} /\ g \in [1 .. m - 1 -> Byte] /\ Len(g) \in Nat
  BY LenProperties DEF Bytes
<1> HIDE DEF m
<1>2. b \in [1 .. m -> Byte] /\ b[1] = t /\ Tail(b) = g
  BY <1>1, ConsIs
<1> HIDE DEF b
<1>3. b \in Seq(Byte) /\ Len(b) = m /\ b # << >>
  BY <1>1, <1>2
<1> QED
  BY <1>1, <1>2, <1>3 DEF b, m, Bytes

LEMMA OptionPromises ==
  ASSUME NEW of, Typed(of)
  PROVE  /\ Typed(Option(of))
         /\ Prefix(of) => Prefix(Option(of))
         /\ Whole(of) => Whole(Option(of))
         /\ Frugal(of) => Frugal(Option(of))
<1> DEFINE c == Option(of)  V == Values(of)  R(n) == Repeat(of, n)  t(n) == IF n = 1 THEN 1 ELSE 0
<1>1. /\ \A v : v \in Values(c) <=> v \in Seq(V) /\ Len(v) <= 1
      /\ \A v \in Values(c) : c.write[v] = WriteOption(of, v)
      /\ \A b \in Bytes : c.read[b] = ReadOption(of, b)
  <2> HIDE DEF V
  <2> QED
    BY DEF Option, Values, V
<1>2. \A n \in {0, 1} : /\ Typed(R(n)) /\ Values(R(n)) = [1 .. n -> V]
                        /\ Prefix(of) => Prefix(R(n))
                        /\ Frugal(of) => Frugal(R(n))
  BY RepeatPromises
<1>3. \A n \in {0, 1} : Whole(of) => Whole(R(n))
  <2>1. Whole(of) => Whole(R(1))
    BY OneWhole
  <2>2. Whole(R(0))
    <3>1. R(0) = Unit
      BY RepeatIs
    <3> QED
      BY <3>1, UnitPromises, WholeIs
  <2> QED
    BY <2>1, <2>2
<1>4. 0 \in Byte /\ 1 \in Byte
  BY ByteIs
<1> HIDE DEF c, R
<1>5. ASSUME NEW v, v \in Seq(V), Len(v) <= 1
      PROVE  Len(v) \in {0, 1} /\ v \in Values(R(Len(v)))
  <2>1. Len(v) \in {0, 1} /\ v \in [1 .. Len(v) -> V]
    <3>1. Len(v) \in Nat /\ v \in [1 .. Len(v) -> V]
      BY <1>5, LenProperties
    <3> QED
      BY <1>5, <3>1
  <2> QED
    BY <1>2, <2>1
<1>6. ASSUME NEW n \in {0, 1}, NEW v \in Values(R(n))
      PROVE  v \in Seq(V) /\ Len(v) = n /\ v \in Values(c)
  <2>1. v \in [1 .. n -> V] /\ n \in Nat /\ n <= 1
    <3>1. Values(R(n)) = [1 .. n -> V]
      BY <1>2, Zenon
    <3> HIDE DEF V
    <3> QED
      BY <3>1
  <2>2. v \in Seq(V) /\ Len(v) = n
    <3> HIDE DEF V
    <3> QED
      BY <2>1
  <2> QED
    BY <1>1, <2>1, <2>2
<1>7. ASSUME NEW v \in Values(c)
      PROVE  LET w == R(Len(v)).write[v] IN
             /\ Len(v) \in {0, 1} /\ v \in Values(R(Len(v)))
             /\ w.ok => /\ c.write[v].ok = TRUE
                        /\ c.write[v].bytes = <<t(Len(v))>> \o w.bytes
                        /\ c.write[v].written = 1 + w.written
             /\ ~w.ok => c.write[v] = TooLong
  <2> DEFINE w == R(Len(v)).write[v]  x == WriteBool(v # << >>)
  <2>1. Len(v) \in {0, 1} /\ v \in Values(R(Len(v)))
    BY <1>1, <1>5
  <2>2. c.write[v] = Then(x, w)
    BY <1>1 DEF WriteOption, R
  <2>3. x.ok /\ x.bytes = <<t(Len(v))>> /\ x.written = 1
    <3>1. v # << >> <=> Len(v) = 1
      BY <1>1, <2>1, EmptySeq
    <3>2. Len(<<1>>) = 1 /\ Len(<<0>>) = 1
      OBVIOUS
    <3> QED
      BY <3>1, <3>2 DEF WriteBool, Wrote
  <2> HIDE DEF w, x
  <2>4. /\ w.ok => /\ c.write[v].ok = TRUE
                   /\ c.write[v].bytes = <<t(Len(v))>> \o w.bytes
                   /\ c.write[v].written = 1 + w.written
        /\ ~w.ok => c.write[v] = TooLong
    <3> HIDE DEF t
    <3>1. /\ x.ok /\ w.ok => /\ Then(x, w).ok = TRUE
                             /\ Then(x, w).bytes = x.bytes \o w.bytes
                             /\ Then(x, w).written = x.written + w.written
          /\ ~(x.ok /\ w.ok) => Then(x, w) = TooLong
      BY ThenIs, Zenon
    <3> QED
      BY <2>2, <2>3, <3>1, Zenon
  <2> QED
    BY <2>1, <2>4 DEF w
<1>8. \A n \in {0, 1} : t(n) \in Byte /\ (t(n) # 0 <=> n = 1)
  BY <1>4
<1>9. ASSUME NEW n \in {0, 1}, NEW g \in Bytes
      PROVE  /\ c.read[<<t(n)>> \o g] = R(n).read[g]
             /\ <<t(n)>> \o g \in Bytes
  <2> DEFINE b == <<t(n)>> \o g
  <2>1. b \in Bytes /\ b # << >> /\ b[1] = t(n) /\ Tail(b) = g /\ (t(n) # 0 <=> n = 1)
    BY <1>8, TagIs
  <2> HIDE DEF b, t
  <2>2. ReadBool(b) = Ok(t(n) # 0, g)
    BY <2>1 DEF ReadBool
  <2>3. ReadBool(b).kind = "ok" /\ ReadBool(b).value = (t(n) # 0) /\ ReadBool(b).rest = g
    BY <2>2 DEF Ok
  <2>4. c.read[b] = Repeat(of, IF t(n) # 0 THEN 1 ELSE 0).read[g]
    BY <1>1, <2>1, <2>3 DEF ReadOption
  <2> QED
    BY <2>1, <2>4 DEF b, R
<1>10. ASSUME NEW b \in Bytes, b # << >>
       PROVE  \E n \in {0, 1} : /\ c.read[b] = R(n).read[Tail(b)]
                                /\ Tail(b) \in Bytes /\ Len(Tail(b)) = Len(b) - 1
  <2>1. ReadBool(b) = Ok(b[1] # 0, Tail(b))
    BY <1>10 DEF ReadBool
  <2>2. ReadBool(b).kind = "ok" /\ ReadBool(b).value = (b[1] # 0) /\ ReadBool(b).rest = Tail(b)
    BY <2>1 DEF Ok
  <2>3. c.read[b] = R(IF b[1] # 0 THEN 1 ELSE 0).read[Tail(b)]
    BY <1>1, <2>2 DEF ReadOption, R
  <2>4. Tail(b) \in Bytes /\ Len(Tail(b)) = Len(b) - 1
    BY <1>10, HeadTailProperties DEF Bytes
  <2> QED
    BY <2>3, <2>4
<1>11. c.read[<< >>] = Fails("eof")
  <2>1. ReadBool(<< >>).kind # "ok" /\ ReadBool(<< >>) = Fails("eof")
    BY DEF ReadBool, Fails
  <2> QED
    BY <1>1, <2>1, BytesConcat DEF ReadOption
<1>12. \A b \in Bytes : Len(b) \in Nat
  BY BytesConcat
<1> HIDE DEF t
<1>13. Typed(c)
  <2>1. ASSUME NEW v \in Values(c)
        PROVE  /\ c.write[v].ok \in BOOLEAN
               /\ c.write[v].bytes \in Bytes
               /\ c.write[v].written = Len(c.write[v].bytes)
    <3> DEFINE n == Len(v)  w == R(n).write[v]
    <3>1. n \in {0, 1} /\ w.bytes \in Bytes /\ w.written = Len(w.bytes)
      <4>1. n \in {0, 1} /\ v \in Values(R(n))
        BY <1>7
      <4>2. Typed(R(n))
        BY <1>2, <4>1, Zenon
      <4> QED
        BY <4>1, <4>2 DEF Typed
    <3>2. CASE w.ok
      <4>1. /\ c.write[v].ok = TRUE
            /\ c.write[v].bytes = <<t(n)>> \o w.bytes
            /\ c.write[v].written = 1 + w.written
        BY <1>7, <3>2
      <4>2. t(n) \in Byte
        BY <1>8, <3>1
      <4> DEFINE x == <<t(n)>> \o w.bytes
      <4>3. x \in Bytes /\ Len(x) = 1 + Len(w.bytes)
        BY <3>1, <4>2, TagIs
      <4> HIDE DEF n, w, x
      <4>4. c.write[v].bytes = x
        BY <4>1 DEF x
      <4> QED
        BY <3>1, <4>1, <4>3, <4>4
    <3>3. CASE ~w.ok
      <4>1. c.write[v] = TooLong
        BY <1>7, <3>3
      <4> QED
        BY <4>1, BytesConcat DEF TooLong
    <3> QED
      BY <3>2, <3>3
  <2>2. ASSUME NEW b \in Bytes
        PROVE  /\ c.read[b].rest \in Bytes
               /\ Len(c.read[b].rest) <= Len(b)
               /\ c.read[b].kind = "ok" => c.read[b].value \in Values(c)
    <3>1. CASE b = << >>
      BY <1>11, <3>1, BytesConcat DEF Fails
    <3>2. CASE b # << >>
      <4>1. PICK n \in {0, 1} : /\ c.read[b] = R(n).read[Tail(b)]
                                /\ Tail(b) \in Bytes /\ Len(Tail(b)) = Len(b) - 1
        BY <1>10, <3>2
      <4> DEFINE r == R(n).read[Tail(b)]
      <4>2. /\ r.rest \in Bytes /\ Len(r.rest) <= Len(Tail(b))
            /\ r.kind = "ok" => r.value \in Values(R(n))
        BY <1>2, <4>1 DEF Typed
      <4>3. r.kind = "ok" => r.value \in Values(c)
        BY <1>6, <4>2
      <4>4. Len(r.rest) <= Len(b)
        <5>1. Len(r.rest) \in Nat /\ Len(b) \in Nat
          BY <1>12, <4>2
        <5> HIDE DEF r
        <5> QED
          BY <4>1, <4>2, <5>1
      <4> QED
        BY <4>1, <4>2, <4>3, <4>4
    <3> QED
      BY <3>1, <3>2
  <2> QED
    BY <2>1, <2>2 DEF Typed
<1>14. ASSUME NEW v \in Values(c), c.write[v].ok
       PROVE  LET w == R(Len(v)).write[v] IN
              /\ Len(v) \in {0, 1} /\ v \in Values(R(Len(v)))
              /\ w.ok /\ w.bytes \in Bytes /\ t(Len(v)) \in Byte
              /\ c.write[v].bytes = <<t(Len(v))>> \o w.bytes
  <2> DEFINE w == R(Len(v)).write[v]
  <2>1. Len(v) \in {0, 1} /\ v \in Values(R(Len(v)))
    BY <1>7
  <2>2. w.ok
    <3>1. ~w.ok => c.write[v] = TooLong
      BY <1>7
    <3>2. TooLong.ok = FALSE
      BY DEF TooLong
    <3> QED
      BY <1>14, <3>1, <3>2
  <2>3. w.bytes \in Bytes
    BY <1>2, <2>1 DEF Typed
  <2> QED
    BY <1>7, <1>8, <2>1, <2>2, <2>3
<1>15. ASSUME Prefix(of) PROVE Prefix(c)
  <2> SUFFICES ASSUME NEW v \in Values(c), c.write[v].ok, NEW rest \in Bytes
               PROVE  c.read[c.write[v].bytes \o rest] = Ok(v, rest)
    BY DEF Prefix
  <2> DEFINE n == Len(v)  w == R(n).write[v]  f == w.bytes
  <2>1. /\ n \in {0, 1} /\ v \in Values(R(n)) /\ w.ok /\ f \in Bytes
        /\ t(n) \in Byte /\ c.write[v].bytes = <<t(n)>> \o f
    BY <1>14
  <2>2. R(n).read[f \o rest] = Ok(v, rest)
    BY <1>2, <1>15, <2>1 DEF Prefix
  <2>3. f \o rest \in Bytes
    <3> HIDE DEF f
    <3> QED
      BY <2>1, BytesConcat, Zenon
  <2>4. (<<t(n)>> \o f) \o rest = <<t(n)>> \o (f \o rest)
    <3>1. <<t(n)>> \in Bytes
      BY <2>1 DEF Bytes
    <3>2. \A x, y, z \in Bytes : (x \o y) \o z = x \o (y \o z)
      BY BytesConcat
    <3> HIDE DEF f, n
    <3> QED
      BY <2>1, <3>1, <3>2
  <2>5. c.read[<<t(n)>> \o (f \o rest)] = R(n).read[f \o rest]
    BY <1>9, <2>1, <2>3
  <2> QED
    BY <2>1, <2>2, <2>4, <2>5
<1>16. ASSUME Whole(of) PROVE Whole(c)
  <2> SUFFICES ASSUME NEW v \in Values(c), c.write[v].ok
               PROVE  c.read[c.write[v].bytes] = Ok(v, << >>)
    BY DEF Whole
  <2> DEFINE n == Len(v)  w == R(n).write[v]  f == w.bytes
  <2>1. /\ n \in {0, 1} /\ v \in Values(R(n)) /\ w.ok /\ f \in Bytes
        /\ c.write[v].bytes = <<t(n)>> \o f
    BY <1>14
  <2>2. R(n).read[f] = Ok(v, << >>)
    BY <1>3, <1>16, <2>1 DEF Whole
  <2>3. c.read[<<t(n)>> \o f] = R(n).read[f]
    BY <1>9, <2>1
  <2> QED
    BY <2>1, <2>2, <2>3
<1>17. ASSUME Frugal(of) PROVE Frugal(c)
  <2> SUFFICES ASSUME NEW b \in Bytes, c.read[b].kind = "ok", Len(b) <= LengthLimit
               PROVE  /\ c.write[c.read[b].value].ok
                      /\ c.write[c.read[b].value].written + Len(c.read[b].rest) <= Len(b)
    BY DEF Frugal
  <2>1. b # << >>
    BY <1>11 DEF Fails
  <2>2. PICK n \in {0, 1} : /\ c.read[b] = R(n).read[Tail(b)]
                            /\ Tail(b) \in Bytes /\ Len(Tail(b)) = Len(b) - 1
    BY <1>10, <2>1
  <2> DEFINE r == R(n).read[Tail(b)]  v == r.value  w == R(n).write[v]
             m == w.written  l == Len(b)  k == Len(r.rest)
  <2>3. v \in Values(R(n)) /\ r.rest \in Bytes
    BY <1>2, <2>2 DEF Typed
  <2>4. Len(v) = n /\ v \in Values(c)
    BY <1>6, <2>3
  <2>5. l \in Nat /\ k \in Nat /\ LengthLimit \in Nat
    BY <1>12, <2>3, LimitIs
  <2>6. Len(Tail(b)) <= LengthLimit
    BY <2>2, <2>5
  <2>7. w.ok /\ m + k <= l - 1
    BY <1>2, <1>17, <2>2, <2>6 DEF Frugal
  <2>8. m \in Nat
    BY <1>2, <1>12, <2>3, SMTT(30) DEF Typed
  <2>9. c.write[v].ok /\ c.write[v].written = 1 + m
    BY <1>7, <2>4, <2>7
  <2>10. (1 + m) + k <= l
    <3> HIDE DEF m, l, k
    <3> QED
      BY <2>5, <2>7, <2>8
  <2> QED
    BY <2>2, <2>9, <2>10
<1> QED
  BY <1>13, <1>15, <1>16, <1>17 DEF c

(* A number before other bytes.                                            *)
LEMMA VarIntThen ==
  ASSUME NEW n \in Int32, NEW g \in Bytes
  PROVE  /\ VarIntBytes(n) \in Bytes /\ VarIntBytes(n) \o g \in Bytes
         /\ ReadVarInt(VarIntBytes(n) \o g).kind = "ok"
         /\ ReadVarInt(VarIntBytes(n) \o g).value = n
         /\ ReadVarInt(VarIntBytes(n) \o g).rest = g
<1>1. VarIntBytes(n) \in Bytes /\ VarIntBytes(n) \o g \in Bytes
  BY VarIntBytesAre, BytesConcat
<1>2. n \in Values(VarInt) /\ VarInt.write[n].ok = TRUE /\ VarInt.write[n].bytes = VarIntBytes(n)
  BY DEF VarInt, Values, WriteVarInt, Wrote
<1>3. VarInt.read[VarIntBytes(n) \o g] = Ok(n, g)
  BY <1>2, VarIntPromises DEF Prefix
<1>4. VarInt.read[VarIntBytes(n) \o g] = ReadVarInt(VarIntBytes(n) \o g)
  BY <1>1 DEF VarInt
<1> QED
  BY <1>1, <1>3, <1>4 DEF Ok

(* What reading a number leaves.                                           *)
LEMMA VarIntLeaves ==
  ASSUME NEW b \in Bytes
  PROVE  /\ ReadVarInt(b).rest \in Bytes
         /\ Len(b) \in Nat /\ Len(ReadVarInt(b).rest) \in Nat
         /\ Len(ReadVarInt(b).rest) <= Len(b)
         /\ ReadVarInt(b).kind = "ok" =>
              /\ ReadVarInt(b).value \in Int32 /\ ReadVarInt(b).value \in Int
              /\ Size(ReadVarInt(b).value) \in 1 .. 5
              /\ Len(ReadVarInt(b).rest) + Size(ReadVarInt(b).value) <= Len(b)
<1>1. VarInt.read[b] = ReadVarInt(b)
  BY DEF VarInt
<1>2. /\ ReadVarInt(b).rest \in Bytes
      /\ Len(ReadVarInt(b).rest) <= Len(b)
  BY <1>1, VarIntPromises DEF Typed
<1>3. ReadVarInt(b).kind = "ok" =>
        /\ ReadVarInt(b).value \in Int32
        /\ Len(ReadVarInt(b).rest) + Size(ReadVarInt(b).value) <= Len(b)
  BY ReadVarIntIs DEF Fails
<1> QED
  BY <1>2, <1>3, BytesConcat, SizeOf DEF Int32

LEMMA VecPromises ==
  ASSUME NEW of, Typed(of), Hungry(of)
  PROVE  /\ Typed(Vec(of))
         /\ Prefix(of) => Prefix(Vec(of))
         /\ Frugal(of) => Frugal(Vec(of))
         /\ Hungry(Vec(of))
<1> DEFINE c == Vec(of)  V == Values(of)  R(n) == Repeat(of, n)
<1>1. /\ Values(c) = Seq(V)
      /\ \A v \in Seq(V) : c.write[v] = WriteVec(of, v)
      /\ \A b \in Bytes : c.read[b] = ReadVec(of, b)
  <2> HIDE DEF V
  <2> QED
    BY DEF Vec, Values, V
<1>2. \A n \in Nat : /\ Typed(R(n)) /\ Values(R(n)) = [1 .. n -> V]
                     /\ Prefix(of) => Prefix(R(n))
                     /\ Frugal(of) => Frugal(R(n))
                     /\ \A b \in Bytes : R(n).read[b].kind = "ok" =>
                          Len(R(n).read[b].rest) + n <= Len(b)
  BY RepeatPromises
<1> HIDE DEF c, R, V
<1>3. \A b \in Bytes : Len(b) \in Nat
  BY BytesConcat
<1>4. ASSUME NEW v \in Seq(V)
      PROVE  LET n == Len(v)  w == R(n).write[v] IN
             /\ n \in Nat /\ v \in Values(R(n))
             /\ ~(n <= LengthLimit) \/ ~w.ok => c.write[v] = TooLong
             /\ n <= LengthLimit /\ w.ok =>
                  /\ c.write[v].ok = TRUE
                  /\ c.write[v].bytes = VarIntBytes(n) \o w.bytes
                  /\ c.write[v].written = Size(n) + w.written
                  /\ n \in Int32
  <2> DEFINE n == Len(v)  w == R(n).write[v]  x == WriteVarInt(n)
  <2>1. n \in Nat /\ v \in Values(R(n)) /\ LengthLimit \in Nat
    BY <1>2, LenProperties, LimitIs
  <2>2. n > LengthLimit => c.write[v] = TooLong
    BY <1>1 DEF WriteVec
  <2>3. ~(n > LengthLimit) => c.write[v] = Then(x, w)
    BY <1>1 DEF WriteVec, R
  <2>4. /\ x.ok /\ x.bytes = VarIntBytes(n)
        /\ n <= LengthLimit => n \in Int32 /\ x.written = Size(n)
    BY <2>1, LimitIs DEF WriteVarInt, Wrote
  <2> HIDE DEF n, w, x
  <2>5. /\ x.ok /\ w.ok => /\ Then(x, w).ok = TRUE
                           /\ Then(x, w).bytes = x.bytes \o w.bytes
                           /\ Then(x, w).written = x.written + w.written
        /\ ~(x.ok /\ w.ok) => Then(x, w) = TooLong
    BY ThenIs, Zenon
  <2>6. ~(n <= LengthLimit) <=> n > LengthLimit
    BY <2>1
  <2>7. ~(n <= LengthLimit) \/ ~w.ok => c.write[v] = TooLong
    BY <2>2, <2>3, <2>4, <2>5, <2>6, Zenon
  <2>8. n <= LengthLimit /\ w.ok => /\ c.write[v].ok = TRUE
                                    /\ c.write[v].bytes = VarIntBytes(n) \o w.bytes
                                    /\ c.write[v].written = Size(n) + w.written
                                    /\ n \in Int32
    BY <2>3, <2>4, <2>5, <2>6, Zenon
  <2> QED
    BY <2>1, <2>7, <2>8 DEF n, w
<1>5. ASSUME NEW b \in Bytes, c.read[b].kind = "ok"
      PROVE  LET len == ReadVarInt(b)  n == len.value  r == R(n).read[len.rest] IN
             /\ len.kind = "ok" /\ n \in Nat
             /\ c.read[b] = r
             /\ r.value \in Values(R(n)) /\ r.value \in Seq(V) /\ Len(r.value) = n
             /\ r.rest \in Bytes /\ Len(r.rest) <= Len(len.rest)
  <2> DEFINE len == ReadVarInt(b)  n == len.value  k == Min({n, Len(len.rest) + 1})
             r == R(k).read[len.rest]
  <2>1. len.kind = "ok" /\ ~(n < 0)
    <3> DEFINE u == R(k).read[len.rest]
    <3>1. c.read[b] = IF len.kind # "ok" THEN len ELSE IF n < 0 THEN Fails("panic") ELSE u
      BY <1>1 DEF ReadVec, R
    <3> HIDE DEF u, len
    <3>2. Fails("panic").kind # "ok"
      BY DEF Fails
    <3> QED
      BY <1>5, <3>1, <3>2
  <2>2. len.rest \in Bytes /\ n \in Nat /\ Len(len.rest) \in Nat
    BY <2>1, VarIntLeaves
  <2>3. c.read[b] = r
    BY <1>1, <2>1 DEF ReadVec, R
  <2> HIDE DEF len
  <2>4. k \in {n, Len(len.rest) + 1} /\ k \in Nat
    <3> DEFINE T == {n, Len(len.rest) + 1}
    <3>1. T # {} /\ T \subseteq Nat
      BY <2>2
    <3> HIDE DEF T
    <3>2. Min(T) \in T
      BY <3>1, MinHas
    <3>3. Min(T) \in Nat
      BY <3>1, <3>2
    <3> QED
      BY <3>2, <3>3 DEF T
  <2> HIDE DEF k
  <2>5. Len(r.rest) + k <= Len(len.rest) /\ r.rest \in Bytes /\ Len(r.rest) \in Nat
    <3>1. /\ Typed(R(k))
          /\ \A g \in Bytes : R(k).read[g].kind = "ok" => Len(R(k).read[g].rest) + k <= Len(g)
      BY <1>2, <2>4, Zenon
    <3> QED
      BY <1>3, <1>5, <2>2, <2>3, <3>1 DEF Typed
  <2>6. k = n
    BY <2>2, <2>4, <2>5
  <2>7. r.value \in Values(R(n))
    <3>1. Typed(R(k))
      BY <1>2, <2>4, Zenon
    <3> QED
      BY <1>5, <2>2, <2>3, <2>6, <3>1 DEF Typed
  <2>8. r.value \in Seq(V) /\ Len(r.value) = n
    <3>1. Values(R(n)) = [1 .. n -> V]
      BY <1>2, <2>2
    <3> HIDE DEF n
    <3> QED
      BY <2>2, <2>7, <3>1
  <2>9. Len(r.rest) <= Len(len.rest)
    BY <2>2, <2>4, <2>5
  <2> QED
    BY <2>1, <2>2, <2>3, <2>5, <2>6, <2>7, <2>8, <2>9 DEF len
<1>6. ASSUME NEW b \in Bytes
      PROVE  c.read[b].rest \in Bytes /\ Len(c.read[b].rest) <= Len(b)
  <2> DEFINE len == ReadVarInt(b)  n == len.value  k == Min({n, Len(len.rest) + 1})
  <2>1. /\ len.rest \in Bytes /\ Len(len.rest) <= Len(b)
        /\ Len(len.rest) \in Nat /\ Len(b) \in Nat
        /\ len.kind = "ok" => n \in Int
    BY VarIntLeaves
  <2>2. CASE len.kind # "ok"
    <3>1. c.read[b] = len
      BY <1>1, <2>2 DEF ReadVec
    <3> QED
      BY <2>1, <3>1
  <2>3. CASE len.kind = "ok" /\ n < 0
    <3>1. c.read[b] = Fails("panic")
      BY <1>1, <2>3 DEF ReadVec
    <3> QED
      BY <2>1, <3>1, BytesConcat DEF Fails
  <2>4. CASE len.kind = "ok" /\ ~(n < 0)
    <3>1. c.read[b] = R(k).read[len.rest]
      BY <1>1, <2>4 DEF ReadVec, R
    <3> HIDE DEF len
    <3>2. k \in Nat
      <4> DEFINE T == {n, Len(len.rest) + 1}
      <4>1. T # {} /\ T \subseteq Nat
        BY <2>1, <2>4
      <4> HIDE DEF T
      <4>2. Min(T) \in T
        BY <4>1, MinHas
      <4>3. Min(T) \in Nat
        BY <4>1, <4>2
      <4> QED
        BY <4>3 DEF T
    <3>3. Typed(R(k))
      BY <1>2, <3>2, Zenon
    <3> HIDE DEF k
    <3> DEFINE r == R(k).read[len.rest]
    <3>4. r.rest \in Bytes /\ Len(r.rest) <= Len(len.rest) /\ Len(r.rest) \in Nat
      BY <1>3, <2>1, <3>3 DEF Typed
    <3>5. Len(r.rest) <= Len(b)
      <4> HIDE DEF r
      <4> QED
        BY <2>1, <3>4
    <3> QED
      BY <3>1, <3>4, <3>5
  <2> QED
    BY <2>2, <2>3, <2>4
<1>7. ASSUME NEW v \in Seq(V), c.write[v].ok
      PROVE  LET n == Len(v)  w == R(n).write[v] IN
             /\ n \in Nat /\ v \in Values(R(n)) /\ n \in Int32
             /\ w.ok /\ w.bytes \in Bytes /\ VarIntBytes(n) \in Bytes
             /\ c.write[v].bytes = VarIntBytes(n) \o w.bytes
             /\ w.written = Len(w.bytes) /\ c.write[v].written = Size(n) + w.written
  <2> DEFINE n == Len(v)  w == R(n).write[v]
  <2>1. n \in Nat /\ v \in Values(R(n))
    BY <1>4
  <2>2. n <= LengthLimit /\ w.ok
    <3>1. TooLong.ok = FALSE
      BY DEF TooLong
    <3>2. ~(n <= LengthLimit) \/ ~w.ok => c.write[v] = TooLong
      BY <1>4
    <3> HIDE DEF n, w
    <3> QED
      BY <1>7, <3>1, <3>2
  <2>3. /\ n \in Int32
        /\ c.write[v].bytes = VarIntBytes(n) \o w.bytes
        /\ c.write[v].written = Size(n) + w.written
    BY <1>4, <2>2
  <2>4. w.bytes \in Bytes /\ w.written = Len(w.bytes)
    <3>1. Typed(R(n))
      BY <1>2, <2>1
    <3> QED
      BY <2>1, <3>1 DEF Typed
  <2>5. VarIntBytes(n) \in Bytes
    BY <2>3, VarIntBytesAre
  <2> QED
    BY <2>1, <2>2, <2>3, <2>4, <2>5
<1>8. Typed(c)
  <2>1. ASSUME NEW v \in Values(c)
        PROVE  /\ c.write[v].ok \in BOOLEAN
               /\ c.write[v].bytes \in Bytes
               /\ c.write[v].written = Len(c.write[v].bytes)
    <3> DEFINE n == Len(v)  w == R(n).write[v]  x == VarIntBytes(n)  y == w.bytes
    <3>1. CASE n <= LengthLimit /\ w.ok
      <4>1. c.write[v].ok = TRUE
        BY <1>1, <1>4, <3>1
      <4>2. /\ x \in Bytes /\ y \in Bytes /\ c.write[v].bytes = x \o y
            /\ n \in Int32 /\ c.write[v].written = Size(n) + Len(y)
        BY <1>1, <1>7, <4>1
      <4>3. Len(x) = Size(n)
        BY <4>2, VarIntBytesAre
      <4> HIDE DEF x, y
      <4>4. x \o y \in Bytes /\ Len(x \o y) = Len(x) + Len(y)
        BY <4>2, BytesConcat, Zenon
      <4> QED
        BY <4>1, <4>2, <4>3, <4>4
    <3>2. CASE ~(n <= LengthLimit) \/ ~w.ok
      <4>1. c.write[v] = TooLong
        BY <1>1, <1>4, <3>2
      <4> QED
        BY <4>1, BytesConcat DEF TooLong
    <3> HIDE DEF n, w
    <3> QED
      BY <3>1, <3>2
  <2>2. ASSUME NEW b \in Bytes, c.read[b].kind = "ok"
        PROVE  c.read[b].value \in Values(c)
    BY <1>1, <1>5, <2>2
  <2> QED
    BY <1>6, <2>1, <2>2 DEF Typed
<1>9. ASSUME Prefix(of) PROVE Prefix(c)
  <2> SUFFICES ASSUME NEW v \in Seq(V), c.write[v].ok, NEW rest \in Bytes
               PROVE  c.read[c.write[v].bytes \o rest] = Ok(v, rest)
    BY <1>1 DEF Prefix
  <2> DEFINE n == Len(v)  w == R(n).write[v]  f == w.bytes  x == VarIntBytes(n)
             g == f \o rest  b == x \o g
  <2>1. /\ n \in Nat /\ v \in Values(R(n)) /\ n \in Int32 /\ w.ok /\ f \in Bytes /\ x \in Bytes
        /\ c.write[v].bytes = x \o f
    BY <1>7
  <2>2. R(n).read[g] = Ok(v, rest)
    <3>1. Prefix(R(n))
      BY <1>2, <1>9, <2>1
    <3> QED
      BY <2>1, <3>1 DEF Prefix
  <2>3. g \in Bytes
    <3> HIDE DEF f
    <3> QED
      BY <2>1, BytesConcat, Zenon
  <2>4. (x \o f) \o rest = b
    <3>1. \A p, q, s \in Bytes : (p \o q) \o s = p \o (q \o s)
      BY BytesConcat
    <3> HIDE DEF f, x
    <3> QED
      BY <2>1, <3>1
  <2>5. /\ b \in Bytes /\ ReadVarInt(b).kind = "ok" /\ ReadVarInt(b).value = n
        /\ ReadVarInt(b).rest = g
    <3> HIDE DEF n, g
    <3> QED
      BY <2>1, <2>3, VarIntThen
  <2>6. n <= Len(g) /\ Len(g) \in Nat
    <3>1. R(n).read[g].kind = "ok" /\ R(n).read[g].rest = rest
      BY <2>2 DEF Ok
    <3>2. Len(rest) + n <= Len(g)
      BY <1>2, <2>1, <2>3, <3>1
    <3>3. Len(rest) \in Nat /\ Len(g) \in Nat
      BY <1>3, <2>3
    <3> HIDE DEF n, g
    <3> QED
      BY <2>1, <3>2, <3>3
  <2> HIDE DEF n, g, b
  <2>7. Min({n, Len(g) + 1}) = n
    <3> DEFINE T == {n, Len(g) + 1}
    <3>1. n \in T /\ (\A m \in T : m \in Int) /\ \A m \in T : n <= m
      BY <2>1, <2>6
    <3> HIDE DEF T
    <3>2. Min(T) = n
      BY <3>1, MinIs
    <3> QED
      BY <3>2 DEF T
  <2>8. ~(n < 0)
    BY <2>1
  <2>9. ReadVec(of, b) = R(n).read[g]
    BY <2>5, <2>7, <2>8 DEF ReadVec, R
  <2> QED
    BY <1>1, <2>1, <2>2, <2>4, <2>5, <2>9
<1>10. ASSUME Frugal(of) PROVE Frugal(c)
  <2> SUFFICES ASSUME NEW b \in Bytes, c.read[b].kind = "ok", Len(b) <= LengthLimit
               PROVE  /\ c.write[c.read[b].value].ok
                      /\ c.write[c.read[b].value].written + Len(c.read[b].rest) <= Len(b)
    BY DEF Frugal
  <2> DEFINE len == ReadVarInt(b)  n == len.value  r == R(n).read[len.rest]  v == r.value
             w == R(n).write[v]  m == w.written  l == Len(b)  q == Len(len.rest)
             p == Len(r.rest)  s == Size(n)
  <2>1. /\ len.kind = "ok" /\ n \in Nat /\ c.read[b] = r
        /\ v \in Values(R(n)) /\ v \in Seq(V) /\ Len(v) = n /\ r.rest \in Bytes
    BY <1>5
  <2>2. /\ q + s <= l /\ s \in 1 .. 5 /\ q \in Nat /\ l \in Nat /\ p \in Nat
        /\ len.rest \in Bytes /\ LengthLimit \in Nat
    BY <1>3, <2>1, VarIntLeaves, LimitIs
  <2>3. q <= LengthLimit
    <3> HIDE DEF q, s
    <3> QED
      BY <2>2
  <2>4. Frugal(R(n)) /\ Typed(R(n))
    BY <1>2, <1>10, <2>1
  <2>5. w.ok /\ m + p <= q
    BY <2>1, <2>2, <2>3, <2>4 DEF Frugal
  <2>6. m \in Nat
    BY <1>3, <2>1, <2>4 DEF Typed
  <2>7. n <= LengthLimit
    <3>1. p + n <= q
      BY <1>2, <2>1, <2>2
    <3> HIDE DEF n, p, q
    <3> QED
      BY <2>1, <2>2, <2>3, <3>1
  <2>8. c.write[v].ok /\ c.write[v].written = s + m
    BY <1>4, <2>1, <2>5, <2>7
  <2>9. (s + m) + p <= l
    <3> HIDE DEF s, m, p, l, q
    <3> QED
      BY <2>2, <2>5, <2>6
  <2> QED
    BY <2>1, <2>8, <2>9
<1>11. Hungry(c)
  <2> SUFFICES ASSUME NEW b \in Bytes, c.read[b].kind = "ok"
               PROVE  Len(c.read[b].rest) < Len(b)
    BY DEF Hungry
  <2> DEFINE len == ReadVarInt(b)  q == Len(len.rest)  l == Len(b)  p == Len(c.read[b].rest)
             s == Size(len.value)
  <2>1. len.kind = "ok" /\ c.read[b].rest \in Bytes /\ p <= q
    BY <1>5
  <2>2. q + s <= l /\ s \in 1 .. 5 /\ q \in Nat /\ l \in Nat /\ p \in Nat
    BY <1>3, <2>1, VarIntLeaves
  <2>3. p < l
    <3> HIDE DEF p, q, l, s
    <3> QED
      BY <2>1, <2>2
  <2> QED
    BY <2>3
<1> QED
  BY <1>8, <1>9, <1>10, <1>11 DEF c

(* A list of n bytes is read from n bytes, and from fewer nothing is.      *)
LEMMA RepeatU8 ==
  ASSUME NEW n \in Nat, NEW b \in Bytes
  PROVE  /\ Len(b) >= n => /\ Repeat(U8, n).read[b].kind = "ok"
                           /\ Len(Repeat(U8, n).read[b].rest) = Len(b) - n
         /\ Len(b) < n => Repeat(U8, n).read[b].kind = "eof"
<1> DEFINE Good(c, k) == \A g \in Bytes :
             /\ Len(g) >= k => c.read[g].kind = "ok" /\ Len(c.read[g].rest) = Len(g) - k
             /\ Len(g) < k => c.read[g].kind = "eof"
           S == {k \in Nat : Good(Repeat(U8, k), k)}
<1>1. \A g \in Bytes : Len(g) \in Nat
  BY BytesConcat
<1>2. Good(Unit, 0)
  BY <1>1 DEF Unit, Ok
<1>3. \A g \in Bytes : /\ Len(g) < 1 => U8.read[g] = Fails("eof")
                       /\ Len(g) >= 1 => /\ U8.read[g].kind = "ok"
                                         /\ U8.read[g].rest \in Bytes
                                         /\ Len(U8.read[g].rest) = Len(g) - 1
  <2> TAKE g \in Bytes
  <2>1. U8.read[g] = ReadPrim(1, g)
    BY DEF U8, Prim
  <2>2. CASE Len(g) < 1
    BY <2>1, <2>2, <1>1 DEF ReadPrim
  <2>3. CASE Len(g) >= 1
    <3>1. U8.read[g] = Ok([place \in 0 .. 1 - 1 |-> g[1 - place]], After(g, 1)) /\ 1 \in 0 .. Len(g)
      BY <2>1, <2>3, <1>1 DEF ReadPrim
    <3>2. U8.read[g].kind = "ok" /\ U8.read[g].rest = After(g, 1)
      BY <3>1 DEF Ok
    <3>3. After(g, 1) \in Bytes /\ Len(After(g, 1)) = Len(g) - 1
      <4>1. ASSUME NEW m, m = 1 PROVE After(g, m) \in Bytes /\ Len(After(g, m)) = Len(g) - m
        BY <3>1, <4>1, AfterIs, Zenon
      <4> QED
        BY <4>1, Zenon
    <3>4. ~ (Len(g) < 1)
      BY <2>3, <1>1
    <3> QED
      BY <3>2, <3>3, <3>4, Zenon
  <2> QED
    BY <2>2, <2>3, <1>1
<1>4. ASSUME NEW k \in Nat, NEW s, Good(s, k) PROVE Good(Longer(U8, k + 1, s), k + 1)
  <2> DEFINE c == Longer(U8, k + 1, s)
  <2> SUFFICES ASSUME NEW g \in Bytes
               PROVE  /\ Len(g) >= k + 1 => c.read[g].kind = "ok" /\ Len(c.read[g].rest) = Len(g) - (k + 1)
                      /\ Len(g) < k + 1 => c.read[g].kind = "eof"
    OBVIOUS
  <2> DEFINE x == U8.read[g]  y == s.read[x.rest]  z == ReadBoth(x, s)
  <2>1. c.read[g] = Joined(z)
    BY DEF Longer, Pair
  <2>2. /\ x.kind # "ok" => z = x
        /\ x.kind = "ok" /\ y.kind # "ok" => z = y
        /\ x.kind = "ok" /\ y.kind = "ok" => z = Ok(<<x.value, y.value>>, y.rest)
    BY DEF ReadBoth
  <2> HIDE DEF c, z
  <2>3. Len(g) \in Nat
    BY <1>1
  <2>4. CASE Len(g) < 1
    <3>1. z = Fails("eof")
      BY <1>3, <2>2, <2>4 DEF Fails
    <3>2. c.read[g].kind = "eof"
      BY <2>1, <3>1 DEF Joined, Fails
    <3> QED
      BY <2>3, <2>4, <3>2
  <2>5. CASE Len(g) >= 1
    <3>1. x.kind = "ok" /\ x.rest \in Bytes /\ Len(x.rest) = Len(g) - 1
      BY <1>3, <2>5
    <3> DEFINE h == x.rest
    <3>2. /\ Len(h) >= k => y.kind = "ok" /\ Len(y.rest) = Len(h) - k
          /\ Len(h) < k => y.kind = "eof"
      BY <1>4, <3>1
    <3> HIDE DEF x, y
    <3>3. CASE Len(g) >= k + 1
      <4>1. y.kind = "ok" /\ Len(y.rest) = Len(g) - (k + 1)
        BY <2>3, <3>1, <3>2, <3>3
      <4>2. z = Ok(<<x.value, y.value>>, y.rest)
        BY <2>2, <3>1, <4>1
      <4>3. c.read[g].kind = "ok" /\ c.read[g].rest = y.rest
        BY <2>1, <4>2 DEF Joined, Ok
      <4> QED
        BY <2>3, <3>3, <4>1, <4>3
    <3>4. CASE Len(g) < k + 1
      <4>1. y.kind = "eof"
        BY <2>3, <3>1, <3>2, <3>4
      <4>2. z = y
        BY <2>2, <3>1, <4>1
      <4>3. c.read[g].kind = "eof"
        BY <2>1, <4>1, <4>2 DEF Joined
      <4> QED
        BY <2>3, <3>4, <4>3
    <3> QED
      BY <2>3, <3>3, <3>4
  <2> QED
    BY <2>3, <2>4, <2>5
<1> HIDE DEF Good
<1>5. 0 \in S
  BY <1>2, RepeatIs
<1>6. ASSUME NEW k \in Nat, k \in S PROVE k + 1 \in S
  <2>1. Good(Longer(U8, k + 1, Repeat(U8, k)), k + 1)
    BY <1>4, <1>6
  <2> QED
    BY <2>1, RepeatIs
<1>7. n \in S
  <2> HIDE DEF S
  <2> QED
    BY <1>5, <1>6, SetInduction
<1> QED
  BY <1>7 DEF Good

LEMMA U8Promises ==
  Typed(U8) /\ Prefix(U8) /\ Frugal(U8) /\ Hungry(U8)
<1>1. 1 \in Nat \ {0}
  OBVIOUS
<1> QED
  BY <1>1, PrimPromises DEF U8

(* The boxed slice of bytes takes all there is, to the end.                *)
LEMMA SlicePromises ==
  Typed(Slice(U8)) /\ Whole(Slice(U8)) /\ Frugal(Slice(U8))
<1> DEFINE c == Slice(U8)  V == Values(U8)  R(n) == Repeat(U8, n)
<1>1. /\ Values(c) = Seq(V)
      /\ \A v \in Seq(V) : c.write[v] = R(Len(v)).write[v]
      /\ \A b \in Bytes : c.read[b] = ReadSlice(U8, b)
  <2> HIDE DEF V
  <2> QED
    BY DEF Slice, Values, WriteSlice, V
<1>2. \A n \in Nat : /\ Typed(R(n)) /\ Values(R(n)) = [1 .. n -> V]
                     /\ Prefix(R(n)) /\ Frugal(R(n))
  BY RepeatPromises, U8Promises
<1>3. \A n \in Nat, b \in Bytes :
        /\ Len(b) >= n => R(n).read[b].kind = "ok" /\ Len(R(n).read[b].rest) = Len(b) - n
        /\ Len(b) < n => R(n).read[b].kind = "eof"
  BY RepeatU8
<1>4. \A b \in Bytes : Len(b) \in Nat
  BY BytesConcat
<1> HIDE DEF c, V
<1>5. ASSUME NEW b \in Bytes
      PROVE  /\ c.read[b] = Ok(R(Len(b)).read[b].value, << >>)
             /\ R(Len(b)).read[b].kind = "ok"
             /\ R(Len(b)).read[b].value \in Values(R(Len(b)))
             /\ R(Len(b)).read[b].value \in Seq(V)
             /\ Len(R(Len(b)).read[b].value) = Len(b)
  <2> DEFINE l == Len(b)  T == {n \in 0 .. l : R(n).read[b].kind = "ok"}
  <2>1. l \in Nat /\ R(l).read[b].kind = "ok" /\ R(l + 1).read[b].kind = "eof"
    <3>1. l \in Nat /\ l + 1 \in Nat /\ l >= l /\ l < l + 1
      BY <1>4
    <3> QED
      BY <1>3, <3>1
  <2>2. Max(T) = l
    <3> HIDE DEF R, l
    <3>1. l \in T /\ (\A n \in T : n \in Int) /\ \A n \in T : l >= n
      BY <2>1
    <3> HIDE DEF T
    <3> QED
      BY <3>1, MaxIs
  <2>3. ReadSlice(U8, b) = Ok(R(l).read[b].value, << >>)
    <3> HIDE DEF l
    <3>1. ReadSlice(U8, b) = IF R(Max(T) + 1).read[b].kind = "eof"
                             THEN Ok(R(Max(T)).read[b].value, << >>)
                             ELSE R(Max(T) + 1).read[b]
      BY DEF ReadSlice, l
    <3> HIDE DEF R, T
    <3> QED
      BY <2>1, <2>2, <3>1
  <2>4. R(l).read[b].value \in Values(R(l))
    <3>1. Typed(R(l))
      BY <1>2, <2>1
    <3> QED
      BY <2>1, <3>1 DEF Typed
  <2>5. R(l).read[b].value \in Seq(V) /\ Len(R(l).read[b].value) = l
    <3>1. Values(R(l)) = [1 .. l -> V]
      BY <1>2, <2>1
    <3> HIDE DEF l, R
    <3> QED
      BY <2>1, <2>4, <3>1
  <2> QED
    BY <1>1, <2>1, <2>3, <2>4, <2>5
<1>6. \A v \in Seq(V) : Len(v) \in Nat /\ v \in Values(R(Len(v)))
  BY <1>2, LenProperties
<1> HIDE DEF R
<1>7. \A x, y : Ok(x, y).value = x /\ Ok(x, y).rest = y /\ Ok(x, y).kind = "ok"
  BY DEF Ok
<1>8. Typed(c)
  <2>1. ASSUME NEW v \in Values(c)
        PROVE  /\ c.write[v].ok \in BOOLEAN
               /\ c.write[v].bytes \in Bytes
               /\ c.write[v].written = Len(c.write[v].bytes)
    <3>1. /\ c.write[v] = R(Len(v)).write[v] /\ Typed(R(Len(v)))
          /\ v \in Values(R(Len(v)))
      BY <1>1, <1>2, <1>6
    <3> QED
      BY <3>1 DEF Typed
  <2>2. ASSUME NEW b \in Bytes
        PROVE  /\ c.read[b].rest \in Bytes
               /\ Len(c.read[b].rest) <= Len(b)
               /\ c.read[b].value \in Values(c)
    <3>1. c.read[b].rest = << >> /\ c.read[b].value = R(Len(b)).read[b].value
      BY <1>5, <1>7
    <3>2. Len(b) \in Nat /\ << >> \in Bytes /\ Len(<< >>) = 0
      BY BytesConcat
    <3> QED
      BY <1>1, <1>5, <3>1, <3>2
  <2> QED
    BY <2>1, <2>2 DEF Typed
<1>9. Whole(c)
  <2> SUFFICES ASSUME NEW v \in Seq(V), c.write[v].ok
               PROVE  c.read[c.write[v].bytes] = Ok(v, << >>)
    BY <1>1 DEF Whole
  <2> DEFINE n == Len(v)  f == c.write[v].bytes
  <2>1. n \in Nat /\ v \in Values(R(n)) /\ c.write[v] = R(n).write[v] /\ f \in Bytes
    BY <1>1, <1>6, <1>8 DEF Typed
  <2>2. R(n).read[f] = Ok(v, << >>)
    <3>1. Typed(R(n)) /\ Prefix(R(n))
      BY <1>2, <2>1
    <3>2. Whole(R(n))
      BY <3>1, WholeIs
    <3> QED
      BY <2>1, <3>2 DEF Whole
  <2>3. R(n).read[f].kind = "ok" /\ R(n).read[f].rest = << >> /\ R(n).read[f].value = v
    BY <1>7, <2>2
  <2>4. Len(f) = n
    <3>1. Len(f) >= n
      <4>1. Len(f) < n => R(n).read[f].kind = "eof"
        BY <1>3, <2>1
      <4> QED
        BY <1>4, <2>1, <2>3, <4>1
    <3>2. Len(<< >>) = Len(f) - n
      BY <1>3, <2>1, <2>3, <3>1
    <3> QED
      BY <1>4, <2>1, <3>2, BytesConcat
  <2> HIDE DEF f
  <2> QED
    BY <1>5, <2>1, <2>3, <2>4 DEF f
<1>10. Frugal(c)
  <2> SUFFICES ASSUME NEW b \in Bytes, c.read[b].kind = "ok", Len(b) <= LengthLimit
               PROVE  /\ c.write[c.read[b].value].ok
                      /\ c.write[c.read[b].value].written + Len(c.read[b].rest) <= Len(b)
    BY DEF Frugal
  <2> DEFINE n == Len(b)  r == R(n).read[b]  v == r.value  m == R(n).write[v].written
  <2>1. /\ c.read[b].rest = << >> /\ c.read[b].value = v /\ r.kind = "ok"
        /\ v \in Seq(V) /\ Len(v) = n /\ v \in Values(R(n))
    BY <1>5, <1>7
  <2>2. n \in Nat /\ Frugal(R(n)) /\ Typed(R(n)) /\ Len(<< >>) = 0
    BY <1>2, <1>4, BytesConcat
  <2>3. R(n).write[v].ok /\ m + Len(r.rest) <= n
    BY <2>1, <2>2 DEF Frugal
  <2>4. m \in Nat /\ Len(r.rest) \in Nat
    BY <1>4, <2>1, <2>2 DEF Typed
  <2>5. c.write[v] = R(n).write[v]
    BY <1>1, <2>1
  <2>6. m + 0 <= n
    <3> HIDE DEF m, n, r
    <3> QED
      BY <2>2, <2>3, <2>4
  <2> QED
    BY <2>1, <2>2, <2>3, <2>5, <2>6
<1> QED
  BY <1>8, <1>9, <1>10 DEF c

-----------------------------------------------------------------------------
(* JSON: written as a string, read without its length.                     *)

LEMMA WriteStringIs ==
  ASSUME NEW s \in Bytes
  PROVE  /\ Len(s) > LengthLimit => WriteString(s) = TooLong
         /\ Len(s) <= LengthLimit =>
              /\ Len(s) \in Int32 /\ VarIntBytes(Len(s)) \o s \in Bytes
              /\ WriteString(s).ok = TRUE
              /\ WriteString(s).bytes = VarIntBytes(Len(s)) \o s
              /\ WriteString(s).written = Len(VarIntBytes(Len(s)) \o s)
<1> DEFINE h == VarIntBytes(Len(s))  x == WriteVarInt(Len(s))  y == Wrote(Len(s), s)
<1>1. CASE Len(s) > LengthLimit
  <2>1. ~ (Len(s) <= LengthLimit)
    BY <1>1, LimitIs, BytesConcat
  <2> QED
    BY <1>1, <2>1 DEF WriteString
<1>2. CASE Len(s) <= LengthLimit
  <2>1. ~ (Len(s) > LengthLimit) /\ Len(s) \in Nat
    BY <1>2, LimitIs, BytesConcat
  <2>2. Len(s) \in Int32
    BY <1>2, <2>1, LimitIs, Zenon
  <2>3. h \in Bytes /\ Len(h) = Size(Len(s))
    BY <2>2, VarIntBytesAre
  <2>4. WriteString(s) = Then(x, y)
    BY <2>1 DEF WriteString
  <2>5. /\ x.ok /\ x.bytes = h /\ x.written = Len(h)
        /\ y.ok /\ y.bytes = s /\ y.written = Len(s)
    BY <2>3 DEF WriteVarInt, Wrote
  <2> HIDE DEF h, x, y
  <2>6. /\ WriteString(s).ok = TRUE
        /\ WriteString(s).bytes = h \o s
        /\ WriteString(s).written = Len(h) + Len(s)
    <3>1. /\ Then(x, y).ok = TRUE /\ Then(x, y).bytes = x.bytes \o y.bytes
          /\ Then(x, y).written = x.written + y.written
      BY <2>5, ThenIs, Zenon
    <3> QED
      BY <2>4, <2>5, <3>1, Zenon
  <2>7. h \o s \in Bytes /\ Len(h \o s) = Len(h) + Len(s)
    BY <2>3, BytesConcat
  <2> QED
    BY <2>1, <2>2, <2>6, <2>7, Zenon DEF h
<1>3. Len(s) > LengthLimit \/ Len(s) <= LengthLimit
  BY LimitIs, BytesConcat
<1> QED
  BY <1>1, <1>2, <1>3, Zenon

LEMMA JsonPromises ==
  /\ Typed(Json) /\ Values(Json) = JsonTexts
  /\ \A b \in Bytes : Json.read[b].kind = "ok" => Json.read[b].rest = << >>
<1>1. /\ Values(Json) = JsonTexts
      /\ \A t \in JsonTexts : t \in Bytes /\ Json.write[t] = WriteString(t)
      /\ \A b \in Bytes : Json.read[b] = JsonFromReader(b)
  BY JsonAssumption DEF Json, Values
<1>2. ASSUME NEW t \in JsonTexts
      PROVE  /\ Json.write[t].ok \in BOOLEAN
             /\ Json.write[t].bytes \in Bytes
             /\ Json.write[t].written = Len(Json.write[t].bytes)
  <2>1. t \in Bytes /\ Json.write[t] = WriteString(t)
    BY <1>1
  <2>2. Len(t) > LengthLimit \/ Len(t) <= LengthLimit
    BY <2>1, LimitIs, BytesConcat
  <2>3. TooLong.ok \in BOOLEAN /\ TooLong.bytes \in Bytes /\ TooLong.written = Len(TooLong.bytes)
    BY BytesConcat DEF TooLong
  <2> QED
    BY <2>1, <2>2, <2>3, WriteStringIs, Zenon
<1>3. ASSUME NEW b \in Bytes
      PROVE  /\ Json.read[b].rest \in Bytes /\ Len(Json.read[b].rest) <= Len(b)
             /\ Json.read[b].kind = "ok" =>
                  Json.read[b].value \in JsonTexts /\ Json.read[b].rest = << >>
  <2> DEFINE inked == {k \in DOMAIN b : b[k] \notin Whitespace}
             text == SubSeq(b, Min(inked), Max(inked))
  <2>1. Json.read[b] = IF inked # {} /\ text \in JsonTexts THEN Ok(text, << >>) ELSE Fails("json")
    BY <1>1 DEF JsonFromReader
  <2> HIDE DEF inked, text
  <2>2. /\ Json.read[b].rest = << >>
        /\ Json.read[b].kind = "ok" => Json.read[b].value \in JsonTexts
    BY <2>1 DEF Ok, Fails
  <2>3. Len(<< >>) = 0 /\ << >> \in Bytes /\ Len(b) \in Nat
    BY BytesConcat
  <2> QED
    BY <2>2, <2>3
<1> QED
  BY <1>1, <1>2, <1>3 DEF Typed

LEMMA JsonReads ==
  ASSUME NEW t \in JsonTexts, Len(t) <= LengthLimit
  PROVE  Json.read[VarIntBytes(Len(t)) \o t] =
           IF Len(t) \in Whitespace THEN Ok(t, << >>) ELSE Fails("json")
<1> DEFINE h == VarIntBytes(Len(t))  b == h \o t
           inked == {k \in DOMAIN b : b[k] \notin Whitespace}
<1>1. /\ t \in Bytes /\ t # << >> /\ t[1] \notin Whitespace
      /\ t[Len(t)] \notin Whitespace /\ b \notin JsonTexts
  BY JsonAssumption
<1>2. Len(t) \in Int32 /\ b \in Bytes
  BY <1>1, WriteStringIs
<1>3. Json.read[b] = IF inked # {} /\ SubSeq(b, Min(inked), Max(inked)) \in JsonTexts
                     THEN Ok(SubSeq(b, Min(inked), Max(inked)), << >>) ELSE Fails("json")
  BY <1>2 DEF Json, JsonFromReader
<1>4. h \in Bytes /\ Len(h) \in 1 .. 5 /\ Len(h) = Size(Len(t))
  BY <1>2, VarIntBytesAre
<1>5. Len(t) \in Nat \ {0}
  BY <1>1, EmptySeq DEF Bytes
<1>6. /\ Len(b) = Len(h) + Len(t) /\ DOMAIN b = 1 .. Len(b)
      /\ \A k \in 1 .. Len(h) : b[k] = h[k]
      /\ \A k \in 1 .. Len(t) : b[Len(h) + k] = t[k]
  <2> HIDE DEF h
  <2>1. /\ Len(b) = Len(h) + Len(t)
        /\ \A k \in 1 .. Len(h) + Len(t) : b[k] = IF k <= Len(h) THEN h[k] ELSE t[k - Len(h)]
    BY <1>1, <1>4, ConcatProperties DEF Bytes
  <2> DEFINE bb == b
  <2>2. bb \in Seq(Byte)
    BY <1>2 DEF Bytes
  <2>3. DOMAIN bb = 1 .. Len(bb)
    <3> HIDE DEF bb
    <3> QED
      BY <2>2
  <2>4. \A k \in 1 .. Len(h) : b[k] = h[k]
    BY <2>1, <1>4, <1>5
  <2>5. ASSUME NEW k \in 1 .. Len(t) PROVE b[Len(h) + k] = t[k]
    <3>1. Len(h) + k \in 1 .. Len(h) + Len(t) /\ ~ (Len(h) + k <= Len(h))
          /\ (Len(h) + k) - Len(h) = k
      BY <1>4, <1>5
    <3> QED
      BY <2>1, <3>1
  <2> QED
    BY <2>1, <2>3, <2>4, <2>5
<1>7. After(b, Len(h)) = t
  BY <1>1, <1>4, AfterConcat
<1>8. h[1] = IF Size(Len(t)) = 1 THEN Len(t) % 128 ELSE (Len(t) % 128) + 128
  <2> DEFINE n == Len(t)
  <2>1. n \in Int32 /\ Groups(n)[1] = n % 128
    BY <1>2 DEF Groups
  <2> HIDE DEF n
  <2>2. Size(n) \in 1 .. 5
    BY <2>1, VarIntBytesAre
  <2>3. 1 \in 1 .. Size(n) /\ (Size(n) = 1 \/ 1 < Size(n))
    BY <2>2
  <2>4. \A k \in 1 .. Size(n) : /\ k < Size(n) => VarIntBytes(n)[k] = Groups(n)[k] + 128
                                /\ k = Size(n) => VarIntBytes(n)[k] = Groups(n)[k]
    BY <2>1, VarIntBytesAre, Zenon
  <2>5. VarIntBytes(n)[1] = IF Size(n) = 1 THEN n % 128 ELSE (n % 128) + 128
    BY <2>1, <2>2, <2>3, <2>4
  <2> QED
    BY <2>5 DEF n
<1> HIDE DEF h, b
<1>9. Len(b) \in inked /\ \A k \in inked : k \in Int /\ Len(b) >= k
  <2>1. b[Len(h) + Len(t)] \notin Whitespace
    BY <1>1, <1>5, <1>6
  <2> QED
    BY <2>1, <1>4, <1>5, <1>6
<1>10. Max(inked) = Len(b) /\ inked \subseteq Int /\ inked # {}
  <2> HIDE DEF inked
  <2> QED
    BY <1>9, MaxIs
<1>11. CASE Len(t) \in Whitespace
  <2>1. Len(h) = 1 /\ h[1] = Len(t)
    <3>1. Len(t) < 128 /\ Len(t) \in Nat
      <4> DEFINE n == Len(t)
      <4>1. n \in Nat /\ (n = 9 \/ n = 10 \/ n = 13 \/ n = 32)
        BY <1>5, <1>11 DEF Whitespace
      <4> HIDE DEF n
      <4>2. n < 128 /\ n \in Nat
        BY <4>1
      <4> QED
        BY <4>2 DEF n
    <3>2. Size(Len(t)) = 1
      BY <3>1 DEF Size
    <3> QED
      BY <3>1, <3>2, <1>4, <1>8
  <2>2. 2 \in inked /\ \A k \in inked : 2 <= k
    <3>1. b[1] \in Whitespace /\ b[2] \notin Whitespace
      <4>1. b[1] = h[1] /\ b[1 + 1] = t[1]
        BY <1>5, <1>6, <2>1
      <4> QED
        BY <1>1, <1>11, <2>1, <4>1
    <3> QED
      BY <3>1, <1>5, <1>6, <2>1
  <2>3. Min(inked) = 2
    <3> HIDE DEF inked
    <3> QED
      BY <1>10, <2>2, MinIs
  <2>4. SubSeq(b, 2, Len(b)) = t
    BY <1>7, <2>1 DEF After
  <2> QED
    BY <1>3, <1>10, <1>11, <2>3, <2>4 DEF b, h
<1>12. CASE Len(t) \notin Whitespace
  <2>1. h[1] \notin Whitespace
    <3>1. CASE Size(Len(t)) = 1
      <4>1. Len(t) < 128
        BY <3>1, <1>5 DEF Size
      <4> QED
        BY <4>1, <3>1, <1>5, <1>8, <1>12
    <3>2. CASE Size(Len(t)) # 1
      BY <3>2, <1>5, <1>8 DEF Whitespace
    <3> QED
      BY <3>1, <3>2
  <2>2. 1 \in inked /\ \A k \in inked : 1 <= k
    BY <2>1, <1>4, <1>5, <1>6
  <2>3. Min(inked) = 1
    <3> HIDE DEF inked
    <3> QED
      BY <1>10, <2>2, MinIs
  <2>4. SubSeq(b, 1, Len(b)) = b
    <3>1. Len(b) \in 0 .. Len(b)
      BY <1>2, BytesConcat
    <3>2. /\ SubSeq(b, 1, Len(b)) \in Bytes /\ Len(SubSeq(b, 1, Len(b))) = Len(b)
          /\ \A k \in 1 .. Len(b) : SubSeq(b, 1, Len(b))[k] = b[k]
      BY <1>2, <3>1, AfterIs
    <3> QED
      BY <1>2, <3>2, SeqEqual DEF Bytes
  <2> QED
    BY <1>1, <1>3, <1>10, <1>12, <2>3, <2>4 DEF b, h
<1> QED
  BY <1>11, <1>12

-----------------------------------------------------------------------------
(* Enums.                                                                  *)

(* Without a discriminant in the source they are counted from 0.           *)
LEMMA PlainDiscriminants ==
  ASSUME NEW variants, NEW n \in Nat, DOMAIN variants = 1 .. n,
         \A k \in 1 .. n : variants[k].given = << >>
  PROVE  \A k \in 1 .. n : Discriminants(variants)[k] = k - 1
<1> DEFINE Good(f) == f = [k \in DOMAIN variants |->
                             IF variants[k].given # << >> THEN variants[k].given[1]
                             ELSE IF k = 1 THEN 0 ELSE f[k - 1] + 1]
           g == [k \in DOMAIN variants |-> k - 1]
           d == CHOOSE f : Good(f)
           S == {k \in Nat : k + 1 <= n => d[k + 1] = k}
<1>1. Good(g)
  <2>1. \A k \in 1 .. n : k # 1 => k - 1 \in 1 .. n /\ g[k - 1] = k - 2
    OBVIOUS
  <2>2. \A k \in 1 .. n : (IF k = 1 THEN 0 ELSE g[k - 1] + 1) = k - 1
    BY <2>1
  <2> QED
    BY <2>2
<1>2. Good(d)
  <2> HIDE DEF Good, g
  <2> QED
    BY <1>1
<1> HIDE DEF d
<1>3. \A k \in 1 .. n : d[k] = IF k = 1 THEN 0 ELSE d[k - 1] + 1
  BY <1>2
<1>4. 0 \in S
  BY <1>3
<1>5. ASSUME NEW k \in Nat, k \in S PROVE k + 1 \in S
  <2> SUFFICES ASSUME (k + 1) + 1 <= n PROVE d[(k + 1) + 1] = k + 1
    OBVIOUS
  <2>1. d[k + 1] = k
    BY <1>5
  <2>2. (k + 1) + 1 \in 1 .. n /\ ((k + 1) + 1) - 1 = k + 1 /\ (k + 1) + 1 # 1
    OBVIOUS
  <2> QED
    BY <1>3, <2>1, <2>2
<1>6. \A k \in Nat : k \in S
  <2> HIDE DEF S
  <2> QED
    BY <1>4, <1>5, SetInduction
<1>7. Discriminants(variants) = d
  BY DEF Discriminants, d
<1> QED
  <2> TAKE k \in 1 .. n
  <2>1. k - 1 \in S /\ (k - 1) + 1 = k
    BY <1>6
  <2> QED
    BY <1>7, <2>1

(* The two states have the numbers that are given to them.                 *)
LEMMA GivenDiscriminants ==
  ASSUME NEW variants, DOMAIN variants = 1 .. 2,
         \A k \in 1 .. 2 : variants[k].given = <<k>>
  PROVE  \A k \in 1 .. 2 : Discriminants(variants)[k] = k
<1> DEFINE Good(f) == f = [k \in DOMAIN variants |->
                             IF variants[k].given # << >> THEN variants[k].given[1]
                             ELSE IF k = 1 THEN 0 ELSE f[k - 1] + 1]
           g == [k \in DOMAIN variants |-> k]
           d == CHOOSE f : Good(f)
<1>1. \A k \in 1 .. 2 : variants[k].given # << >> /\ variants[k].given[1] = k
  OBVIOUS
<1>2. Good(g)
  BY <1>1
<1>3. Good(d)
  <2> HIDE DEF Good, g
  <2> QED
    BY <1>2
<1> HIDE DEF d
<1>4. \A k \in 1 .. 2 : d[k] = k
  BY <1>1, <1>3
<1>5. Discriminants(variants) = d
  BY DEF Discriminants, d
<1> QED
  BY <1>4, <1>5

LEMMA VariantsAre ==
  ASSUME NEW variants, NEW n \in Nat, Len(variants) = n
  PROVE  Variants(variants) = UNION {{k} \X Values(variants[k].fields) : k \in 1 .. n}
<1> DEFINE All(m) == UNION {{k} \X Values(variants[k].fields) : k \in 1 .. m}
           Good(f) == f = [m \in 0 .. Len(variants) |->
                             IF m = 0 THEN {}
                             ELSE f[m - 1] \cup ({m} \X Values(variants[m].fields))]
           g == [m \in 0 .. Len(variants) |-> All(m)]
           d == CHOOSE f : Good(f)
           S == {m \in Nat : m <= n => d[m] = All(m)}
<1>1. All(0) = {}
  OBVIOUS
<1>2. ASSUME NEW m \in Nat, m # 0
      PROVE  All(m) = All(m - 1) \cup ({m} \X Values(variants[m].fields))
  <2> DEFINE V(k) == {k} \X Values(variants[k].fields)
  <2>1. \A k : k \in 1 .. m <=> k \in 1 .. m - 1 \/ k = m
    BY <1>2
  <2>2. All(m) = UNION {V(k) : k \in 1 .. m} /\ All(m - 1) = UNION {V(k) : k \in 1 .. m - 1}
    OBVIOUS
  <2> HIDE DEF V, All
  <2>3. UNION {V(k) : k \in 1 .. m} = (UNION {V(k) : k \in 1 .. m - 1}) \cup V(m)
    BY <2>1, Zenon
  <2> QED
    BY <2>2, <2>3 DEF V
<1>3. Good(g)
  <2> HIDE DEF All
  <2>1. \A m \in 0 .. n : m # 0 => m - 1 \in 0 .. n /\ g[m - 1] = All(m - 1)
    OBVIOUS
  <2>2. \A m \in 0 .. n : All(m) = IF m = 0 THEN {}
                                   ELSE g[m - 1] \cup ({m} \X Values(variants[m].fields))
    BY <1>1, <1>2, <2>1
  <2> QED
    BY <2>2
<1>4. Good(d)
  <2> HIDE DEF Good, g
  <2> QED
    BY <1>3
<1> HIDE DEF d
<1>5. \A m \in 0 .. n : d[m] = IF m = 0 THEN {}
                               ELSE d[m - 1] \cup ({m} \X Values(variants[m].fields))
  BY <1>4
<1> HIDE DEF All
<1>6. 0 \in S
  <2>1. 0 \in 0 .. n
    OBVIOUS
  <2>2. d[0] = {}
    BY <1>5, <2>1, Zenon
  <2> QED
    BY <1>1, <2>2
<1>7. ASSUME NEW m \in Nat, m \in S PROVE m + 1 \in S
  <2> SUFFICES ASSUME m + 1 <= n PROVE d[m + 1] = All(m + 1)
    OBVIOUS
  <2>1. d[m] = All(m)
    BY <1>7
  <2>2. m + 1 \in 0 .. n /\ m + 1 \in Nat /\ (m + 1) - 1 = m /\ m + 1 # 0
    OBVIOUS
  <2>3. d[m + 1] = d[(m + 1) - 1] \cup ({m + 1} \X Values(variants[m + 1].fields))
    BY <1>5, <2>2
  <2>4. All(m + 1) = All((m + 1) - 1) \cup ({m + 1} \X Values(variants[m + 1].fields))
    BY <1>2, <2>2, Zenon
  <2> QED
    BY <2>1, <2>2, <2>3, <2>4
<1>8. \A m \in Nat : m \in S
  <2> HIDE DEF S
  <2> QED
    BY <1>6, <1>7, SetInduction
<1>9. Variants(variants) = d[n]
  BY DEF Variants, d
<1> QED
  BY <1>8, <1>9 DEF All

LEMMA EnumWrites ==
  ASSUME NEW variants, NEW n \in Nat, DOMAIN variants = 1 .. n, Len(variants) = n,
         NEW k \in 1 .. n, NEW x \in Values(variants[k].fields)
  PROVE  /\ <<k, x>> \in Values(Enum(TRUE, variants))
         /\ <<k, x>> \in Values(Enum(FALSE, variants))
         /\ Enum(TRUE, variants).write[<<k, x>>] =
              Then(WriteVarInt(Discriminants(variants)[k]), variants[k].fields.write[x])
         /\ Enum(FALSE, variants).write[<<k, x>>] =
              Then(Nothing, variants[k].fields.write[x])
<1> DEFINE E == Enum(TRUE, variants)  F == Enum(FALSE, variants)
           V(j) == Values(variants[j].fields)
           All == UNION {{j} \X V(j) : j \in 1 .. n}
<1>1. Variants(variants) = All
  BY VariantsAre
<1>2. <<k, x>> \in All
  <2>1. <<k, x>> \in {k} \X V(k)
    OBVIOUS
  <2> HIDE DEF V
  <2> QED
    BY <2>1
<1> HIDE DEF All
<1>3. Values(E) = All /\ Values(F) = All
  BY <1>1 DEF Enum, Values
<1>4. \A v \in All : /\ E.write[v] = WriteEnum(TRUE, variants, v)
                     /\ F.write[v] = WriteEnum(FALSE, variants, v)
  BY <1>1 DEF Enum
<1>5. /\ E.write[<<k, x>>] = WriteEnum(TRUE, variants, <<k, x>>)
      /\ F.write[<<k, x>>] = WriteEnum(FALSE, variants, <<k, x>>)
  BY <1>2, <1>4, Zenon
<1>6. /\ WriteEnum(TRUE, variants, <<k, x>>) =
           Then(WriteVarInt(Discriminants(variants)[k]), variants[k].fields.write[x])
      /\ WriteEnum(FALSE, variants, <<k, x>>) =
           Then(Nothing, variants[k].fields.write[x])
  BY DEF WriteEnum
<1> QED
  BY <1>2, <1>3, <1>5, <1>6, Zenon

LEMMA EnumIs ==
  ASSUME NEW variants, NEW n \in Nat, DOMAIN variants = 1 .. n, Len(variants) = n
  PROVE  /\ \A v \in Values(Enum(TRUE, variants)) :
              v[1] \in 1 .. n /\ v[2] \in Values(variants[v[1]].fields) /\ v = <<v[1], v[2]>>
         /\ \A b \in Bytes : Enum(TRUE, variants).read[b] = ReadEnum(variants, b)
<1> DEFINE E == Enum(TRUE, variants)  V(k) == Values(variants[k].fields)
           All == UNION {{k} \X V(k) : k \in 1 .. n}
<1>1. Variants(variants) = All
  BY VariantsAre
<1>2. /\ Values(E) = All
      /\ \A b \in Bytes : E.read[b] = ReadEnum(variants, b)
  <2> HIDE DEF All
  <2> QED
    BY <1>1 DEF Enum, Values
<1> HIDE DEF E
<1>3. ASSUME NEW v \in All
      PROVE  v[1] \in 1 .. n /\ v[2] \in V(v[1]) /\ v = <<v[1], v[2]>>
  <2> HIDE DEF V
  <2>1. PICK k \in 1 .. n : v \in {k} \X V(k)
    OBVIOUS
  <2>2. PICK x \in V(k) : v = <<k, x>>
    BY <2>1
  <2> QED
    BY <2>2
<1> HIDE DEF All
<1> QED
  BY <1>2, <1>3 DEF E

(* What is written is counted, and comes after a head.                     *)
Counted(y) == y.ok \in BOOLEAN /\ y.bytes \in Bytes /\ y.written = Len(y.bytes)

HeadedBy(w, y, both) ==
  /\ both.ok = y.ok
  /\ y.ok => both.bytes = w.bytes \o y.bytes /\ both.written = Len(w.bytes) + y.written

LEMMA HeadThen ==
  ASSUME NEW w, Counted(w), w.ok, NEW y, Counted(y)
  PROVE  Counted(Then(w, y)) /\ HeadedBy(w, y, Then(w, y))
<1>1. /\ w.bytes \in Bytes /\ w.written = Len(w.bytes)
      /\ y.ok \in BOOLEAN /\ y.bytes \in Bytes /\ y.written = Len(y.bytes)
  BY DEF Counted
<1>4. TooLong.ok = FALSE /\ TooLong.bytes \in Bytes /\ TooLong.written = Len(TooLong.bytes)
  BY BytesConcat DEF TooLong
<1>5. CASE y.ok
  <2>0. w.ok /\ y.ok
    BY <1>5
  <2>1. Then(w, y).ok = TRUE /\ Then(w, y).bytes = w.bytes \o y.bytes
        /\ Then(w, y).written = w.written + y.written
    BY <2>0, ThenIs, Zenon
  <2>2. w.bytes \o y.bytes \in Bytes /\ Len(w.bytes \o y.bytes) = Len(w.bytes) + Len(y.bytes)
    BY <1>1, BytesConcat, Zenon
  <2>3. y.ok = TRUE
    BY <1>1, <1>5
  <2> QED
    BY <1>1, <2>1, <2>2, <2>3, Zenon DEF Counted, HeadedBy
<1>6. CASE ~ y.ok
  <2>1. Then(w, y) = TooLong
    BY <1>6, ThenIs, Zenon
  <2>2. y.ok = FALSE
    BY <1>1, <1>6
  <2> QED
    BY <1>4, <1>6, <2>1, <2>2, Zenon DEF Counted, HeadedBy
<1> QED
  BY <1>5, <1>6

(* The promises of an enum's variant k.                                    *)
WholeAt(c, k) ==
  \A v \in Values(c) : v[1] = k /\ c.write[v].ok => c.read[c.write[v].bytes] = Ok(v, << >>)

FrugalAt(c, k) ==
  \A b \in Bytes : c.read[b].kind = "ok" /\ c.read[b].value[1] = k /\ Len(b) <= LengthLimit =>
    /\ c.write[c.read[b].value].ok
    /\ c.write[c.read[b].value].written + Len(c.read[b].rest) <= Len(b)

(* The variants have different discriminants d.                            *)
Numbered(variants, n, d) ==
  /\ \A k \in 1 .. n : Discriminants(variants)[k] = d[k] /\ d[k] \in Int32
  /\ \A j, k \in 1 .. n : d[j] = d[k] => j = k

(* The fields c of an enum's variant k come after its tag.                 *)
TaggedBy(E, k, c, tag) ==
  /\ \A x \in Values(c) : E.write[<<k, x>>].ok =>
       c.write[x].ok /\ E.write[<<k, x>>].bytes = tag \o c.write[x].bytes
  /\ \A g \in Bytes :
       E.read[tag \o g] = IF c.read[g].kind # "ok" THEN c.read[g]
                          ELSE Ok(<<k, c.read[g].value>>, c.read[g].rest)

LEMMA EnumPromises ==
  ASSUME NEW variants, NEW n \in Nat, DOMAIN variants = 1 .. n, Len(variants) = n,
         \A k \in 1 .. n : Typed(variants[k].fields),
         NEW d, Numbered(variants, n, d)
  PROVE  /\ Typed(Enum(TRUE, variants)) /\ Hungry(Enum(TRUE, variants))
         /\ \A k \in 1 .. n :
              TaggedBy(Enum(TRUE, variants), k, variants[k].fields, VarIntBytes(d[k]))
         /\ \A k \in 1 .. n : Whole(variants[k].fields) => WholeAt(Enum(TRUE, variants), k)
         /\ \A k \in 1 .. n : Frugal(variants[k].fields) => FrugalAt(Enum(TRUE, variants), k)
<1> DEFINE E == Enum(TRUE, variants)  f(k) == variants[k].fields  h(k) == VarIntBytes(d[k])
<1>1. \A k \in 1 .. n : \A x \in Values(f(k)) :
        <<k, x>> \in Values(E) /\ E.write[<<k, x>>] = Then(WriteVarInt(d[k]), f(k).write[x])
  <2> SUFFICES ASSUME NEW k \in 1 .. n, NEW x \in Values(f(k))
               PROVE  <<k, x>> \in Values(E) /\ E.write[<<k, x>>] = Then(WriteVarInt(d[k]), f(k).write[x])
    OBVIOUS
  <2>1. /\ <<k, x>> \in Values(E)
        /\ E.write[<<k, x>>] =
               Then(WriteVarInt(Discriminants(variants)[k]), f(k).write[x])
    BY EnumWrites, Zenon
  <2>2. Discriminants(variants)[k] = d[k]
    BY DEF Numbered
  <2> QED
    BY <2>1, <2>2, Zenon
<1>2. \A v \in Values(E) : v[1] \in 1 .. n /\ v[2] \in Values(f(v[1])) /\ v = <<v[1], v[2]>>
  BY EnumIs
<1>3. \A b \in Bytes : E.read[b] = ReadEnum(variants, b)
  BY EnumIs
<1>4. \A k \in 1 .. n : h(k) \in Bytes /\ Len(h(k)) = Size(d[k]) /\ Size(d[k]) \in 1 .. 5
  BY VarIntBytesAre DEF Numbered
<1>5. \A k \in 1 .. n : Typed(f(k))
  OBVIOUS
<1>6. \A i : Matching(variants, i) = {k \in 1 .. n : d[k] = i}
  BY DEF Matching, Numbered
<1> HIDE DEF E, f, h
<1>7. \A k \in 1 .. n : Min(Matching(variants, d[k])) = k /\ Matching(variants, d[k]) # {}
  <2> TAKE k \in 1 .. n
  <2> DEFINE T == Matching(variants, d[k])
  <2>1. k \in T /\ T \subseteq Int /\ \A j \in T : k <= j
    BY <1>6 DEF Numbered
  <2>2. Min(T) = k
    <3> HIDE DEF T
    <3> QED
      BY <2>1, MinIs, Zenon
  <2> QED
    BY <2>1, <2>2
<1>8. ASSUME NEW k \in 1 .. n, NEW x \in Values(f(k))
      PROVE  /\ E.write[<<k, x>>].ok \in BOOLEAN /\ E.write[<<k, x>>].bytes \in Bytes
             /\ E.write[<<k, x>>].written = Len(E.write[<<k, x>>].bytes)
             /\ E.write[<<k, x>>].ok = f(k).write[x].ok
             /\ f(k).write[x].ok =>
                  /\ E.write[<<k, x>>].bytes = h(k) \o f(k).write[x].bytes
                  /\ E.write[<<k, x>>].written = Size(d[k]) + f(k).write[x].written
  <2> DEFINE w == WriteVarInt(d[k])  y == f(k).write[x]
  <2>1. E.write[<<k, x>>] = Then(w, y)
    BY <1>1
  <2>2. w.ok = TRUE /\ w.bytes = h(k) /\ w.written = Len(h(k))
    BY <1>4 DEF WriteVarInt, Wrote, h
  <2>3. y.ok \in BOOLEAN /\ y.bytes \in Bytes /\ y.written = Len(y.bytes)
    BY <1>5 DEF Typed
  <2>4. TooLong.ok = FALSE /\ TooLong.bytes \in Bytes /\ TooLong.written = Len(TooLong.bytes)
    BY BytesConcat DEF TooLong
  <2>5. h(k) \in Bytes /\ Len(h(k)) = Size(d[k])
    BY <1>4
  <2> HIDE DEF w, y, h
  <2>6. Counted(w) /\ w.ok /\ Counted(y)
    BY <2>2, <2>3, <2>5 DEF Counted
  <2>7. Counted(Then(w, y)) /\ HeadedBy(w, y, Then(w, y))
    BY <2>6, HeadThen, Zenon
  <2> QED
    BY <2>1, <2>2, <2>5, <2>7, Zenon DEF y, Counted, HeadedBy
<1>9. ASSUME NEW b \in Bytes
      PROVE  LET tag == ReadVarInt(b)
             IN  \/ tag.kind # "ok" /\ E.read[b] = tag
                 \/ /\ tag.kind = "ok" /\ E.read[b] = Fails("data")
                    /\ \A k \in 1 .. n : d[k] # tag.value
                 \/ \E k \in 1 .. n :
                      /\ tag.kind = "ok" /\ tag.value = d[k]
                      /\ f(k).read[tag.rest].kind # "ok" => E.read[b] = f(k).read[tag.rest]
                      /\ f(k).read[tag.rest].kind = "ok" =>
                           E.read[b] = Ok(<<k, f(k).read[tag.rest].value>>, f(k).read[tag.rest].rest)
  <2> DEFINE tag == ReadVarInt(b)  M == Matching(variants, tag.value)
  <2>1. E.read[b] =
          IF tag.kind # "ok" THEN tag
          ELSE IF M = {} THEN Fails("data")
          ELSE IF f(Min(M)).read[tag.rest].kind # "ok" THEN f(Min(M)).read[tag.rest]
               ELSE Ok(<<Min(M), f(Min(M)).read[tag.rest].value>>, f(Min(M)).read[tag.rest].rest)
    BY <1>3 DEF ReadEnum, f
  <2>2. CASE tag.kind # "ok"
    BY <2>1, <2>2
  <2>3. CASE tag.kind = "ok" /\ M = {}
    <3> DEFINE i == tag.value
    <3>1. \A k \in 1 .. n : d[k] # i
      <4>1. Matching(variants, i) = {}
        BY <2>3
      <4> HIDE DEF i
      <4> QED
        BY <1>6, <4>1
    <3> HIDE DEF M
    <3> QED
      BY <2>1, <2>3, <3>1
  <2>4. CASE tag.kind = "ok" /\ M # {}
    <3>1. PICK k \in M : TRUE
      BY <2>4
    <3>2. k \in 1 .. n /\ d[k] = tag.value
      BY <1>6, <3>1
    <3>3. Min(M) = k
      BY <1>7, <3>2
    <3> HIDE DEF tag, M
    <3>4. /\ f(k).read[tag.rest].kind # "ok" => E.read[b] = f(k).read[tag.rest]
          /\ f(k).read[tag.rest].kind = "ok" =>
               E.read[b] = Ok(<<k, f(k).read[tag.rest].value>>, f(k).read[tag.rest].rest)
      BY <2>1, <2>4, <3>3
    <3> QED
      BY <2>4, <3>2, <3>4 DEF tag
  <2> QED
    BY <2>2, <2>3, <2>4
<1>10. ASSUME NEW k \in 1 .. n, NEW g \in Bytes
       PROVE  E.read[h(k) \o g] = IF f(k).read[g].kind # "ok" THEN f(k).read[g]
                                  ELSE Ok(<<k, f(k).read[g].value>>, f(k).read[g].rest)
  <2> DEFINE b == h(k) \o g  tag == ReadVarInt(b)
  <2>1. b \in Bytes /\ tag.kind = "ok" /\ tag.value = d[k] /\ tag.rest = g
    BY VarIntThen DEF h, Numbered
  <2> HIDE DEF b
  <2>2. PICK j \in 1 .. n :
          /\ tag.value = d[j]
          /\ f(j).read[tag.rest].kind # "ok" => E.read[b] = f(j).read[tag.rest]
          /\ f(j).read[tag.rest].kind = "ok" =>
               E.read[b] = Ok(<<j, f(j).read[tag.rest].value>>, f(j).read[tag.rest].rest)
    <3>1. ~ (tag.kind # "ok") /\ ~ (\A j \in 1 .. n : d[j] # tag.value)
      BY <2>1
    <3> QED
      BY <1>9, <2>1, <3>1
  <2>3. j = k
    BY <2>1, <2>2, ZenonT(30) DEF Numbered
  <2> QED
    BY <2>1, <2>2, <2>3 DEF b
<1>11. ASSUME NEW b \in Bytes
       PROVE  /\ E.read[b].rest \in Bytes /\ Len(E.read[b].rest) <= Len(b)
              /\ E.read[b].kind = "ok" =>
                   \E k \in 1 .. n, g \in Bytes :
                     /\ f(k).read[g].kind = "ok" /\ f(k).read[g].value \in Values(f(k))
                     /\ E.read[b].value = <<k, f(k).read[g].value>>
                     /\ E.read[b].rest = f(k).read[g].rest
                     /\ Len(f(k).read[g].rest) <= Len(g)
                     /\ Len(g) + Size(d[k]) <= Len(b)
  <2> DEFINE tag == ReadVarInt(b)  r == E.read[b]
  <2>1. /\ tag.rest \in Bytes /\ Len(b) \in Nat /\ Len(tag.rest) \in Nat
        /\ Len(tag.rest) <= Len(b)
        /\ tag.kind = "ok" => Len(tag.rest) + Size(tag.value) <= Len(b)
    BY VarIntLeaves
  <2>2. /\ Fails("data").rest \in Bytes /\ Len(Fails("data").rest) = 0
        /\ Fails("data").kind # "ok"
    BY BytesConcat DEF Fails
  <2>3. \/ tag.kind # "ok" /\ r = tag
        \/ r = Fails("data")
        \/ \E k \in 1 .. n :
             /\ tag.kind = "ok" /\ tag.value = d[k]
             /\ f(k).read[tag.rest].kind # "ok" => r = f(k).read[tag.rest]
             /\ f(k).read[tag.rest].kind = "ok" =>
                  r = Ok(<<k, f(k).read[tag.rest].value>>, f(k).read[tag.rest].rest)
    BY <1>9, Zenon
  <2> HIDE DEF tag, r
  <2>4. CASE tag.kind # "ok" /\ r = tag
    BY <2>1, <2>4 DEF r
  <2>5. CASE r = Fails("data")
    BY <2>1, <2>2, <2>5 DEF r
  <2>6. ASSUME NEW k \in 1 .. n, tag.kind = "ok", tag.value = d[k],
               f(k).read[tag.rest].kind # "ok" => r = f(k).read[tag.rest],
               f(k).read[tag.rest].kind = "ok" =>
                 r = Ok(<<k, f(k).read[tag.rest].value>>, f(k).read[tag.rest].rest)
        PROVE  /\ r.rest \in Bytes /\ Len(r.rest) <= Len(b)
               /\ r.kind = "ok" =>
                   \E j \in 1 .. n, g \in Bytes :
                     /\ f(j).read[g].kind = "ok" /\ f(j).read[g].value \in Values(f(j))
                     /\ r.value = <<j, f(j).read[g].value>>
                     /\ r.rest = f(j).read[g].rest
                     /\ Len(f(j).read[g].rest) <= Len(g)
                     /\ Len(g) + Size(d[j]) <= Len(b)
    <3> DEFINE g == tag.rest  y == f(k).read[g]
    <3>1. /\ y.rest \in Bytes /\ Len(y.rest) <= Len(g)
          /\ y.kind = "ok" => y.value \in Values(f(k))
      BY <1>5, <2>1 DEF Typed
    <3>2. Len(g) + Size(d[k]) <= Len(b)
      BY <2>1, <2>6
    <3>3. Len(y.rest) \in Nat
      BY <3>1, BytesConcat, Zenon
    <3>4. CASE y.kind # "ok"
      <4>1. r = y
        BY <2>6, <3>4
      <4> HIDE DEF y, g
      <4>2. Len(g) <= Len(b) /\ Len(g) \in Nat
        BY <2>1 DEF g
      <4> QED
        BY <2>1, <3>1, <3>3, <3>4, <4>1, <4>2
    <3>5. CASE y.kind = "ok"
      <4>1. r = Ok(<<k, y.value>>, y.rest)
        BY <2>6, <3>5
      <4>2. g \in Bytes /\ Len(g) <= Len(b) /\ Len(g) \in Nat
        BY <2>1
      <4> DEFINE v == y.value
      <4>3. r.value = <<k, v>> /\ r.rest = y.rest
        <5> DEFINE p == <<k, v>>  q == y.rest
        <5>1. r = Ok(p, q)
          BY <4>1
        <5> HIDE DEF p, q
        <5>2. r.value = p /\ r.rest = q
          BY <5>1 DEF Ok
        <5> QED
          BY <5>2, Zenon DEF p, q
      <4>4. Len(r.rest) <= Len(b)
        <5> DEFINE a == Len(y.rest)  l == Len(g)  m == Len(b)
        <5>1. a \in Nat /\ l \in Nat /\ m \in Nat /\ a <= l /\ l <= m
          BY <2>1, <3>1, <3>3, <4>2
        <5> HIDE DEF a, l, m
        <5>2. a <= m
          BY <5>1
        <5> QED
          BY <4>3, <5>2, Zenon DEF a, m
      <4> QED
        BY <3>1, <3>2, <3>5, <4>2, <4>3, <4>4, Zenon
    <3> QED
      BY <3>4, <3>5
  <2> QED
    BY <2>3, <2>4, <2>5, <2>6, Zenon DEF r
<1>12. Typed(E)
  <2>1. ASSUME NEW v \in Values(E)
        PROVE  /\ E.write[v].ok \in BOOLEAN /\ E.write[v].bytes \in Bytes
               /\ E.write[v].written = Len(E.write[v].bytes)
    <3>1. v[1] \in 1 .. n /\ v[2] \in Values(f(v[1])) /\ v = <<v[1], v[2]>>
      BY <1>2
    <3> QED
      BY <1>8, <3>1, Zenon
  <2>2. ASSUME NEW b \in Bytes, E.read[b].kind = "ok" PROVE E.read[b].value \in Values(E)
    <3>1. PICK k \in 1 .. n, g \in Bytes :
            f(k).read[g].value \in Values(f(k)) /\ E.read[b].value = <<k, f(k).read[g].value>>
      BY <1>11, <2>2, Zenon
    <3>2. <<k, f(k).read[g].value>> \in Values(E)
      BY <1>1, <3>1, Zenon
    <3> QED
      BY <3>1, <3>2
  <2> QED
    BY <1>11, <2>1, <2>2 DEF Typed
<1>13. \A k \in 1 .. n : Size(d[k]) \in 1 .. 5
  BY <1>4
<1>14. Hungry(E)
  <2> SUFFICES ASSUME NEW b \in Bytes, E.read[b].kind = "ok"
               PROVE  Len(E.read[b].rest) < Len(b)
    BY DEF Hungry
  <2>1. PICK k \in 1 .. n, g \in Bytes :
          /\ E.read[b].rest = f(k).read[g].rest
          /\ Len(f(k).read[g].rest) <= Len(g) /\ Len(g) + Size(d[k]) <= Len(b)
    BY <1>11, Zenon
  <2>2. E.read[b].rest \in Bytes /\ Size(d[k]) \in 1 .. 5
    BY <1>11, <1>13, Zenon
  <2> DEFINE a == Len(E.read[b].rest)  l == Len(g)  m == Len(b)
  <2>3. a \in Nat /\ l \in Nat /\ m \in Nat /\ a <= l /\ l + Size(d[k]) <= m
    BY <2>1, <2>2, BytesConcat, Zenon
  <2> HIDE DEF a, l, m
  <2>4. a < m
    BY <2>2, <2>3
  <2> QED
    BY <2>4 DEF a, m
<1>15. ASSUME NEW k \in 1 .. n, Whole(f(k)) PROVE WholeAt(E, k)
  <2> SUFFICES ASSUME NEW v \in Values(E), v[1] = k, E.write[v].ok
               PROVE  E.read[E.write[v].bytes] = Ok(v, << >>)
    BY DEF WholeAt
  <2> DEFINE x == v[2]  g == f(k).write[x].bytes
  <2>1. x \in Values(f(k)) /\ v = <<k, x>>
    BY <1>2
  <2> HIDE DEF x
  <2>2. f(k).write[x].ok /\ E.write[v].bytes = h(k) \o g
    <3>1. E.write[<<k, x>>].ok = f(k).write[x].ok
      BY <1>8, <2>1
    <3>2. E.write[<<k, x>>].ok
      BY <2>1
    <3>3. f(k).write[x].ok
      BY <3>1, <3>2
    <3>4. E.write[<<k, x>>].bytes = h(k) \o f(k).write[x].bytes
      BY <1>8, <2>1, <3>3, Zenon
    <3> QED
      BY <2>1, <3>3, <3>4, Zenon DEF g
  <2>3. g \in Bytes
    BY <1>5, <2>1 DEF Typed
  <2>4. f(k).read[g] = Ok(x, << >>)
    BY <1>15, <2>1, <2>2 DEF Whole
  <2> HIDE DEF g
  <2>5. f(k).read[g].kind = "ok" /\ f(k).read[g].value = x /\ f(k).read[g].rest = << >>
    BY <2>4 DEF Ok
  <2> QED
    BY <1>10, <2>1, <2>2, <2>3, <2>5
<1>16. ASSUME NEW k \in 1 .. n, Frugal(f(k)) PROVE FrugalAt(E, k)
  <2> SUFFICES ASSUME NEW b \in Bytes, E.read[b].kind = "ok", E.read[b].value[1] = k,
                      Len(b) <= LengthLimit
               PROVE  /\ E.write[E.read[b].value].ok
                      /\ E.write[E.read[b].value].written + Len(E.read[b].rest) <= Len(b)
    BY DEF FrugalAt
  <2>1. PICK j \in 1 .. n, g \in Bytes :
           /\ f(j).read[g].kind = "ok" /\ f(j).read[g].value \in Values(f(j))
           /\ E.read[b].value = <<j, f(j).read[g].value>>
           /\ E.read[b].rest = f(j).read[g].rest
           /\ Len(g) + Size(d[j]) <= Len(b)
    BY <1>11, Zenon
  <2>2. j = k
    BY <2>1
  <2> DEFINE x == f(k).read[g].value  v == E.read[b].value  r == E.read[b].rest
  <2>3. /\ f(k).read[g].kind = "ok" /\ x \in Values(f(k)) /\ v = <<k, x>>
        /\ r = f(k).read[g].rest /\ Len(g) + Size(d[k]) <= Len(b)
    BY <2>1, <2>2
  <2> HIDE DEF v, r
  <2>4. Len(g) \in Nat /\ Len(b) \in Nat /\ Size(d[k]) \in 1 .. 5 /\ LengthLimit \in Nat
    BY <1>13, BytesConcat, LimitIs, Zenon
  <2>5. Len(g) <= LengthLimit
    BY <2>3, <2>4
  <2>6. f(k).write[x].ok /\ f(k).write[x].written + Len(r) <= Len(g)
    BY <1>16, <2>3, <2>5, Zenon DEF Frugal
  <2> HIDE DEF x
  <2>7. E.write[v].ok /\ E.write[v].written = Size(d[k]) + f(k).write[x].written
    BY <1>8, <2>3, <2>6
  <2>8. f(k).write[x].written \in Nat /\ Len(r) \in Nat
    <3>1. f(k).write[x].bytes \in Bytes /\ f(k).write[x].written = Len(f(k).write[x].bytes)
      BY <1>5, <2>3 DEF Typed
    <3>2. r \in Bytes
      BY <1>11 DEF r
    <3> QED
      BY <3>1, <3>2, BytesConcat
  <2> DEFINE p == f(k).write[x].written  q == Len(r)  l == Len(g)  m == Len(b)  s == Size(d[k])
  <2>9. p \in Nat /\ q \in Nat /\ l \in Nat /\ m \in Nat /\ s \in Nat
        /\ p + q <= l /\ l + s <= m
    BY <2>3, <2>4, <2>6, <2>8
  <2> HIDE DEF p, q, l, m, s
  <2>10. (s + p) + q <= m
    BY <2>9
  <2>11. E.write[v].written + Len(r) <= Len(b)
    BY <2>7, <2>10, Zenon DEF p, q, m, s
  <2> QED
    BY <2>7, <2>11 DEF v, r
<1>17. ASSUME NEW k \in 1 .. n, NEW x \in Values(f(k)), E.write[<<k, x>>].ok
       PROVE  f(k).write[x].ok /\ E.write[<<k, x>>].bytes = h(k) \o f(k).write[x].bytes
  <2>1. E.write[<<k, x>>].ok = f(k).write[x].ok
    BY <1>8, Zenon
  <2>2. f(k).write[x].ok
    BY <1>17, <2>1
  <2> QED
    BY <1>8, <2>2, Zenon
<1>18. \A k \in 1 .. n : TaggedBy(E, k, f(k), h(k))
  BY <1>10, <1>17 DEF TaggedBy
<1> QED
  BY <1>12, <1>14, <1>15, <1>16, <1>18, Zenon DEF E, f, h

LEMMA EnumWhole ==
  ASSUME NEW variants, NEW n \in Nat, DOMAIN variants = 1 .. n, Len(variants) = n,
         Typed(Enum(TRUE, variants))
  PROVE  /\ (\A k \in 1 .. n : WholeAt(Enum(TRUE, variants), k)) => Whole(Enum(TRUE, variants))
         /\ (\A k \in 1 .. n : FrugalAt(Enum(TRUE, variants), k)) => Frugal(Enum(TRUE, variants))
<1> DEFINE E == Enum(TRUE, variants)
<1>1. \A v \in Values(E) : v[1] \in 1 .. n
  BY EnumIs
<1>2. \A b \in Bytes : E.read[b].kind = "ok" => E.read[b].value \in Values(E)
  BY DEF Typed
<1> HIDE DEF E
<1>3. (\A k \in 1 .. n : WholeAt(E, k)) => Whole(E)
  BY <1>1 DEF WholeAt, Whole
<1>4. (\A k \in 1 .. n : FrugalAt(E, k)) => Frugal(E)
  BY <1>1, <1>2 DEF FrugalAt, Frugal
<1> QED
  BY <1>3, <1>4 DEF E

LEMMA PlainNumbered ==
  ASSUME NEW variants, NEW n \in Nat, n <= 100, DOMAIN variants = 1 .. n,
         \A k \in 1 .. n : variants[k].given = << >>
  PROVE  Numbered(variants, n, [k \in 1 .. n |-> k - 1])
<1>1. \A k \in 1 .. n : Discriminants(variants)[k] = k - 1
  BY PlainDiscriminants
<1>2. \A k \in 1 .. n : k - 1 \in Int32
  BY SMT DEF Int32
<1> QED
  BY <1>1, <1>2 DEF Numbered

-----------------------------------------------------------------------------
(* The packets.                                                            *)

LEMMA NextStatePromises ==
  Typed(NextState) /\ Whole(NextState) /\ Frugal(NextState)
<1> DEFINE vs == <<Variant(<<1>>, Unit), Variant(<<2>>, Unit)>>  d == [k \in 1 .. 2 |-> k]
<1>1. /\ DOMAIN vs = 1 .. 2 /\ Len(vs) = 2 /\ 2 \in Nat
      /\ \A k \in 1 .. 2 : vs[k].given = <<k>> /\ vs[k].fields = Unit
  BY DEF Variant
<1>2. NextState = Enum(TRUE, vs)
  BY DEF NextState
<1>3. Typed(Unit) /\ Whole(Unit) /\ Frugal(Unit)
  BY UnitPromises, WholeIs
<1> HIDE DEF vs
<1>4. Numbered(vs, 2, d)
  <2>1. \A k \in 1 .. 2 : Discriminants(vs)[k] = k
    BY <1>1, GivenDiscriminants
  <2>2. 1 \in Int32 /\ 2 \in Int32
    BY SMT DEF Int32
  <2> QED
    BY <2>1, <2>2 DEF Numbered
<1>5. /\ Typed(Enum(TRUE, vs))
      /\ \A k \in 1 .. 2 : Whole(vs[k].fields) => WholeAt(Enum(TRUE, vs), k)
      /\ \A k \in 1 .. 2 : Frugal(vs[k].fields) => FrugalAt(Enum(TRUE, vs), k)
  <2> HIDE DEF d
  <2>1. \A k \in 1 .. 2 : Typed(vs[k].fields)
    BY <1>1, <1>3
  <2>2. ASSUME NEW n \in Nat, n = 2
        PROVE  /\ Typed(Enum(TRUE, vs))
               /\ \A k \in 1 .. n : Whole(vs[k].fields) => WholeAt(Enum(TRUE, vs), k)
               /\ \A k \in 1 .. n : Frugal(vs[k].fields) => FrugalAt(Enum(TRUE, vs), k)
    BY <1>1, <1>4, <2>1, <2>2, EnumPromises, Zenon
  <2> QED
    BY <2>2
<1>6. /\ \A k \in 1 .. 2 : WholeAt(Enum(TRUE, vs), k)
      /\ \A k \in 1 .. 2 : FrugalAt(Enum(TRUE, vs), k)
  BY <1>1, <1>3, <1>5
<1> QED
  BY <1>1, <1>2, <1>5, <1>6, EnumWhole

LEMMA HandshakePromises ==
  Typed(Handshake) /\ Whole(Handshake) /\ Frugal(Handshake)
<1>1. Typed(U16) /\ Prefix(U16) /\ Frugal(U16)
  <2>1. 2 \in Nat \ {0}
    OBVIOUS
  <2> QED
    BY <2>1, PrimPromises DEF U16
<1> DEFINE p == Pair(U16, NextState)  q == Pair(BString(255), p)
<1>2. Typed(p) /\ Whole(p) /\ Frugal(p)
  BY <1>1, NextStatePromises, PairPromises
<1>3. BString(255) = String
  BY DEF BString
<1> HIDE DEF p
<1>4. Typed(q) /\ Whole(q) /\ Frugal(q)
  BY <1>2, <1>3, StringPromises, PairPromises
<1>5. Handshake = Pair(VarInt, q)
  BY DEF Handshake, q, p
<1> HIDE DEF q
<1> QED
  BY <1>4, <1>5, VarIntPromises, PairPromises

(* An enum of packets.                                                     *)
LEMMA PlainEnum ==
  ASSUME NEW vs, NEW n \in Nat, n <= 100, DOMAIN vs = 1 .. n, Len(vs) = n,
         \A k \in 1 .. n : vs[k].given = << >> /\ Typed(vs[k].fields)
  PROVE  /\ Typed(Enum(TRUE, vs))
         /\ \A k \in 1 .. n : Whole(vs[k].fields) => WholeAt(Enum(TRUE, vs), k)
         /\ \A k \in 1 .. n : Frugal(vs[k].fields) => FrugalAt(Enum(TRUE, vs), k)
         /\ \A k \in 1 .. n : \E tag : TaggedBy(Enum(TRUE, vs), k, vs[k].fields, tag)
<1> DEFINE d == [k \in 1 .. n |-> k - 1]
<1>1. Numbered(vs, n, d)
  <2>1. \A k \in 1 .. n : vs[k].given = << >>
    OBVIOUS
  <2> QED
    BY <2>1, PlainNumbered
<1> HIDE DEF d
<1>2. \A k \in 1 .. n : Typed(vs[k].fields)
  OBVIOUS
<1> QED
  BY <1>1, <1>2, EnumPromises, Zenon

LEMMA PacketFields ==
  /\ Typed(PingRequest) /\ Whole(PingRequest) /\ Frugal(PingRequest)
  /\ Typed(Unit) /\ Whole(Unit) /\ Frugal(Unit)
  /\ Typed(LoginStart) /\ Whole(LoginStart) /\ Frugal(LoginStart)
  /\ Typed(EncryptionResponse) /\ Whole(EncryptionResponse) /\ Frugal(EncryptionResponse)
  /\ Typed(PluginResponse) /\ Whole(PluginResponse) /\ Frugal(PluginResponse)
  /\ Typed(EncryptionRequest) /\ Whole(EncryptionRequest) /\ Frugal(EncryptionRequest)
  /\ Typed(LoginSuccess) /\ Whole(LoginSuccess) /\ Frugal(LoginSuccess)
  /\ Typed(SetCompression) /\ Whole(SetCompression) /\ Frugal(SetCompression)
  /\ Typed(PluginRequest) /\ Whole(PluginRequest) /\ Frugal(PluginRequest)
<1>1. \A c : Typed(c) /\ Prefix(c) => Whole(c)
  BY WholeIs
<1>2. \A one, two : Typed(one) /\ Typed(two) =>
        /\ Typed(Pair(one, two))
        /\ Prefix(one) /\ Prefix(two) => Prefix(Pair(one, two))
        /\ Prefix(one) /\ Whole(two) => Whole(Pair(one, two))
        /\ Frugal(one) /\ Frugal(two) => Frugal(Pair(one, two))
        /\ Hungry(one) => Hungry(Pair(one, two))
  BY PairPromises
<1>3. \A max : BString(max) = String
  BY DEF BString
<1>4. Typed(I64) /\ Prefix(I64) /\ Frugal(I64)
  <2>1. 8 \in Nat \ {0}
    OBVIOUS
  <2> QED
    BY <2>1, PrimPromises DEF I64
<1>5. Typed(Uuid) /\ Prefix(Uuid) /\ Frugal(Uuid)
  <2>1. 16 \in Nat \ {0}
    OBVIOUS
  <2> QED
    BY <2>1, PrimPromises DEF Uuid
<1>6. Typed(PingRequest) /\ Whole(PingRequest) /\ Frugal(PingRequest)
  BY <1>1, <1>4, Zenon DEF PingRequest
<1>7. Typed(Unit) /\ Whole(Unit) /\ Frugal(Unit)
  BY <1>1, UnitPromises, Zenon
<1>8. /\ Typed(String) /\ Prefix(String) /\ Frugal(String) /\ Hungry(String)
      /\ Typed(VarInt) /\ Prefix(VarInt) /\ Frugal(VarInt) /\ Hungry(VarInt)
  BY StringPromises, VarIntPromises
<1>9. Typed(LoginStart) /\ Whole(LoginStart) /\ Frugal(LoginStart)
  <2> DEFINE o == Option(Uuid)
  <2>1. Typed(o) /\ Prefix(o) /\ Frugal(o)
    BY <1>5, OptionPromises, Zenon
  <2>2. LoginStart = Pair(String, o)
    BY <1>3 DEF LoginStart
  <2> HIDE DEF o
  <2> QED
    BY <1>1, <1>2, <1>8, <2>1, <2>2, Zenon
<1>10. Typed(Vec(U8)) /\ Prefix(Vec(U8)) /\ Frugal(Vec(U8))
  BY U8Promises, VecPromises, Zenon
<1>11. Typed(EncryptionResponse) /\ Whole(EncryptionResponse) /\ Frugal(EncryptionResponse)
  BY <1>1, <1>2, <1>10, Zenon DEF EncryptionResponse
<1>12. Typed(PluginResponse) /\ Whole(PluginResponse) /\ Frugal(PluginResponse)
  <2> DEFINE o == Option(Slice(U8))
  <2>1. Typed(o) /\ Whole(o) /\ Frugal(o)
    BY SlicePromises, OptionPromises, Zenon
  <2>2. PluginResponse = Pair(VarInt, o)
    BY DEF PluginResponse
  <2> HIDE DEF o
  <2> QED
    BY <1>2, <1>8, <2>1, <2>2, Zenon
<1>13. Typed(EncryptionRequest) /\ Whole(EncryptionRequest) /\ Frugal(EncryptionRequest)
  <2> DEFINE p == Pair(Vec(U8), Vec(U8))
  <2>1. Typed(p) /\ Prefix(p) /\ Frugal(p)
    BY <1>2, <1>10, Zenon
  <2>2. EncryptionRequest = Pair(String, p)
    BY <1>3 DEF EncryptionRequest
  <2> HIDE DEF p
  <2> QED
    BY <1>1, <1>2, <1>8, <2>1, <2>2, Zenon
<1>14. Typed(Property) /\ Prefix(Property) /\ Frugal(Property) /\ Hungry(Property)
  <2> DEFINE o == Option(String)  p == Pair(String, o)
  <2>1. Typed(o) /\ Prefix(o) /\ Frugal(o)
    BY <1>8, OptionPromises, Zenon
  <2>2. Property = Pair(String, p)
    BY <1>3 DEF Property
  <2> HIDE DEF o
  <2>3. Typed(p) /\ Prefix(p) /\ Frugal(p)
    BY <1>2, <1>8, <2>1, Zenon
  <2> HIDE DEF p
  <2> QED
    BY <1>2, <1>8, <2>2, <2>3, Zenon
<1>15. Typed(LoginSuccess) /\ Whole(LoginSuccess) /\ Frugal(LoginSuccess)
  <2> DEFINE l == Vec(Property)  p == Pair(String, l)
  <2>1. Typed(l) /\ Prefix(l) /\ Frugal(l)
    BY <1>14, VecPromises, Zenon
  <2>2. LoginSuccess = Pair(Uuid, p)
    BY <1>3 DEF LoginSuccess
  <2> HIDE DEF l
  <2>3. Typed(p) /\ Prefix(p) /\ Frugal(p)
    BY <1>2, <1>8, <2>1, Zenon
  <2> HIDE DEF p
  <2> QED
    BY <1>1, <1>2, <1>5, <2>2, <2>3, Zenon
<1>16. Typed(SetCompression) /\ Whole(SetCompression) /\ Frugal(SetCompression)
  BY <1>1, <1>8, Zenon DEF SetCompression
<1>17. Typed(PluginRequest) /\ Whole(PluginRequest) /\ Frugal(PluginRequest)
  <2> DEFINE p == Pair(String, Slice(U8))
  <2>1. Typed(p) /\ Whole(p) /\ Frugal(p)
    BY <1>2, <1>8, SlicePromises, Zenon
  <2>2. PluginRequest = Pair(VarInt, p)
    BY DEF PluginRequest
  <2> HIDE DEF p
  <2> QED
    BY <1>2, <1>8, <2>1, <2>2, Zenon
<1> QED
  BY <1>6, <1>7, <1>9, <1>11, <1>12, <1>13, <1>15, <1>16, <1>17

(* The enums' variants.                                                    *)
Packets(type) ==
  CASE type = "SBHandshake" -> <<Variant(<< >>, Handshake)>>
    [] type = "SBStatus"    -> <<Variant(<< >>, Unit), Variant(<< >>, PingRequest)>>
    [] type = "SBLogin"     -> <<Variant(<< >>, LoginStart), Variant(<< >>, EncryptionResponse),
                                 Variant(<< >>, PluginResponse)>>
    [] type = "CBStatus"    -> <<Variant(<< >>, StatusResponse), Variant(<< >>, PingResponse)>>
    [] type = "CBLogin"     -> <<Variant(<< >>, Disconnect), Variant(<< >>, EncryptionRequest),
                                 Variant(<< >>, LoginSuccess), Variant(<< >>, SetCompression),
                                 Variant(<< >>, PluginRequest)>>

Types == {"SBHandshake", "SBStatus", "SBLogin", "CBStatus", "CBLogin"}

(* The variants whose field is a JSON value.                               *)
IsJson(type, k) == type \in {"CBStatus", "CBLogin"} /\ k = 1

LEMMA TypesAre ==
  /\ DOMAIN PacketType = Types
  /\ \A type \in Types : PacketType[type] = Enum(TRUE, Packets(type))
<1>1. DOMAIN PacketType = Types
  BY DEF PacketType, Types
<1>2. PacketType["SBHandshake"] = Enum(TRUE, Packets("SBHandshake"))
  BY DEF PacketType, Packets, SBHandshake
<1>3. PacketType["SBStatus"] = Enum(TRUE, Packets("SBStatus"))
  BY DEF PacketType, Packets, SBStatus
<1>4. PacketType["SBLogin"] = Enum(TRUE, Packets("SBLogin"))
  BY DEF PacketType, Packets, SBLogin
<1>5. PacketType["CBStatus"] = Enum(TRUE, Packets("CBStatus"))
  BY DEF PacketType, Packets, CBStatus
<1>6. PacketType["CBLogin"] = Enum(TRUE, Packets("CBLogin"))
  BY DEF PacketType, Packets, CBLogin
<1> QED
  BY <1>1, <1>2, <1>3, <1>4, <1>5, <1>6, Zenon DEF Types

LEMMA PacketsAre ==
  ASSUME NEW type \in Types
  PROVE  \E n \in Nat :
           /\ n <= 100 /\ DOMAIN Packets(type) = 1 .. n /\ Len(Packets(type)) = n
           /\ \A k \in 1 .. n :
                /\ Packets(type)[k].given = << >> /\ Typed(Packets(type)[k].fields)
                /\ IsJson(type, k) => Packets(type)[k].fields = Json
                /\ ~ IsJson(type, k) => /\ Whole(Packets(type)[k].fields)
                                        /\ Frugal(Packets(type)[k].fields)
<1> USE DEF Variant
<1>1. CASE type = "SBHandshake"
  <2> DEFINE p == <<Variant(<< >>, Handshake)>>
  <2>1. Packets(type) = p
    BY <1>1 DEF Packets
  <2>2. /\ DOMAIN p = 1 .. 1 /\ Len(p) = 1
        /\ \A k \in 1 .. 1 : p[k].given = << >> /\ p[k].fields = Handshake
    OBVIOUS
  <2>3. \A k : ~ IsJson(type, k)
    BY <1>1 DEF IsJson
  <2> HIDE DEF p
  <2>4. 1 \in Nat /\ 1 <= 100
    OBVIOUS
  <2> QED
    BY <2>1, <2>2, <2>3, <2>4, HandshakePromises
<1>2. CASE type = "SBStatus"
  <2> DEFINE p == <<Variant(<< >>, Unit), Variant(<< >>, PingRequest)>>
  <2>1. Packets(type) = p
    BY <1>2 DEF Packets
  <2>2. /\ DOMAIN p = 1 .. 2 /\ Len(p) = 2
        /\ \A k \in 1 .. 2 : p[k].given = << >> /\ (p[k].fields = Unit \/ p[k].fields = PingRequest)
    OBVIOUS
  <2>3. \A k : ~ IsJson(type, k)
    BY <1>2 DEF IsJson
  <2> HIDE DEF p
  <2>4. 2 \in Nat /\ 2 <= 100
    OBVIOUS
  <2> QED
    BY <2>1, <2>2, <2>3, <2>4, PacketFields
<1>3. CASE type = "SBLogin"
  <2> DEFINE p == <<Variant(<< >>, LoginStart), Variant(<< >>, EncryptionResponse),
                    Variant(<< >>, PluginResponse)>>
  <2>1. Packets(type) = p
    BY <1>3 DEF Packets
  <2>2. /\ DOMAIN p = 1 .. 3 /\ Len(p) = 3
        /\ \A k \in 1 .. 3 : /\ p[k].given = << >>
                             /\ \/ p[k].fields = LoginStart
                                \/ p[k].fields = EncryptionResponse
                                \/ p[k].fields = PluginResponse
    OBVIOUS
  <2>3. \A k : ~ IsJson(type, k)
    BY <1>3 DEF IsJson
  <2> HIDE DEF p
  <2>4. 3 \in Nat /\ 3 <= 100
    OBVIOUS
  <2> QED
    BY <2>1, <2>2, <2>3, <2>4, PacketFields
<1>4. CASE type = "CBStatus"
  <2> DEFINE p == <<Variant(<< >>, StatusResponse), Variant(<< >>, PingResponse)>>
  <2>1. Packets(type) = p
    BY <1>4 DEF Packets
  <2>2. /\ DOMAIN p = 1 .. 2 /\ Len(p) = 2
        /\ \A k \in 1 .. 2 : /\ p[k].given = << >>
                             /\ k = 1 => p[k].fields = Json
                             /\ k # 1 => p[k].fields = PingRequest
    BY DEF StatusResponse, PingResponse, PingRequest
  <2>3. \A k : IsJson(type, k) <=> k = 1
    BY <1>4 DEF IsJson
  <2> HIDE DEF p
  <2>4. 2 \in Nat /\ 2 <= 100
    OBVIOUS
  <2> QED
    BY <2>1, <2>2, <2>3, <2>4, PacketFields, JsonPromises
<1>5. CASE type = "CBLogin"
  <2> DEFINE p == <<Variant(<< >>, Disconnect), Variant(<< >>, EncryptionRequest),
                    Variant(<< >>, LoginSuccess), Variant(<< >>, SetCompression),
                    Variant(<< >>, PluginRequest)>>
  <2>1. Packets(type) = p
    BY <1>5 DEF Packets
  <2>2. /\ DOMAIN p = 1 .. 5 /\ Len(p) = 5
        /\ \A k \in 1 .. 5 : /\ p[k].given = << >>
                             /\ k = 1 => p[k].fields = Json
                             /\ k # 1 => \/ p[k].fields = EncryptionRequest
                                         \/ p[k].fields = LoginSuccess
                                         \/ p[k].fields = SetCompression
                                         \/ p[k].fields = PluginRequest
    BY DEF Disconnect
  <2>3. \A k : IsJson(type, k) <=> k = 1
    BY <1>5 DEF IsJson
  <2> HIDE DEF p
  <2>4. 5 \in Nat /\ 5 <= 100
    OBVIOUS
  <2> QED
    BY <2>1, <2>2, <2>3, <2>4, PacketFields, JsonPromises
<1> QED
  BY <1>1, <1>2, <1>3, <1>4, <1>5 DEF Types

(* What is written and read of an enum of packets is of their types, and   *)
(* every packet but those with a JSON value is read as it was written, and *)
(* is written in no more bytes than it was read from.                      *)
THEOREM PacketPromises ==
  ASSUME NEW type \in Types
  PROVE  /\ Typed(PacketType[type])
         /\ \A v \in Values(PacketType[type]) :
              /\ v = <<v[1], v[2]>>
              /\ IsJson(type, v[1]) => v[2] \in JsonTexts
              /\ PacketType[type].write[v].ok /\ ~ IsJson(type, v[1]) =>
                   PacketType[type].read[PacketType[type].write[v].bytes] = Ok(v, << >>)
         /\ \A b \in Bytes :
              /\ PacketType[type].read[b].kind = "ok" /\ Len(b) <= LengthLimit
              /\ ~ IsJson(type, PacketType[type].read[b].value[1])
              =>
              /\ PacketType[type].write[PacketType[type].read[b].value].ok
              /\ PacketType[type].write[PacketType[type].read[b].value].written
                   + Len(PacketType[type].read[b].rest) <= Len(b)
<1> DEFINE vs == Packets(type)  E == Enum(TRUE, vs)
<1>1. PICK n \in Nat :
        /\ n <= 100 /\ DOMAIN vs = 1 .. n /\ Len(vs) = n
        /\ \A k \in 1 .. n :
             /\ vs[k].given = << >> /\ Typed(vs[k].fields)
             /\ IsJson(type, k) => vs[k].fields = Json
             /\ ~ IsJson(type, k) => Whole(vs[k].fields) /\ Frugal(vs[k].fields)
  BY PacketsAre, Zenon
<1>2. PacketType[type] = E
  BY TypesAre
<1> HIDE DEF vs
<1>3. /\ Typed(E)
      /\ \A k \in 1 .. n : Whole(vs[k].fields) => WholeAt(E, k)
      /\ \A k \in 1 .. n : Frugal(vs[k].fields) => FrugalAt(E, k)
  BY <1>1, PlainEnum, Zenon
<1>4. \A v \in Values(E) : v[1] \in 1 .. n /\ v[2] \in Values(vs[v[1]].fields) /\ v = <<v[1], v[2]>>
  BY <1>1, EnumIs, Zenon
<1> HIDE DEF E
<1>5. \A k \in 1 .. n : ~ IsJson(type, k) => WholeAt(E, k) /\ FrugalAt(E, k)
  BY <1>1, <1>3, Zenon
<1>6. ASSUME NEW v \in Values(E)
      PROVE  /\ v = <<v[1], v[2]>>
             /\ IsJson(type, v[1]) => v[2] \in JsonTexts
             /\ E.write[v].ok /\ ~ IsJson(type, v[1]) => E.read[E.write[v].bytes] = Ok(v, << >>)
  <2>1. v[1] \in 1 .. n /\ v[2] \in Values(vs[v[1]].fields) /\ v = <<v[1], v[2]>>
    BY <1>4
  <2>2. IsJson(type, v[1]) => vs[v[1]].fields = Json
    BY <1>1, <2>1, Zenon
  <2>3. ~ IsJson(type, v[1]) => WholeAt(E, v[1])
    BY <1>5, <2>1, Zenon
  <2> QED
    BY <2>1, <2>2, <2>3, JsonPromises, Zenon DEF WholeAt
<1>7. ASSUME NEW b \in Bytes, E.read[b].kind = "ok", Len(b) <= LengthLimit,
             ~ IsJson(type, E.read[b].value[1])
      PROVE  /\ E.write[E.read[b].value].ok
             /\ E.write[E.read[b].value].written + Len(E.read[b].rest) <= Len(b)
  <2> DEFINE v == E.read[b].value
  <2>1. v \in Values(E)
    BY <1>3, <1>7, Zenon DEF Typed
  <2>2. v[1] \in 1 .. n
    BY <1>4, <2>1, Zenon
  <2>3. FrugalAt(E, v[1])
    BY <1>5, <1>7, <2>2, Zenon
  <2> QED
    BY <1>7, <2>3, Zenon DEF FrugalAt
<1> QED
  BY <1>2, <1>3, <1>6, <1>7, Zenon

(* A packet with a JSON value is read as it was if the length of its text  *)
(* is one of the bytes that JSON takes for whitespace; otherwise it is not *)
(* read.                                                                   *)
THEOREM JsonPackets ==
  ASSUME NEW type \in Types, NEW v \in Values(PacketType[type]),
         IsJson(type, v[1]), PacketType[type].write[v].ok
  PROVE  PacketType[type].read[PacketType[type].write[v].bytes] =
           IF Len(v[2]) \in Whitespace THEN Ok(v, << >>) ELSE Fails("json")
<1> DEFINE vs == Packets(type)  E == Enum(TRUE, vs)  t == v[2]
<1>1. PICK n \in Nat :
        /\ n <= 100 /\ DOMAIN vs = 1 .. n /\ Len(vs) = n
        /\ \A k \in 1 .. n :
             /\ vs[k].given = << >> /\ Typed(vs[k].fields)
             /\ IsJson(type, k) => vs[k].fields = Json
  BY PacketsAre, Zenon
<1>2. PacketType[type] = E
  BY TypesAre
<1> HIDE DEF vs
<1>3. \A k \in 1 .. n : \E tag : TaggedBy(E, k, vs[k].fields, tag)
  BY <1>1, PlainEnum, Zenon
<1>4. \A w \in Values(E) : w[1] \in 1 .. n /\ w[2] \in Values(vs[w[1]].fields) /\ w = <<w[1], w[2]>>
  BY <1>1, EnumIs, Zenon
<1> HIDE DEF E, t
<1>5. v[1] = 1
  BY DEF IsJson
<1>6. 1 \in 1 .. n /\ v = <<1, t>>
  BY <1>2, <1>4, <1>5 DEF t
<1>7. vs[1].fields = Json /\ t \in JsonTexts
  <2>1. vs[1].fields = Json
    BY <1>1, <1>5, <1>6
  <2>2. t \in Values(vs[1].fields)
    BY <1>2, <1>4, <1>5 DEF t
  <2> QED
    BY <2>1, <2>2, JsonPromises
<1> DEFINE g == Json.write[t].bytes  r == Json.read[g]
<1>8. PICK h : /\ Json.write[t].ok
               /\ E.write[<<1, t>>].bytes = h \o g
               /\ E.read[h \o g] = IF r.kind # "ok" THEN r ELSE Ok(<<1, r.value>>, r.rest)
  <2>1. E.write[<<1, t>>].ok
    BY <1>2, <1>6
  <2>2. t \in Values(Json)
    BY <1>7, JsonPromises
  <2>3. PICK h : TaggedBy(E, 1, Json, h)
    BY <1>3, <1>6, <1>7, Zenon
  <2>4. Json.write[t].ok /\ E.write[<<1, t>>].bytes = h \o g
    BY <2>1, <2>2, <2>3, Zenon DEF TaggedBy
  <2>5. g \in Bytes
    BY <2>2, JsonPromises DEF Typed
  <2>6. E.read[h \o g] = IF r.kind # "ok" THEN r ELSE Ok(<<1, r.value>>, r.rest)
    BY <2>3, <2>5, Zenon DEF TaggedBy
  <2> QED
    BY <2>4, <2>6, Zenon
<1>9. Len(t) <= LengthLimit /\ g = VarIntBytes(Len(t)) \o t
  <2>1. Json.write[t] = WriteString(t) /\ t \in Bytes
    BY <1>7, JsonAssumption DEF Json
  <2>2. Len(t) > LengthLimit \/ Len(t) <= LengthLimit
    BY <2>1, LimitIs, BytesConcat
  <2>3. TooLong.ok = FALSE
    BY DEF TooLong
  <2>4. ~ (Len(t) > LengthLimit)
    BY <1>8, <2>1, <2>3, WriteStringIs
  <2>5. Len(t) <= LengthLimit
    BY <2>2, <2>4
  <2> QED
    BY <2>1, <2>5, WriteStringIs, Zenon
<1>10. r = IF Len(t) \in Whitespace THEN Ok(t, << >>) ELSE Fails("json")
  BY <1>7, <1>9, JsonReads, Zenon
<1>11. E.read[E.write[v].bytes] = IF r.kind # "ok" THEN r ELSE Ok(<<1, r.value>>, r.rest)
  BY <1>6, <1>8, Zenon
<1> HIDE DEF r, g
<1>12. E.read[E.write[v].bytes] = IF Len(t) \in Whitespace THEN Ok(v, << >>) ELSE Fails("json")
  <2>1. CASE Len(t) \in Whitespace
    <3>1. r.kind = "ok" /\ r.value = t /\ r.rest = << >>
      BY <1>10, <2>1 DEF Ok
    <3> QED
      BY <1>6, <1>11, <2>1, <3>1
  <2>2. CASE Len(t) \notin Whitespace
    <3>1. r = Fails("json") /\ r.kind # "ok"
      BY <1>10, <2>2 DEF Fails
    <3> QED
      BY <1>11, <2>2, <3>1
  <2> QED
    BY <2>1, <2>2
<1> QED
  BY <1>2, <1>12 DEF t

(* From a queue a packet is written in its wrapper, which adds nothing.    *)
THEOREM WrapperWrites ==
  ASSUME NEW type \in Types, NEW v \in Values(PacketType[type])
  PROVE  LET w == Wrapper[type].write[Wrapped(type, v)]
             p == PacketType[type].write[v]
         IN  /\ w.ok = p.ok
             /\ p.ok => w.bytes = p.bytes /\ w.written = p.written
<1> DEFINE w == Wrapper[type].write[Wrapped(type, v)]  p == PacketType[type].write[v]
<1>1. w = Then(Nothing, p)
  <2> USE DEF Variant
  <2> DEFINE sb == <<Variant(<< >>, SBHandshake), Variant(<< >>, SBStatus),
                     Variant(<< >>, SBLogin), Variant(<< >>, Unit)>>
             cb == <<Variant(<< >>, CBStatus), Variant(<< >>, CBLogin), Variant(<< >>, Unit)>>
  <2>1. /\ ServerBound = Enum(FALSE, sb) /\ DOMAIN sb = 1 .. 4 /\ Len(sb) = 4 /\ 4 \in Nat
        /\ sb[1].fields = SBHandshake /\ sb[2].fields = SBStatus /\ sb[3].fields = SBLogin
    BY DEF ServerBound
  <2>2. /\ ClientBound = Enum(FALSE, cb) /\ DOMAIN cb = 1 .. 3 /\ Len(cb) = 3 /\ 3 \in Nat
        /\ cb[1].fields = CBStatus /\ cb[2].fields = CBLogin
    BY DEF ClientBound
  <2> HIDE DEF sb, cb
  <2>3. \A k \in 1 .. 4 : \A x \in Values(sb[k].fields) :
          ServerBound.write[<<k, x>>] = Then(Nothing, sb[k].fields.write[x])
    <3> SUFFICES ASSUME NEW k \in 1 .. 4, NEW x \in Values(sb[k].fields)
                 PROVE  ServerBound.write[<<k, x>>] = Then(Nothing, sb[k].fields.write[x])
      OBVIOUS
    <3>1. ASSUME NEW n \in Nat, n = 4
          PROVE  Enum(FALSE, sb).write[<<k, x>>] = Then(Nothing, sb[k].fields.write[x])
      <4>1. DOMAIN sb = 1 .. n /\ Len(sb) = n /\ k \in 1 .. n
        BY <2>1, <3>1
      <4> QED
        BY <4>1, EnumWrites, Zenon
    <3> QED
      BY <2>1, <3>1
  <2>4. \A k \in 1 .. 3 : \A x \in Values(cb[k].fields) :
          ClientBound.write[<<k, x>>] = Then(Nothing, cb[k].fields.write[x])
    <3> SUFFICES ASSUME NEW k \in 1 .. 3, NEW x \in Values(cb[k].fields)
                 PROVE  ClientBound.write[<<k, x>>] = Then(Nothing, cb[k].fields.write[x])
      OBVIOUS
    <3>1. ASSUME NEW n \in Nat, n = 3
          PROVE  Enum(FALSE, cb).write[<<k, x>>] = Then(Nothing, cb[k].fields.write[x])
      <4>1. DOMAIN cb = 1 .. n /\ Len(cb) = n /\ k \in 1 .. n
        BY <2>2, <3>1
      <4> QED
        BY <4>1, EnumWrites, Zenon
    <3> QED
      BY <2>2, <3>1
  <2>5. DOMAIN PacketType = Types
    BY TypesAre
  <2>6. CASE type = "SBHandshake"
    <3>1. PacketType[type] = SBHandshake /\ Wrapped(type, v) = <<1, v>> /\ Wrapper[type] = ServerBound
      BY <2>5, <2>6 DEF PacketType, Wrapped, Wrapper
    <3>2. v \in Values(sb[1].fields) /\ 1 \in 1 .. 4
      BY <2>1, <3>1
    <3> QED
      BY <2>1, <2>3, <3>1, <3>2, Zenon
  <2>7. CASE type = "SBStatus"
    <3>1. PacketType[type] = SBStatus /\ Wrapped(type, v) = <<2, v>> /\ Wrapper[type] = ServerBound
      BY <2>5, <2>7 DEF PacketType, Wrapped, Wrapper
    <3>2. v \in Values(sb[2].fields) /\ 2 \in 1 .. 4
      BY <2>1, <3>1
    <3> QED
      BY <2>1, <2>3, <3>1, <3>2, Zenon
  <2>8. CASE type = "SBLogin"
    <3>1. PacketType[type] = SBLogin /\ Wrapped(type, v) = <<3, v>> /\ Wrapper[type] = ServerBound
      BY <2>5, <2>8 DEF PacketType, Wrapped, Wrapper
    <3>2. v \in Values(sb[3].fields) /\ 3 \in 1 .. 4
      BY <2>1, <3>1
    <3> QED
      BY <2>1, <2>3, <3>1, <3>2, Zenon
  <2>9. CASE type = "CBStatus"
    <3>1. PacketType[type] = CBStatus /\ Wrapped(type, v) = <<1, v>> /\ Wrapper[type] = ClientBound
      BY <2>5, <2>9 DEF PacketType, Wrapped, Wrapper
    <3>2. v \in Values(cb[1].fields) /\ 1 \in 1 .. 3
      BY <2>2, <3>1
    <3> QED
      BY <2>2, <2>4, <3>1, <3>2, Zenon
  <2>10. CASE type = "CBLogin"
    <3>1. PacketType[type] = CBLogin /\ Wrapped(type, v) = <<2, v>> /\ Wrapper[type] = ClientBound
      BY <2>5, <2>10 DEF PacketType, Wrapped, Wrapper
    <3>2. v \in Values(cb[2].fields) /\ 2 \in 1 .. 3
      BY <2>2, <3>1
    <3> QED
      BY <2>2, <2>4, <3>1, <3>2, Zenon
  <2> QED
    BY <2>6, <2>7, <2>8, <2>9, <2>10 DEF Types
<1>2. p.ok \in BOOLEAN /\ p.bytes \in Bytes /\ p.written = Len(p.bytes)
  BY PacketPromises DEF Typed
<1> HIDE DEF w, p
<1>3. << >> \in Bytes /\ Len(<< >>) = 0 /\ << >> \o p.bytes = p.bytes /\ Len(p.bytes) \in Nat
  BY <1>2, BytesConcat
<1>4. /\ w.ok = p.ok
      /\ p.ok => w.bytes = << >> \o p.bytes /\ w.written = Len(<< >>) + p.written
  <2>1. Nothing.ok = TRUE /\ Nothing.bytes = << >> /\ Nothing.written = Len(<< >>)
    BY <1>3 DEF Nothing, Wrote
  <2>2. Counted(Nothing) /\ Nothing.ok /\ Counted(p)
    BY <1>2, <1>3, <2>1 DEF Counted
  <2>3. HeadedBy(Nothing, p, Then(Nothing, p))
    BY <2>2, HeadThen, Zenon
  <2> QED
    BY <1>1, <2>1, <2>3, Zenon DEF HeadedBy
<1>5. 0 + p.written = p.written
  BY <1>2, <1>3
<1> QED
  BY <1>3, <1>4, <1>5, Zenon DEF w, p

=============================================================================
