-------------------------- MODULE ConnectionProofs --------------------------
(***************************************************************************)
(* The dialogues of a connection, for any frames, digests and number of    *)
(* frames a client may send. The inductive invariant ties the phase to     *)
(* what has been read and written: PhaseInv says of each phase how far the *)
(* dialogue is, and the four safety properties carry over the phases that  *)
(* end it. From it follow the properties themselves, and that the          *)
(* connection implements Dialogue.                                         *)
(***************************************************************************)
EXTENDS Connection, Induction, SequenceTheorems, TLAPS

AnyFrame == [id : 0 .. 3, data : Data]

StatusFrame == [id |-> 0, data |-> "status"]
Challenge == [id |-> 1, data |-> "echo"]
WrongFrame == [id |-> 0, data |-> "other"]

(* StatusDialogue without Tail.                                            *)
Answered(r, o) ==
  /\ Len(o) \in {Len(r) - 1, Len(r) - 2}
  /\ \A k \in 1 .. Len(o) :
       IF r[k + 1].id = 0 THEN o[k] = StatusFrame ELSE o[k] = r[k + 1]
  /\ \A k \in 2 .. Len(r) : r[k].id # 0 => k = Len(r)

(* What is being written answers the last request.                         *)
WritingStatus ==
  /\ InStatus
  /\ after \in {"status", "done"}
  /\ after = "status" => read[Len(read)].id = 0
  /\ frameOut = IF read[Len(read)].id = 0 THEN StatusFrame ELSE read[Len(read)]

WritingLogin ==
  /\ InLogin
  /\ \/ /\ after = "encryption" /\ frameOut = Challenge
        /\ Len(read) = 2 /\ read[2].id = 0 /\ out = << >>
     \/ /\ after = "done" /\ frameOut = WrongFrame
        /\ Len(read) = 3 /\ read[3].data = "other" /\ out = <<Challenge>>

PhaseInv ==
  /\ pc = "handshake" => read = << >> /\ out = << >>
  /\ pc = "status" => /\ InStatus /\ Len(read) = Len(out) + 1
                      /\ \A k \in 2 .. Len(read) : read[k].id = 0
  /\ pc = "login" => InLogin /\ Len(read) = 1 /\ out = << >>
  /\ pc = "encryption" => /\ InLogin /\ Len(read) = 2 /\ read[2].id = 0
                          /\ out = <<Challenge>>
  /\ pc = "writing" => Len(read) = Len(out) + 2 /\ (WritingStatus \/ WritingLogin)
  /\ pc \in Reading \cup {"writing"} => ~cipher

Types == TypeOK /\ frameOut \in AnyFrame /\ out \in Seq(AnyFrame)

Inductive ==
  /\ Types
  /\ InStatus => Answered(read, out)
  /\ LookupIsEarned
  /\ DisconnectIsDeserved
  /\ PhaseInv

-----------------------------------------------------------------------------
(* The frames are frames.                                                  *)
LEMMA FramesAre == Frames \subseteq AnyFrame
BY ConnectionAssumption DEF AnyFrame

(* Tail shifts by one.                                                     *)
LEMMA TailIs ==
  ASSUME NEW S, NEW s \in Seq(S), s # << >>
  PROVE  /\ Len(Tail(s)) = Len(s) - 1
         /\ \A k \in 1 .. Len(s) - 1 : Tail(s)[k] = s[k + 1]
OBVIOUS

LEMMA AppendOne ==
  ASSUME NEW a \in AnyFrame, NEW b \in AnyFrame
  PROVE  Append(<<a>>, b) = <<a, b>>
<1>1. <<a>> \in Seq(AnyFrame) /\ Len(<<a>>) = 1 /\ <<a, b>> \in Seq(AnyFrame)
  OBVIOUS
<1>2. Append(<<a>>, b) \in Seq(AnyFrame) /\ Len(Append(<<a>>, b)) = Len(<<a, b>>)
  BY <1>1
<1>3. \A i \in 1 .. 2 : Append(<<a>>, b)[i] = <<a, b>>[i]
  BY <1>1
<1>4. QED
  BY <1>1, <1>2, <1>3, SeqEqual

LEMMA ByteIs ==
  \A b : b \in 0 .. 255 <=> b \in Nat /\ b < 256
<1>1. ASSUME NEW m \in Nat, m = 255 PROVE \A b : b \in 0 .. m <=> b \in Nat /\ b <= m
  OBVIOUS
<1>2. \A b : b \in 0 .. 255 <=> b \in Nat /\ b <= 255
  <2>1. PICK m \in Nat : m = 255
    OBVIOUS
  <2>2. QED
    BY <1>1, <2>1
<1>3. QED
  BY <1>2, SMT

(* The bytes asked for are bytes, wherever the carry runs.                 *)
LEMMA InvertedIs ==
  ASSUME NEW hash \in Seq(0 .. 255), NEW i \in 1 .. Len(hash)
  PROVE  /\ hash[i] \in 0 .. 255 /\ Inverted(hash, i) = 255 - hash[i]
         /\ Inverted(hash, i) \in 0 .. 255 /\ (Inverted(hash, i) + 1) % 256 \in 0 .. 255
<1>1. hash[i] \in 0 .. 255
  BY ElementOfSeq
<1>2. \A b \in 0 .. 255 : 255 - b \in 0 .. 255 /\ ((255 - b) + 1) % 256 \in 0 .. 255
  OBVIOUS
<1>3. QED
  BY <1>1, <1>2, ZenonT(30) DEF Inverted

LEMMA TwosComplementIs ==
  ASSUME NEW hash \in Seq(0 .. 255)
  PROVE  /\ TwosComplement(hash) \in Seq(0 .. 255)
         /\ Len(TwosComplement(hash)) = Len(hash)
         /\ \A i \in 1 .. Len(hash) :
              TwosComplement(hash)[i] = IF Carry(hash)[i] THEN (Inverted(hash, i) + 1) % 256
                                        ELSE Inverted(hash, i)
<1> DEFINE carry == Carry(hash)
<1>1. TwosComplement(hash) =
        [i \in 1 .. Len(hash) |->
           IF carry[i] THEN (Inverted(hash, i) + 1) % 256 ELSE Inverted(hash, i)]
  BY DEF TwosComplement
<1> HIDE DEF carry
<1>2. TwosComplement(hash) \in [1 .. Len(hash) -> 0 .. 255]
  BY <1>1, InvertedIs, SMTT(30)
<1>3. Len(hash) \in Nat
  BY LenProperties
<1>4. \E n \in Nat : TwosComplement(hash) \in [1 .. n -> 0 .. 255]
  BY <1>2, <1>3
<1>5. Seq(0 .. 255) = UNION {[1 .. n -> 0 .. 255] : n \in Nat}
  BY SeqDef, Zenon
<1>6. TwosComplement(hash) \in Seq(0 .. 255)
  BY <1>4, <1>5, ZenonT(30)
<1>7. Len(TwosComplement(hash)) = Len(hash)
  BY <1>2, <1>3, <1>6, LenProperties
<1>8. QED
  BY <1>1, <1>6, <1>7 DEF carry

LEMMA ServerIdType ==
  ASSUME NEW hash \in Seq(0 .. 255)
  PROVE  ServerId(hash) \in [negative : BOOLEAN, bytes : Seq(0 .. 255)]
BY TwosComplementIs DEF ServerId, Negative

(* The carry comes to a byte if all the bytes after it are 255 inverted.   *)
LEMMA CarryIs ==
  ASSUME NEW hash \in Seq(0 .. 255)
  PROVE  \A i \in 1 .. Len(hash) :
           /\ Carry(hash)[i] \in BOOLEAN
           /\ i = Len(hash) => Carry(hash)[i]
           /\ i < Len(hash) =>
                (Carry(hash)[i] <=> Carry(hash)[i + 1] /\ Inverted(hash, i + 1) = 255)
<1> DEFINE n == Len(hash)
           Good(f) == f = [i \in 1 .. n |-> i = n \/ (f[i + 1] /\ Inverted(hash, i + 1) = 255)]
           through == [i \in 1 .. n |-> \A j \in i + 1 .. n : Inverted(hash, j) = 255]
<1>1. n \in Nat
  BY LenProperties
<1>2. ASSUME NEW i \in 1 .. n
      PROVE  through[i] = (i = n \/ (through[i + 1] /\ Inverted(hash, i + 1) = 255))
  <2>1. CASE i = n
    <3>1. through[i] = TRUE
      BY <1>1, <2>1
    <3>2. QED
      BY <2>1, <3>1
  <2>2. CASE i < n
    <3>1. i + 1 \in 1 .. n /\ \A j \in i + 1 .. n : j = i + 1 \/ j \in i + 1 + 1 .. n
      BY <1>1, <2>2
    <3>2. through[i] <=> through[i + 1] /\ Inverted(hash, i + 1) = 255
      BY <1>1, <3>1
    <3>3. through[i] \in BOOLEAN
      BY DEF through
    <3>4. i # n
      BY <1>1, <2>2
    <3> HIDE DEF through, n
    <3>5. CASE through[i]
      <4>1. through[i] = TRUE
        BY <3>3, <3>5
      <4>2. (i = n \/ (through[i + 1] /\ Inverted(hash, i + 1) = 255)) = TRUE
        BY <3>2, <3>5
      <4>3. QED
        BY <4>1, <4>2, Zenon
    <3>6. CASE ~through[i]
      <4>1. through[i] = FALSE
        BY <3>3, <3>6
      <4>2. (i = n \/ (through[i + 1] /\ Inverted(hash, i + 1) = 255)) = FALSE
        BY <3>2, <3>4, <3>6
      <4>3. QED
        BY <4>1, <4>2, Zenon
    <3>7. QED
      BY <3>5, <3>6
  <2>3. i = n \/ i < n
    BY <1>1
  <2>4. QED
    <3> HIDE DEF through, n
    <3>1. QED
      BY <2>1, <2>2, <2>3, Zenon
<1>3. Good(through)
  <2> DEFINE g == [i \in 1 .. n |-> i = n \/ (through[i + 1] /\ Inverted(hash, i + 1) = 255)]
  <2>1. \A i \in 1 .. n : through[i] = g[i]
    <3> HIDE DEF through
    <3>1. QED
      BY <1>2, Zenon
  <2>2. through = g
    <3>1. through = [i \in 1 .. n |-> through[i]] /\ g = [i \in 1 .. n |-> g[i]]
      OBVIOUS
    <3> HIDE DEF through, g, n
    <3>2. QED
      BY <2>1, <3>1
  <2>3. QED
    BY <2>2
<1>4. Carry(hash) = CHOOSE f : Good(f)
  BY DEF Carry
<1>5. Good(Carry(hash))
  <2> HIDE DEF Good, through
  <2>1. QED
    BY <1>3, <1>4
<1> HIDE DEF through
<1>6. ASSUME NEW i \in 1 .. n
      PROVE  Carry(hash)[i] = (i = n \/ (Carry(hash)[i + 1] /\ Inverted(hash, i + 1) = 255))
  <2> HIDE DEF n
  <2>1. QED
    BY <1>5, Zenon
<1>7. ASSUME NEW i \in 1 .. n
      PROVE  /\ Carry(hash)[i] \in BOOLEAN
             /\ i = n => Carry(hash)[i]
             /\ i # n => (Carry(hash)[i] <=> Carry(hash)[i + 1] /\ Inverted(hash, i + 1) = 255)
  <2>1. (i = n \/ (Carry(hash)[i + 1] /\ Inverted(hash, i + 1) = 255)) \in BOOLEAN
    OBVIOUS
  <2> HIDE DEF n
  <2>2. QED
    BY <1>6, <2>1, Zenon
<1>8. QED
  BY <1>1, <1>7

(* A number goes byte by byte.                                             *)
Summed(upTo, above, bytes) ==
  /\ upTo \in [0 .. Len(bytes) -> Int] /\ upTo[0] = above
  /\ \A k \in 1 .. Len(bytes) : upTo[k] = 256 * upTo[k - 1] + bytes[k]

LEMMA NumberIs ==
  ASSUME NEW above \in Int, NEW bytes \in Seq(0 .. 255)
  PROVE  \E upTo : Summed(upTo, above, bytes) /\ Number(above, bytes) = upTo[Len(bytes)]
<1> DEFINE n == Len(bytes)
           Good(f) == f = [k \in 0 .. n |-> IF k = 0 THEN above ELSE 256 * f[k - 1] + bytes[k]]
           step == [p \in (1 .. n) \X Int |-> 256 * p[2] + bytes[p[1]]]
           upTo == CHOOSE f : Good(f)
<1>1. n \in Nat /\ \A k \in 1 .. n : bytes[k] \in Int
  <2>1. \A k \in 1 .. n : bytes[k] \in 0 .. 255
    BY ElementOfSeq
  <2>2. n \in Nat
    BY LenProperties
  <2>3. QED
    BY <2>1, <2>2, ByteIs
<1>2. step \in [(1 .. n) \X Int -> Int]
  BY <1>1
<1>3. \A k \in 1 .. n, v \in Int : step[<<k, v>>] = 256 * v + bytes[k]
  OBVIOUS
<1> HIDE DEF step
<1>4. PICK f \in [0 .. n -> Int] : Recursive(f, n, above, step)
  <2> HIDE DEF n
  <2>1. QED
    BY <1>1, <1>2, RecursionExists, Zenon
<1>5. Good(f)
  <2>1. ASSUME NEW k \in 0 .. n
        PROVE  f[k] = IF k = 0 THEN above ELSE 256 * f[k - 1] + bytes[k]
    <3>1. CASE k = 0
      BY <1>4, <3>1 DEF Recursive
    <3>2. CASE k # 0
      <4>1. k \in 1 .. n /\ k - 1 \in 0 .. n
        BY <1>1, <3>2
      <4>2. f[k] = step[<<k, f[k - 1]>>] /\ f[k - 1] \in Int
        BY <1>4, <3>2, <4>1 DEF Recursive
      <4>3. QED
        BY <1>3, <3>2, <4>1, <4>2
    <3>3. QED
      BY <3>1, <3>2
  <2>2. QED
    BY <1>4, <2>1
<1>6. Good(upTo)
  <2> HIDE DEF Good
  <2>1. QED
    BY <1>5
<1>7. Number(above, bytes) = upTo[n]
  BY DEF Number
<1> DEFINE S == {k \in Nat : k <= n => upTo[k] \in Int}
<1> HIDE DEF upTo
<1>8. upTo[0] = above /\ \A k \in 1 .. n : upTo[k] = 256 * upTo[k - 1] + bytes[k]
  BY <1>1, <1>6, SMTT(30)
<1>9. 0 \in S
  BY <1>8
<1>10. ASSUME NEW k \in Nat, k \in S PROVE k + 1 \in S
  <2>1. k + 1 <= n => k + 1 \in 1 .. n /\ (k + 1) - 1 = k /\ upTo[k] \in Int
    BY <1>1, <1>10
  <2>2. QED
    BY <1>1, <1>8, <2>1
<1>11. \A k \in Nat : k \in S
  <2> HIDE DEF S
  <2>1. QED
    BY <1>9, <1>10, SetInduction
<1>12. \A k \in 0 .. n : upTo[k] \in Int
  BY <1>1, <1>11
<1>13. upTo \in [0 .. n -> Int]
  BY <1>6, <1>12
<1>14. Summed(upTo, above, bytes)
  BY <1>8, <1>13 DEF Summed
<1>15. QED
  BY <1>7, <1>14, Zenon

(* The complement of a negative number is its magnitude: up to byte k the  *)
(* two differ in sign, but for the carry that has not come there.          *)
LEMMA TwosComplementNegates ==
  ASSUME NEW hash \in Seq(0 .. 255), hash # << >>, hash[1] >= 128
  PROVE  Number(0, TwosComplement(hash)) = - Number(-1, hash)
<1> DEFINE n == Len(hash)  tc == TwosComplement(hash)  carry == Carry(hash)
           in(k) == IF k = 0 THEN 0 ELSE IF carry[k] THEN 1 ELSE 0
<1>1. n \in Nat \ {0}
  BY LenProperties, EmptySeq
<1>2. /\ tc \in Seq(0 .. 255) /\ Len(tc) = n
      /\ \A i \in 1 .. n :
           tc[i] = IF carry[i] THEN (Inverted(hash, i) + 1) % 256 ELSE Inverted(hash, i)
  BY TwosComplementIs
<1>3. \A i \in 1 .. n :
        /\ i = n => carry[i]
        /\ i < n => (carry[i] <=> carry[i + 1] /\ Inverted(hash, i + 1) = 255)
  BY CarryIs
<1> HIDE DEF tc, carry
<1>4. PICK p :
        /\ p \in [0 .. n -> Int] /\ p[0] = 0
        /\ \A k \in 1 .. n : p[k] = 256 * p[k - 1] + tc[k]
        /\ Number(0, tc) = p[n]
  <2>1. PICK zero \in Int : zero = 0
    OBVIOUS
  <2>2. PICK p : Summed(p, zero, tc) /\ Number(zero, tc) = p[Len(tc)]
    BY <1>2, NumberIs, Zenon
  <2>3. QED
    BY <1>2, <2>1, <2>2 DEF Summed
<1>5. PICK q :
        /\ q \in [0 .. n -> Int] /\ q[0] = -1
        /\ \A k \in 1 .. n : q[k] = 256 * q[k - 1] + hash[k]
        /\ Number(-1, hash) = q[n]
  <2>1. PICK top \in Int : top = -1
    OBVIOUS
  <2>2. PICK q : Summed(q, top, hash) /\ Number(top, hash) = q[n]
    BY NumberIs, Zenon
  <2>3. QED
    BY <2>1, <2>2 DEF Summed
<1> DEFINE S == {k \in Nat : k <= n => p[k] + q[k] = in(k) - 1}
<1>6. 0 \in S
  BY <1>4, <1>5
<1>7. ASSUME NEW k \in Nat, k \in S PROVE k + 1 \in S
  <2> SUFFICES ASSUME k + 1 <= n PROVE p[k + 1] + q[k + 1] = in(k + 1) - 1
    OBVIOUS
  <2> DEFINE i == k + 1  h == hash[i]
  <2>1. i \in 1 .. n /\ i - 1 = k /\ k \in 0 .. n
    BY <1>1
  <2>2. h \in Nat /\ h < 256 /\ Inverted(hash, i) = 255 - h
    BY <2>1, InvertedIs, ByteIs
  <2>3. p[i] = 256 * p[k] + tc[i] /\ q[i] = 256 * q[k] + h
    BY <1>4, <1>5, <2>1
  <2>4. tc[i] = IF carry[i] THEN (255 - h + 1) % 256 ELSE 255 - h
    BY <1>2, <2>1, <2>2
  <2>5. in(k) = IF carry[i] /\ h = 0 THEN 1 ELSE 0
    <3>1. CASE k = 0
      BY <2>1, <3>1
    <3>2. CASE k # 0
      <4>1. k \in 1 .. n /\ k < n
        BY <1>1, <3>2
      <4>2. carry[k] <=> carry[i] /\ Inverted(hash, i) = 255
        BY <1>3, <4>1
      <4>3. Inverted(hash, i) = 255 <=> h = 0
        <5> DEFINE v == Inverted(hash, i)
        <5> HIDE DEF h, i, v
        <5>1. QED
          BY <2>2, SMT DEF v
      <4>4. in(k) = IF carry[k] THEN 1 ELSE 0
        BY <3>2
      <4> HIDE DEF in, h, i
      <4>5. QED
        BY <4>2, <4>3, <4>4
    <3>3. QED
      BY <3>1, <3>2
  <2>6. tc[i] + h = 255 + in(i) - 256 * in(k)
    <3>1. in(i) = IF carry[i] THEN 1 ELSE 0
      BY <2>1
    <3>2. (255 - h + 1) % 256 = IF h = 0 THEN 0 ELSE 255 - h + 1
      <4> DEFINE x == 255 - h + 1
      <4>1. x \in Nat /\ x <= 256 /\ (x = 256 <=> h = 0)
        <5> HIDE DEF h
        <5>1. QED
          BY <2>2, SMT DEF x
      <4> HIDE DEF x
      <4>2. x < 256 => x % 256 = x
        BY <4>1, SMT
      <4>3. x = 256 => x % 256 = 0
        BY SMT
      <4>4. (x % 256) = IF h = 0 THEN 0 ELSE x
        <5> HIDE DEF h
        <5>1. QED
          BY <4>1, <4>2, <4>3
      <4>5. QED
        BY <4>4 DEF x
    <3> HIDE DEF in, h, i
    <3>3. QED
      BY <2>2, <2>4, <2>5, <3>1, <3>2, SMT
  <2>7. p[k] \in Int /\ q[k] \in Int /\ p[k] + q[k] = in(k) - 1
    BY <1>1, <1>4, <1>5, <1>7, <2>1, SMTT(30)
  <2>8. tc[i] \in Int /\ in(k) \in Int /\ in(i) \in Int
    <3>1. tc[i] \in Nat
      <4> HIDE DEF in, i
      <4>1. QED
        BY <1>2, <2>1, ElementOfSeq, ByteIs
    <3>2. in(k) \in {0, 1} /\ in(i) \in {0, 1}
      OBVIOUS
    <3> HIDE DEF in, i
    <3>3. QED
      BY <3>1, <3>2
  <2>9. h \in Int
    BY <2>2
  <2> HIDE DEF in, h, i
  <2>10. p[i] + q[i] = 256 * (p[k] + q[k]) + (tc[i] + h)
    <3> DEFINE x == p[k]  y == q[k]  t == tc[i]
    <3>1. x \in Int /\ y \in Int /\ t \in Int
      BY <2>7, <2>8
    <3>2. p[i] + q[i] = (256 * x + t) + (256 * y + h)
      BY <2>3
    <3> HIDE DEF x, y, t
    <3>3. (256 * x + t) + (256 * y + h) = 256 * (x + y) + (t + h)
      BY <2>9, <3>1
    <3>4. QED
      BY <3>2, <3>3 DEF x, y, t
  <2>11. p[i] + q[i] = 256 * (in(k) - 1) + (255 + in(i) - 256 * in(k))
    BY <2>6, <2>7, <2>10
  <2>12. p[i] + q[i] = in(i) - 1
    BY <2>8, <2>11
  <2>13. QED
    BY <2>12 DEF i
<1>8. n \in S
  <2> HIDE DEF S
  <2>1. QED
    BY <1>1, <1>6, <1>7, SetInduction
<1>9. in(n) = 1
  BY <1>1, <1>3
<1>10. p[n] \in Int /\ q[n] \in Int /\ p[n] + q[n] = 0
  <2>1. n \in 0 .. n /\ p[n] + q[n] = in(n) - 1
    BY <1>1, <1>8
  <2>2. p[n] \in Int /\ q[n] \in Int
    BY <1>4, <1>5, <2>1
  <2>3. QED
    BY <1>9, <2>1, <2>2
<1>11. QED
  BY <1>4, <1>5, <1>10 DEF tc

(* Taking a frame off the stream.                                          *)
LEMMA TakeFacts ==
  ASSUME Types, NEW phase, Take(phase)
  PROVE  /\ Head(inbox) \in Frames /\ Head(inbox) \in AnyFrame
         /\ read' = Append(read, Head(inbox)) /\ read' \in Seq(Frames)
         /\ Len(read') = Len(read) + 1
         /\ read'[Len(read) + 1] = Head(inbox)
         /\ \A k \in 1 .. Len(read) : read'[k] = read[k]
         /\ inbox' \in Seq(Frames)
         /\ nSent' = nSent /\ nSent' = Len(read') + Len(inbox')
<1>1. inbox \in Seq(Frames) /\ inbox # << >> /\ read \in Seq(Frames)
  BY DEF Take, Types, TypeOK
<1>2. Head(inbox) \in Frames /\ Tail(inbox) \in Seq(Frames)
      /\ Len(Tail(inbox)) = Len(inbox) - 1
  BY <1>1
<1>3. QED
  BY <1>1, <1>2, FramesAre DEF Take, Types, TypeOK

-----------------------------------------------------------------------------
(* The opening decides which dialogue it is, once.                         *)
LEMMA OpeningKept ==
  ASSUME Types, NEW phase, Take(phase), read # << >>
  PROVE  (InStatus' <=> InStatus) /\ (InLogin' <=> InLogin)
<1>1. Len(read) >= 1 /\ read' # << >> /\ read'[1] = read[1]
  BY TakeFacts DEF Types, TypeOK
<1>2. QED
  BY <1>1 DEF InStatus, InLogin

LEMMA NotBoth == ~(InStatus /\ InLogin)
BY DEF InStatus, InLogin

(* The phase ends without reading: every property is kept as it is.        *)
LEMMA StopStep ==
  ASSUME Inductive, pc' = "done",
         UNCHANGED <<clientVars, read, frameOut, after, out, queryVars>>
  PROVE  Inductive'
<1>1. Types'
  BY DEF Inductive, Types, TypeOK, clientVars, queryVars
<1>2. (InStatus' <=> InStatus) /\ (InLogin' <=> InLogin)
  BY DEF InStatus, InLogin
<1>3. InStatus' => Answered(read', out')
  BY <1>2 DEF Inductive
<1>4. LookupIsEarned'
  BY <1>2 DEF Inductive, LookupIsEarned, queryVars
<1>5. DisconnectIsDeserved'
  BY <1>2 DEF Inductive, DisconnectIsDeserved, queryVars
<1>6. PhaseInv'
  BY DEF PhaseInv, Reading
<1>7. QED
  BY <1>1, <1>3, <1>4, <1>5, <1>6 DEF Inductive

(* A frame is taken and the phase ends with it: it stays unanswered.       *)
LEMMA TakeStopStep ==
  ASSUME Inductive, pc \in Reading, Take(pc), pc' = "done",
         pc = "handshake" => ~Decodes("handshake", Head(inbox)),
         UNCHANGED <<frameOut, after, out, queryVars>>
  PROVE  Inductive'
<1>1. Types /\ PhaseInv /\ ~cipher /\ closed' = closed
  BY DEF Inductive, PhaseInv, Take
<1>2. Types'
  BY <1>1, TakeFacts DEF Types, TypeOK, queryVars
<1>3. PhaseInv'
  BY DEF PhaseInv, Reading
<1>4. CASE pc = "handshake"
  <2>1. read' # << >> /\ read'[1] = Head(inbox)
    BY <1>1, <1>4, TakeFacts DEF PhaseInv
  <2>2. ~InStatus' /\ ~InLogin'
    BY <1>4, <2>1 DEF InStatus, InLogin
  <2>3. LookupIsEarned'
    BY <1>1 DEF Inductive, LookupIsEarned, queryVars
  <2>4. QED
    BY <1>2, <1>3, <2>2, <2>3 DEF Inductive, DisconnectIsDeserved
<1>5. CASE pc # "handshake"
  <2>1. read # << >> /\ Len(read) \in Nat /\ Len(out) \in Nat
    <3>1. Len(read) \in Nat /\ Len(out) \in Nat
      BY <1>1 DEF Types, TypeOK
    <3>2. pc \in {"status", "login", "encryption"}
      BY <1>5 DEF Reading
    <3>3. Len(read) >= 1
      BY <1>1, <3>1, <3>2 DEF PhaseInv
    <3>4. QED
      BY <1>1, <3>1, <3>3 DEF Types, TypeOK
  <2>2. (InStatus' <=> InStatus) /\ (InLogin' <=> InLogin)
    BY <1>1, <2>1, OpeningKept
  <2>3. InStatus' => Answered(read', out')
    <3> SUFFICES ASSUME InStatus PROVE Answered(read', out)
      BY <2>2
    <3>1. pc = "status"
      BY <1>1, <1>5, NotBoth DEF PhaseInv, Reading
    <3>2. Answered(read, out) /\ Len(read) = Len(out) + 1
          /\ \A k \in 2 .. Len(read) : read[k].id = 0
      BY <1>1, <3>1 DEF Inductive, PhaseInv
    <3>3. Len(read') = Len(read) + 1 /\ \A k \in 1 .. Len(read) : read'[k] = read[k]
      BY <1>1, TakeFacts
    <3>4. QED
      BY <2>1, <3>2, <3>3 DEF Answered
  <2>4. LookupIsEarned'
    BY <1>1 DEF Inductive, LookupIsEarned, queryVars
  <2>5. DisconnectIsDeserved'
    <3> SUFFICES ASSUME InLogin PROVE Len(out) <= 1
      BY <2>1, <2>2 DEF DisconnectIsDeserved
    <3>1. pc \in {"login", "encryption"}
      BY <1>1, <1>5, NotBoth DEF PhaseInv, Reading
    <3>2. QED
      BY <1>1, <3>1 DEF PhaseInv
  <2>6. QED
    BY <1>2, <1>3, <2>3, <2>4, <2>5 DEF Inductive
<1>6. QED
  BY <1>4, <1>5

-----------------------------------------------------------------------------
(* Nothing but the client moves.                                           *)
LEMMA ClientStep ==
  ASSUME Inductive, Close \/ \E f \in Frames : Send(f)
  PROVE  Inductive'
<1>1. UNCHANGED taskVars
  BY DEF Close, Send
<1>2. Types'
  <2>1. inbox' \in Seq(Frames) /\ nSent' \in 0 .. MaxFrames /\ nSent' = Len(read') + Len(inbox')
    <3>1. inbox \in Seq(Frames) /\ nSent \in 0 .. MaxFrames /\ MaxFrames \in Nat
          /\ read \in Seq(Frames) /\ nSent = Len(read) + Len(inbox) /\ read' = read
      BY <1>1, ConnectionAssumption DEF Inductive, Types, TypeOK, taskVars
    <3>2. CASE Close
      BY <3>1, <3>2 DEF Close
    <3>3. ASSUME NEW f \in Frames, Send(f)
          PROVE  /\ inbox' \in Seq(Frames) /\ nSent' \in 0 .. MaxFrames
                 /\ nSent' = Len(read') + Len(inbox')
      <4>1. inbox' \in Seq(Frames) /\ Len(inbox') = Len(inbox) + 1 /\ nSent' = nSent + 1
            /\ nSent < MaxFrames
        BY <3>1, <3>3 DEF Send
      <4>2. QED
        BY <3>1, <4>1
    <3>4. QED
      BY <3>2, <3>3
  <2>2. QED
    BY <1>1, <2>1 DEF Inductive, Types, TypeOK, taskVars, queryVars
<1>3. (InStatus' <=> InStatus) /\ (InLogin' <=> InLogin)
  BY <1>1 DEF InStatus, InLogin, taskVars
<1>4. InStatus' => Answered(read', out')
  BY <1>1, <1>3 DEF Inductive, taskVars
<1>5. LookupIsEarned'
  BY <1>1, <1>3 DEF Inductive, LookupIsEarned, taskVars, queryVars
<1>6. DisconnectIsDeserved'
  BY <1>1, <1>3 DEF Inductive, DisconnectIsDeserved, taskVars, queryVars
<1>7. PhaseInv'
  BY <1>1, <1>3 DEF Inductive, PhaseInv, WritingStatus, WritingLogin, taskVars, queryVars
<1>8. QED
  BY <1>2, <1>4, <1>5, <1>6, <1>7 DEF Inductive

LEMMA HandshakeStep ==
  ASSUME Inductive, Handshake
  PROVE  Inductive'
<1>1. Types /\ PhaseInv /\ Take("handshake") /\ pc = "handshake" /\ ~cipher
      /\ UNCHANGED <<closed, frameOut, after, out, queryVars>>
  BY DEF Inductive, PhaseInv, Handshake, Take, Reading
<1>2. read = << >> /\ out = << >>
  BY <1>1 DEF PhaseInv
<1>3. Len(read') = 1 /\ read'[1] = Head(inbox) /\ read' # << >>
  BY <1>1, <1>2, TakeFacts
<1>4. pc' \in {"status", "login"}
  BY DEF Handshake, Decodes
<1>5. Types'
  BY <1>1, <1>4, TakeFacts DEF Types, TypeOK, queryVars, Reading
<1>6. (pc' = "status" <=> InStatus') /\ (pc' = "login" <=> InLogin')
  BY <1>3 DEF Handshake, InStatus, InLogin
<1>7. InStatus' => Answered(read', out')
  BY <1>1, <1>2, <1>3 DEF Answered
<1>8. LookupIsEarned'
  BY <1>1, <1>4 DEF Inductive, LookupIsEarned, queryVars
<1>9. DisconnectIsDeserved'
  BY <1>1, <1>2 DEF DisconnectIsDeserved
<1>10. PhaseInv'
  BY <1>1, <1>2, <1>3, <1>4, <1>6 DEF PhaseInv, Reading, queryVars
<1>11. QED
  BY <1>5, <1>7, <1>8, <1>9, <1>10 DEF Inductive

(* A request of the status phase is taken and its answer begun.            *)
LEMMA StatusStep ==
  ASSUME Inductive, Take("status"), Decodes("status", Head(inbox)),
         NEW next \in {"status", "done"},
         StartWrite(IF Head(inbox).id = 0 THEN StatusFrame ELSE Head(inbox), next),
         next = "status" => Head(inbox).id = 0,
         UNCHANGED <<out, queryVars>>
  PROVE  Inductive'
<1>1. Types /\ PhaseInv /\ pc = "status" /\ pc' = "writing" /\ ~cipher /\ closed' = closed
  BY DEF Inductive, PhaseInv, Take, StartWrite, Reading
<1>2. InStatus /\ Len(read) = Len(out) + 1 /\ (\A k \in 2 .. Len(read) : read[k].id = 0)
      /\ Len(out) \in Nat /\ read # << >>
  BY <1>1 DEF PhaseInv, InStatus, Types
<1>3. Len(read') = Len(read) + 1 /\ read'[Len(read')] = Head(inbox)
      /\ \A k \in 1 .. Len(read) : read'[k] = read[k]
  BY <1>1, TakeFacts
<1>4. InStatus' /\ ~InLogin'
  BY <1>1, <1>2, OpeningKept, NotBoth
<1>5. Types'
  <2>1. frameOut' \in AnyFrame
    BY <1>1, TakeFacts DEF StartWrite, StatusFrame, AnyFrame, Data
  <2>2. after' \in {"status", "encryption", "done"}
    BY DEF StartWrite
  <2>3. QED
    BY <1>1, <2>1, <2>2, TakeFacts DEF Types, TypeOK, queryVars
<1>6. Answered(read', out')
  <2>1. Answered(read, out)
    BY <1>2 DEF Inductive
  <2>2. QED
    BY <1>2, <1>3, <2>1 DEF Answered
<1>7. LookupIsEarned'
  BY <1>1 DEF Inductive, LookupIsEarned, queryVars
<1>8. WritingStatus'
  BY <1>3, <1>4 DEF WritingStatus, StartWrite
<1>9. PhaseInv'
  BY <1>1, <1>2, <1>3, <1>8 DEF PhaseInv, Reading, queryVars
<1>10. QED
  BY <1>4, <1>5, <1>6, <1>7, <1>9 DEF Inductive, DisconnectIsDeserved

-----------------------------------------------------------------------------
LEMMA LoginStartStep ==
  ASSUME Inductive, LoginStart
  PROVE  Inductive'
<1>1. Types /\ PhaseInv /\ Take("login") /\ pc = "login" /\ pc' = "writing" /\ ~cipher
      /\ Head(inbox).id = 0 /\ frameOut' = Challenge /\ after' = "encryption"
      /\ UNCHANGED <<closed, out, queryVars>>
  BY DEF Inductive, PhaseInv, LoginStart, Take, StartWrite, Reading, Challenge
<1>2. InLogin /\ Len(read) = 1 /\ out = << >> /\ read # << >>
  BY <1>1 DEF PhaseInv, InLogin
<1>3. Len(read') = 2 /\ read'[2] = Head(inbox)
  BY <1>1, <1>2, TakeFacts
<1>4. InLogin' /\ ~InStatus'
  BY <1>1, <1>2, OpeningKept, NotBoth
<1>5. Types'
  BY <1>1, TakeFacts DEF Types, TypeOK, queryVars, Challenge, AnyFrame, Data
<1>6. LookupIsEarned'
  BY <1>1 DEF Inductive, LookupIsEarned, queryVars
<1>7. DisconnectIsDeserved'
  BY <1>1, <1>2 DEF DisconnectIsDeserved
<1>8. PhaseInv'
  BY <1>1, <1>2, <1>3, <1>4 DEF PhaseInv, WritingLogin, Reading, queryVars
<1>9. QED
  BY <1>4, <1>5, <1>6, <1>7, <1>8 DEF Inductive

(* The second frame of the login is where the answers of the client are    *)
(* told apart; both ways start like this.                                  *)
LEMMA EncryptionFacts ==
  ASSUME Inductive, Take("encryption")
  PROVE  /\ Types /\ PhaseInv /\ ~cipher /\ player = Nobody
         /\ read \in Seq(Frames) /\ read # << >> /\ Len(read) = 2 /\ read[2].id = 0
         /\ out = <<Challenge>>
         /\ Len(read') = 3 /\ read'[2] = read[2] /\ read'[3] = Head(inbox)
         /\ InLogin' /\ ~InStatus'
<1>1. Types /\ PhaseInv /\ pc = "encryption" /\ ~cipher
  BY DEF Inductive, PhaseInv, Take, Reading
<1>2. InLogin /\ Len(read) = 2 /\ read[2].id = 0 /\ out = <<Challenge>> /\ read # << >>
  BY <1>1 DEF PhaseInv, InLogin
<1>3. Len(read') = 3 /\ read'[2] = read[2] /\ read'[3] = Head(inbox)
  BY <1>1, <1>2, TakeFacts
<1>4. InLogin' /\ ~InStatus'
  BY <1>1, <1>2, OpeningKept, NotBoth
<1>5. player = Nobody /\ read \in Seq(Frames)
  BY <1>1 DEF Inductive, LookupIsEarned, Types, TypeOK
<1>6. QED
  BY <1>1, <1>2, <1>3, <1>4, <1>5

LEMMA WrongTokenStep ==
  ASSUME Inductive, WrongToken
  PROVE  Inductive'
<1>1. Take("encryption") /\ pc' = "writing" /\ after' = "done" /\ frameOut' = WrongFrame
      /\ Head(inbox).data = "other" /\ UNCHANGED <<closed, out, queryVars>>
  BY DEF WrongToken, Take, StartWrite, WrongFrame
<1>2. /\ Types /\ ~cipher /\ out = <<Challenge>>
      /\ Len(read') = 3 /\ read'[3] = Head(inbox) /\ InLogin' /\ ~InStatus'
  BY <1>1, EncryptionFacts
<1>3. Len(<<Challenge>>) = 1
  OBVIOUS
<1>4. Types'
  BY <1>1, <1>2, TakeFacts DEF Types, TypeOK, queryVars, WrongFrame, AnyFrame, Data
<1>5. LookupIsEarned'
  BY <1>1, <1>2 DEF Inductive, LookupIsEarned, queryVars
<1>6. DisconnectIsDeserved'
  BY <1>1, <1>2, <1>3 DEF DisconnectIsDeserved
<1>7. PhaseInv'
  BY <1>1, <1>2, <1>3 DEF PhaseInv, WritingLogin, Reading, queryVars
<1>8. QED
  BY <1>2, <1>4, <1>5, <1>6, <1>7 DEF Inductive

LEMMA EncryptionStep ==
  ASSUME Inductive, EncryptionResponse
  PROVE  Inductive'
<1>1. Take("encryption") /\ pc' = "lookup" /\ cipher' = TRUE /\ player' = read[2].data
      /\ digest' \in Digests /\ serverId' = ServerId(digest')
      /\ Head(inbox).id = 1 /\ Head(inbox).data = "echo"
      /\ UNCHANGED <<closed, frameOut, after, out>>
  BY DEF EncryptionResponse, Take, Verified
<1>2. /\ Types /\ read \in Seq(Frames) /\ Len(read) = 2 /\ read[2].id = 0
      /\ out = <<Challenge>>
      /\ Len(read') = 3 /\ read'[2] = read[2] /\ read'[3] = Head(inbox)
      /\ InLogin' /\ ~InStatus'
  BY <1>1, EncryptionFacts
<1>3. read[2] \in AnyFrame
  BY <1>2, FramesAre
<1>4. Head(inbox) = Challenge
  <2>1. Head(inbox) \in AnyFrame
    BY <1>1, <1>2, TakeFacts
  <2>2. QED
    BY <1>1, <2>1 DEF AnyFrame, Challenge
<1>5. player' \in Data /\ player' # Nobody
  BY <1>1, <1>3 DEF AnyFrame, Data, Nobody
<1>6. Types'
  <2>1. serverId' \in [negative : BOOLEAN, bytes : Seq(0 .. 255)]
    BY <1>1, ConnectionAssumption, ServerIdType
  <2>2. QED
    BY <1>1, <1>2, <1>5, <2>1, TakeFacts DEF Types, TypeOK
<1>7. LookupIsEarned'
  BY <1>1, <1>2, <1>4, <1>5 DEF LookupIsEarned, Challenge
<1>8. DisconnectIsDeserved'
  BY <1>1, <1>2 DEF DisconnectIsDeserved
<1>9. PhaseInv'
  BY <1>1 DEF PhaseInv, Reading
<1>10. QED
  BY <1>2, <1>6, <1>7, <1>8, <1>9 DEF Inductive

(* An answer is written: the k-th, to the k-th request.                    *)
LEMMA WriteDoneStep ==
  ASSUME Inductive, WriteDone
  PROVE  Inductive'
<1>1. /\ Types /\ PhaseInv /\ pc = "writing" /\ ~cipher /\ pc' = after
      /\ out' = Append(out, frameOut)
      /\ UNCHANGED <<inbox, nSent, closed, read, frameOut, after, queryVars>>
  BY DEF Inductive, PhaseInv, WriteDone, Reading, clientVars
<1>2. Len(read) = Len(out) + 2 /\ (WritingStatus \/ WritingLogin)
  BY <1>1 DEF PhaseInv
<1>3. /\ out \in Seq(AnyFrame) /\ frameOut \in AnyFrame /\ Len(out) \in Nat
      /\ out' \in Seq(AnyFrame) /\ Len(out') = Len(out) + 1 /\ out'[Len(out) + 1] = frameOut
      /\ \A k \in 1 .. Len(out) : out'[k] = out[k]
  BY <1>1 DEF Types
<1>4. (InStatus' <=> InStatus) /\ (InLogin' <=> InLogin)
  BY <1>1 DEF InStatus, InLogin
<1>5. Types'
  BY <1>1, <1>3 DEF Types, TypeOK, queryVars, Reading
<1>6. LookupIsEarned'
  <2>1. pc' # "lookup"
    BY <1>1 DEF Types, TypeOK
  <2>2. QED
    BY <1>1, <2>1 DEF Inductive, LookupIsEarned, queryVars
<1>7. CASE WritingStatus
  <2>1. InStatus /\ ~InLogin
    BY <1>7, NotBoth DEF WritingStatus
  <2>2. Answered(read, out)
    BY <2>1 DEF Inductive
  <2>3. Answered(read, out')
    <3>1. ASSUME NEW k \in 1 .. Len(out')
          PROVE  IF read[k + 1].id = 0 THEN out'[k] = StatusFrame ELSE out'[k] = read[k + 1]
      <4>1. CASE k = Len(out) + 1
        <5>1. k + 1 = Len(read)
          BY <1>2, <1>3, <4>1
        <5>2. QED
          BY <1>3, <1>7, <4>1, <5>1 DEF WritingStatus
      <4>2. CASE k # Len(out) + 1
        <5>1. k \in 1 .. Len(out)
          BY <1>3, <4>2
        <5>2. QED
          BY <1>3, <2>2, <5>1 DEF Answered
      <4>3. QED
        BY <4>1, <4>2
    <3>2. QED
      BY <1>2, <1>3, <2>2, <3>1 DEF Answered
  <2>4. PhaseInv'
    <3>1. pc' \in {"status", "done"}
      BY <1>1, <1>7 DEF WritingStatus
    <3>2. ASSUME pc' = "status"
          PROVE  \A k \in 2 .. Len(read) : read[k].id = 0
      BY <1>1, <1>7, <2>2, <3>2 DEF Answered, WritingStatus
    <3>3. QED
      BY <1>1, <1>2, <1>3, <1>4, <2>1, <3>1, <3>2 DEF PhaseInv, Reading, queryVars
  <2>5. QED
    BY <1>1, <1>4, <1>5, <1>6, <2>1, <2>3, <2>4 DEF Inductive, DisconnectIsDeserved
<1>8. CASE WritingLogin
  <2>1. InLogin /\ ~InStatus
    BY <1>8, NotBoth DEF WritingLogin
  <2>2. CASE after = "encryption"
    <3>1. Len(read) = 2 /\ read[2].id = 0 /\ out' = <<Challenge>>
      BY <1>1, <1>8, <2>2 DEF WritingLogin
    <3>2. PhaseInv'
      BY <1>1, <1>4, <2>1, <2>2, <3>1 DEF PhaseInv, Reading, queryVars
    <3>3. DisconnectIsDeserved'
      BY <3>1 DEF DisconnectIsDeserved
    <3>4. QED
      BY <1>4, <1>5, <1>6, <2>1, <3>2, <3>3 DEF Inductive
  <2>3. CASE after # "encryption"
    <3>1. Len(read) = 3 /\ read[3].data = "other" /\ after = "done"
          /\ out' = <<Challenge, WrongFrame>>
      <4>1. Append(<<Challenge>>, WrongFrame) = <<Challenge, WrongFrame>>
        BY AppendOne DEF Challenge, WrongFrame, AnyFrame, Data
      <4>2. QED
        BY <1>1, <1>8, <2>3, <4>1 DEF WritingLogin
    <3>2. PhaseInv'
      BY <1>1, <3>1 DEF PhaseInv, Reading
    <3>3. DisconnectIsDeserved'
      BY <1>1, <3>1 DEF DisconnectIsDeserved, Challenge, WrongFrame, queryVars
    <3>4. QED
      BY <1>4, <1>5, <1>6, <2>1, <3>2, <3>3 DEF Inductive
  <2>4. QED
    BY <2>2, <2>3
<1>9. QED
  BY <1>2, <1>7, <1>8

-----------------------------------------------------------------------------
LEMMA InductiveInit == Init => Inductive
<1> SUFFICES ASSUME Init PROVE Inductive
  OBVIOUS
<1>1. Types
  <2>1. NoFrame \in AnyFrame /\ NoId \in [negative : BOOLEAN, bytes : Seq(0 .. 255)]
    BY DEF NoFrame, NoId, AnyFrame, Data
  <2>2. << >> \in Seq(Frames) /\ << >> \in Seq(AnyFrame) /\ Len(<< >>) = 0
    OBVIOUS
  <2>3. nSent \in 0 .. MaxFrames /\ nSent = Len(read) + Len(inbox)
    BY <2>2, ConnectionAssumption DEF Init
  <2>4. inbox \in Seq(Frames) /\ read \in Seq(Frames) /\ out \in Seq(AnyFrame)
    BY <2>2 DEF Init
  <2>5. frameOut \in AnyFrame /\ serverId \in [negative : BOOLEAN, bytes : Seq(0 .. 255)]
    BY <2>1 DEF Init
  <2>6. QED
    BY <2>3, <2>4, <2>5 DEF Init, Types, TypeOK, Reading
<1>2. ~InStatus /\ ~InLogin
  BY DEF Init, InStatus, InLogin
<1>3. LookupIsEarned
  BY DEF Init, LookupIsEarned
<1>4. PhaseInv
  BY DEF Init, PhaseInv, Reading
<1>5. QED
  BY <1>1, <1>2, <1>3, <1>4 DEF Inductive, DisconnectIsDeserved

LEMMA InductiveNext == Inductive /\ [Next]_vars => Inductive'
<1> SUFFICES ASSUME Inductive, [Next]_vars PROVE Inductive'
  OBVIOUS
<1>1. CASE UNCHANGED vars
  <2>1. InStatus' = InStatus /\ InLogin' = InLogin
    BY <1>1 DEF vars, taskVars, InStatus, InLogin
  <2>2. Types' = Types /\ LookupIsEarned' = LookupIsEarned
        /\ DisconnectIsDeserved' = DisconnectIsDeserved /\ PhaseInv' = PhaseInv
    BY <1>1, <2>1 DEF vars, clientVars, taskVars, queryVars, Types, TypeOK, LookupIsEarned,
       DisconnectIsDeserved, PhaseInv, WritingStatus, WritingLogin
  <2>3. QED
    BY <1>1, <2>1, <2>2 DEF vars, taskVars, Inductive
<1>2. CASE Close \/ \E f \in Frames : Send(f)
  BY <1>2, ClientStep
<1>3. CASE ReadFails
  <2>1. CASE closed /\ UNCHANGED <<clientVars, read>>
    BY <1>3, <2>1, StopStep DEF ReadFails
  <2>2. CASE Take(pc) /\ ~Decodes(pc, Head(inbox))
    BY <1>3, <2>2, TakeStopStep DEF ReadFails
  <2>3. QED
    BY <1>3, <2>1, <2>2 DEF ReadFails
<1>4. CASE WriteDone
  BY <1>4, WriteDoneStep
<1>5. CASE WriteFails \/ LookupEnds \/ ShutdownHeard
  BY <1>5, StopStep DEF WriteFails, LookupEnds, ShutdownHeard
<1>6. CASE Handshake
  BY <1>6, HandshakeStep
<1>7. CASE StatusRequest
  <2>1. Take("status") /\ pc = "status" /\ Head(inbox).id = 0
        /\ Decodes("status", Head(inbox)) /\ UNCHANGED <<out, queryVars>>
    BY <1>7 DEF StatusRequest, Take, Decodes
  <2>2. CASE StartWrite([id |-> 0, data |-> "status"], "status")
    BY <2>1, <2>2, StatusStep DEF StatusFrame
  <2>3. CASE pc' = "done" /\ UNCHANGED <<frameOut, after>>
    BY <2>1, <2>3, TakeStopStep DEF Reading
  <2>4. QED
    BY <1>7, <2>2, <2>3 DEF StatusRequest
<1>8. CASE PingRequest
  <2>1. Take("status") /\ Head(inbox).id = 1 /\ Decodes("status", Head(inbox))
        /\ StartWrite([id |-> 1, data |-> Head(inbox).data], "done")
        /\ UNCHANGED <<out, queryVars>>
    BY <1>8 DEF PingRequest
  <2>2. Head(inbox) = [id |-> 1, data |-> Head(inbox).data]
    BY <2>1, TakeFacts DEF Inductive, AnyFrame
  <2>3. QED
    BY <2>1, <2>2, StatusStep
<1>9. CASE LoginStart
  BY <1>9, LoginStartStep
<1>10. CASE NotFollowingFormat("login", 0) \/ NotFollowingFormat("encryption", 1)
             \/ Undecryptable
  BY <1>10, TakeStopStep DEF NotFollowingFormat, Undecryptable, Take, Reading
<1>11. CASE EncryptionResponse
  BY <1>11, EncryptionStep
<1>12. CASE WrongToken
  BY <1>12, WrongTokenStep
<1>13. QED
  BY <1>1, <1>2, <1>3, <1>4, <1>5, <1>6, <1>7, <1>8, <1>9, <1>10, <1>11, <1>12
     DEF Next, Task

LEMMA InductiveAlways == Spec => []Inductive
BY InductiveInit, InductiveNext, PTL DEF Spec

-----------------------------------------------------------------------------
(* The variables keep their types, the bytes of the server id included.    *)
THEOREM TypeCorrect == Spec => []TypeOK
<1>1. Inductive => TypeOK
  BY DEF Inductive, Types
<1>2. QED
  BY InductiveAlways, <1>1, PTL

(* Requests of the status phase are answered in order, each with its own   *)
(* answer, and none is read after a ping.                                  *)
THEOREM StatusDialogueCorrect == Spec => []StatusDialogue
<1>1. Inductive => StatusDialogue
  <2> SUFFICES ASSUME Inductive, InStatus
               PROVE  /\ Len(out) \in {Len(Requests), Len(Requests) - 1}
                      /\ \A k \in 1 .. Len(out) :
                           IF Requests[k].id = 0 THEN out[k] = StatusFrame
                           ELSE out[k] = Requests[k]
                      /\ \A k \in 1 .. Len(Requests) : Requests[k].id # 0 => k = Len(Requests)
    BY DEF StatusDialogue, StatusFrame
  <2>1. Answered(read, out) /\ read \in Seq(Frames) /\ read # << >>
        /\ Len(read) \in Nat /\ Len(out) \in Nat
    BY DEF Inductive, Types, TypeOK, InStatus
  <2>2. Len(Requests) = Len(read) - 1
        /\ \A k \in 1 .. Len(read) - 1 : Requests[k] = read[k + 1]
    BY <2>1, TailIs DEF Requests
  <2>3. Len(out) \in {Len(Requests), Len(Requests) - 1}
    BY <2>1, <2>2 DEF Answered
  <2>4. ASSUME NEW k \in 1 .. Len(out)
        PROVE  IF Requests[k].id = 0 THEN out[k] = StatusFrame ELSE out[k] = Requests[k]
    <3>1. Requests[k] = read[k + 1]
      BY <2>1, <2>2, <2>3
    <3>2. QED
      BY <2>1, <3>1 DEF Answered
  <2>5. ASSUME NEW k \in 1 .. Len(Requests), Requests[k].id # 0
        PROVE  k = Len(Requests)
    <3>1. Requests[k] = read[k + 1] /\ k + 1 \in 2 .. Len(read)
      BY <2>1, <2>2
    <3>2. k + 1 = Len(read)
      BY <2>1, <2>5, <3>1 DEF Answered
    <3>3. QED
      BY <2>1, <2>2, <3>2
  <2>6. QED
    BY <2>3, <2>4, <2>5
<1>2. QED
  BY InductiveAlways, <1>1, PTL

(* The session server is asked only about a client that sent, in order, a  *)
(* login handshake, its name and the token.                                *)
THEOREM LookupIsEarnedCorrect == Spec => []LookupIsEarned
<1>1. Inductive => LookupIsEarned
  BY DEF Inductive
<1>2. QED
  BY InductiveAlways, <1>1, PTL

(* A disconnect answers a wrong token, and nothing follows it.             *)
THEOREM DisconnectCorrect == Spec => []DisconnectIsDeserved
<1>1. Inductive => DisconnectIsDeserved
  BY DEF Inductive
<1>2. QED
  BY InductiveAlways, <1>1, PTL

-----------------------------------------------------------------------------
(* How far a dialogue is in the phases that read, and in the one that      *)
(* writes.                                                                 *)
LEMMA ReadingIsFree ==
  ASSUME Inductive, pc \in Reading
  PROVE  D!Going /\ ~D!Owing
<1>1. Types /\ PhaseInv /\ ~cipher
  BY DEF Inductive, PhaseInv
<1>2. player = Nobody /\ pc # "done"
  BY <1>1 DEF Inductive, LookupIsEarned, Reading
<1>3. Len(read) <= Len(out) + 1
  <2>1. Len(out) \in Nat /\ Len(read) \in Nat
    BY <1>1 DEF Types, TypeOK
  <2>2. Len(<< >>) = 0 /\ Len(<<Challenge>>) = 1
    OBVIOUS
  <2>3. CASE pc \in {"handshake", "login"}
    <3>1. out = << >> /\ Len(read) \in {0, 1}
      <4>1. CASE pc = "handshake"
        BY <1>1, <2>2, <4>1 DEF PhaseInv
      <4>2. CASE pc = "login"
        BY <1>1, <4>2 DEF PhaseInv
      <4>3. QED
        BY <2>3, <4>1, <4>2
    <3>2. Len(out) = 0
      BY <2>2, <3>1, Zenon
    <3>3. Len(read) = 0 \/ Len(read) = 1
      BY <3>1, Zenon
    <3>4. QED
      <4>1. \A m \in Nat : m = 0 \/ m = 1 => m <= 0 + 1
        OBVIOUS
      <4>2. QED
        BY <2>1, <3>2, <3>3, <4>1, Zenon
  <2>4. CASE pc = "encryption"
    <3>1. out = <<Challenge>> /\ Len(read) = 2
      BY <1>1, <2>4 DEF PhaseInv
    <3>2. Len(out) = 1
      BY <2>2, <3>1, Zenon
    <3>3. QED
      BY <2>1, <3>1, <3>2
  <2>5. CASE pc = "status"
    BY <1>1, <2>1, <2>5 DEF PhaseInv
  <2>6. QED
    BY <2>3, <2>4, <2>5 DEF Reading
<1>4. Len(out) \in Nat /\ Len(read) \in Nat
  BY <1>1 DEF Types, TypeOK
<1>5. QED
  BY <1>2, <1>3, <1>4 DEF D!Going, D!Owing

(* Every frame taken in a phase that stays or ends is heard.               *)
LEMMA TakeHears ==
  ASSUME Inductive, pc \in Reading, Take(pc), UNCHANGED <<out, player>>
  PROVE  D!Hear
<1>1. Head(inbox) \in AnyFrame /\ read' = Append(read, Head(inbox))
  BY TakeFacts DEF Inductive
<1>2. QED
  BY <1>1, ReadingIsFree DEF D!Hear, AnyFrame

(* A step of the connection is a step of the dialogue or none.             *)
LEMMA StepImplements ==
  ASSUME Inductive, [Next]_vars
  PROVE  [D!Next]_(D!vars)
<1>1. CASE UNCHANGED vars \/ Close \/ \E f \in Frames : Send(f)
  BY <1>1 DEF vars, taskVars, queryVars, Close, Send, D!vars
<1>2. CASE ReadFails
  <2>1. CASE closed /\ UNCHANGED <<clientVars, read>>
    BY <1>2, <2>1 DEF ReadFails, Reading, queryVars, D!Next, D!End
  <2>2. CASE Take(pc) /\ ~Decodes(pc, Head(inbox))
    BY <1>2, <2>2, TakeHears DEF ReadFails, queryVars, D!Next
  <2>3. QED
    BY <1>2, <2>1, <2>2 DEF ReadFails
<1>3. CASE WriteDone
  <2>1. /\ Types /\ PhaseInv /\ pc = "writing" /\ ~cipher
        /\ out' = Append(out, frameOut) /\ UNCHANGED <<read, player>>
    BY <1>3 DEF Inductive, PhaseInv, WriteDone, Reading, queryVars
  <2>2. Len(read) = Len(out) + 2 /\ Len(out) \in Nat /\ frameOut \in AnyFrame
    BY <2>1 DEF PhaseInv, Types
  <2>3. player = Nobody
    BY <2>1 DEF Inductive, LookupIsEarned
  <2>4. D!Answer
    BY <2>1, <2>2, <2>3 DEF D!Answer, D!Going, D!Owing, AnyFrame
  <2>5. QED
    BY <2>4 DEF D!Next
<1>4. CASE WriteFails \/ LookupEnds \/ ShutdownHeard
  BY <1>4 DEF WriteFails, LookupEnds, ShutdownHeard, queryVars, D!Next, D!End
<1>5. CASE Handshake \/ StatusRequest \/ PingRequest \/ LoginStart \/ WrongToken
             \/ NotFollowingFormat("login", 0) \/ NotFollowingFormat("encryption", 1)
             \/ Undecryptable
  <2>1. pc \in Reading /\ Take(pc) /\ UNCHANGED <<out, player>>
    BY <1>5 DEF Handshake, StatusRequest, PingRequest, LoginStart, WrongToken,
       NotFollowingFormat, Undecryptable, Take, Reading, queryVars
  <2>2. QED
    BY <2>1, TakeHears DEF D!Next
<1>6. CASE EncryptionResponse
  <2>1. /\ Take("encryption") /\ pc = "encryption" /\ pc' = "lookup"
        /\ player' = read[2].data /\ UNCHANGED out
    BY <1>6 DEF EncryptionResponse, Take
  <2>2. Types /\ read \in Seq(Frames) /\ Len(read) = 2 /\ out = <<Challenge>>
    BY <2>1, EncryptionFacts
  <2>3. read' = Append(read, Head(inbox)) /\ Head(inbox) \in AnyFrame
    BY <2>1, <2>2, TakeFacts
  <2>4. player' \in Data
    <3>1. 2 \in 1 .. Len(read)
      BY <2>2
    <3>2. read[2] \in Frames
      BY <2>2, <3>1, ElementOfSeq
    <3>3. read[2] \in AnyFrame
      BY <3>2, FramesAre
    <3>4. QED
      BY <2>1, <3>3 DEF AnyFrame
  <2>5. D!Going /\ ~D!Owing
    BY <2>1, ReadingIsFree DEF Reading
  <2>6. D!Identify
    BY <2>1, <2>2, <2>3, <2>4, <2>5 DEF D!Identify, AnyFrame
  <2>7. QED
    BY <2>6 DEF D!Next
<1>7. QED
  BY <1>1, <1>2, <1>3, <1>4, <1>5, <1>6 DEF Next, Task

(* The connection keeps the dialogue.                                      *)
THEOREM DialogueKept == Spec => KeepsDialogue
<1>1. Init => D!Init
  BY DEF Init, D!Init
<1>2. Inductive /\ [Next]_vars => [D!Next]_(D!vars)
  BY StepImplements
<1>3. QED
  BY InductiveAlways, <1>1, <1>2, PTL DEF Spec, KeepsDialogue, D!Spec

-----------------------------------------------------------------------------
(* What the session server is asked for is the digest's, while it is.      *)
ServerIdKept == pc = "lookup" => digest \in Digests /\ serverId = ServerId(digest)

LEMMA ServerIdStep == Inductive /\ ServerIdKept /\ [Next]_vars => ServerIdKept'
<1> SUFFICES ASSUME Inductive, ServerIdKept, [Next]_vars, pc' = "lookup"
             PROVE  digest' \in Digests /\ serverId' = ServerId(digest')
  BY DEF ServerIdKept
<1>1. CASE UNCHANGED vars \/ Close \/ \E f \in Frames : Send(f)
  BY <1>1 DEF ServerIdKept, vars, taskVars, queryVars, Close, Send
<1>2. CASE ReadFails \/ WriteFails \/ LookupEnds \/ ShutdownHeard \/ Undecryptable
           \/ NotFollowingFormat("login", 0) \/ NotFollowingFormat("encryption", 1)
  BY <1>2 DEF ReadFails, WriteFails, LookupEnds, ShutdownHeard, Undecryptable,
     NotFollowingFormat
<1>3. CASE WriteDone
  BY <1>3 DEF Inductive, Types, TypeOK, WriteDone
<1>4. CASE Handshake
  BY <1>4 DEF Handshake, Decodes
<1>5. CASE StatusRequest \/ PingRequest \/ LoginStart \/ WrongToken
  BY <1>5 DEF StatusRequest, PingRequest, LoginStart, WrongToken, StartWrite
<1>6. CASE EncryptionResponse
  BY <1>6 DEF EncryptionResponse
<1>7. QED
  BY <1>1, <1>2, <1>3, <1>4, <1>5, <1>6 DEF Next, Task

(* For digests of any length and any bytes, the session server is asked    *)
(* for the number that the digest is in two's complement.                  *)
THEOREM ServerIdCorrect == Spec => []ServerIdIsDigest
<1>1. Init => ServerIdKept
  BY DEF Init, ServerIdKept
<1>2. Inductive /\ ServerIdKept /\ [Next]_vars => ServerIdKept'
  BY ServerIdStep
<1>3. ServerIdKept => ServerIdIsDigest
  <2> SUFFICES ASSUME digest \in Digests, serverId = ServerId(digest)
               PROVE  (IF serverId.negative THEN - Number(0, serverId.bytes)
                       ELSE Number(0, serverId.bytes))
                        = Number(IF digest[1] < 128 THEN 0 ELSE -1, digest)
    BY DEF ServerIdKept, ServerIdIsDigest
  <2>1. digest \in Seq(0 .. 255) /\ digest # << >>
    BY ConnectionAssumption
  <2>2. digest[1] \in Nat
    <3>1. 1 \in 1 .. Len(digest)
      BY <2>1
    <3>2. QED
      BY <2>1, <3>1, ElementOfSeq, ByteIs
  <2>3. CASE digest[1] < 128
    <3>1. ~serverId.negative /\ serverId.bytes = digest
      <4>1. ~Negative(digest)
        BY <2>2, <2>3 DEF Negative
      <4>2. serverId.negative = Negative(digest) /\ serverId.bytes = digest
        BY <4>1 DEF ServerId
      <4>3. QED
        BY <4>1, <4>2
    <3>2. QED
      BY <2>3, <3>1
  <2>4. CASE digest[1] >= 128
    <3>1. serverId.negative /\ serverId.bytes = TwosComplement(digest)
      BY <2>4 DEF ServerId, Negative
    <3>2. Number(0, TwosComplement(digest)) = - Number(-1, digest) /\ Number(-1, digest) \in Int
      <4>1. PICK top \in Int : top = -1
        OBVIOUS
      <4>2. PICK q : Summed(q, top, digest) /\ Number(top, digest) = q[Len(digest)]
        BY <2>1, NumberIs, Zenon
      <4>3. Number(-1, digest) \in Int
        <5>1. Len(digest) \in 0 .. Len(digest)
          BY <2>1
        <5>2. QED
          BY <4>1, <4>2, <5>1 DEF Summed
      <4>4. QED
        BY <2>1, <2>4, <4>3, TwosComplementNegates
    <3>3. QED
      BY <2>2, <2>4, <3>1, <3>2
  <2>5. QED
    BY <2>2, <2>3, <2>4
<1>4. QED
  BY InductiveAlways, <1>1, <1>2, <1>3, PTL DEF Spec

=============================================================================
