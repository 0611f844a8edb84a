------------------------- MODULE PacketStreamProofs -------------------------
(***************************************************************************)
(* The reader of a packet stream stays on the frames, and the packets of   *)
(* this crate come through it: the invariants of PacketStream, for every   *)
(* set of packets, of foreign bodies and of bytes that are no frames, and  *)
(* however many frames there are. WireProofs has what the codecs promise.  *)
(***************************************************************************)
EXTENDS PacketStream, WireProofs

(* Where frame k starts, and the end of the last.                          *)
Start(k) == IF k <= Len(sent) THEN sent[k].first ELSE Len(stream)

Fits(k) == sent[k].by # "unframed" /\ sent[k].size <= LengthLimit
BodyStart(k) == sent[k].first + Size(sent[k].size)
Body(k) == SubSeq(stream, BodyStart(k) + 1, BodyStart(k) + sent[k].size)

(* The writer's variables, and the reader's.                               *)
Carried == Bytes \cup UNION {Values(PacketType[type]) : type \in Types}

Frame ==
  [by : {"own", "foreign", "unframed"}, type : Types \cup {"none"}, value : Carried,
   first : Nat, size : Nat]

WriterOK ==
  /\ stream \in Bytes /\ sent \in Seq(Frame)
  /\ \A k \in 1 .. Len(sent) : sent[k].first <= Len(stream)

Kinds == {PacketType[p[1]].read[p[2]].kind : p \in Types \X Bytes}
Found == {PacketType[p[1]].read[p[2]].value : p \in Types \X Bytes}

Decoding == [type : Types, first : Nat, kind : Kinds, value : Found]

ReaderOK == read \in Seq(Decoding)

(* Where the frames are in the stream, and what is in them.                *)
OwnFrame(k) ==
  /\ sent[k].type \in Types
  /\ sent[k].value \in Values(PacketType[sent[k].type])
  /\ PacketType[sent[k].type].write[sent[k].value].ok
  /\ PacketType[sent[k].type].write[sent[k].value].bytes = Body(k)

LaidOut(k) ==
  /\ Start(k + 1) = BodyStart(k) + sent[k].size
  /\ \A j \in 1 .. Size(sent[k].size) :
       stream[sent[k].first + j] = VarIntBytes(sent[k].size)[j]
  /\ sent[k].by = "own" => OwnFrame(k)

Layout == Start(1) = 0 /\ \A k \in 1 .. Len(sent) : Fits(k) => LaidOut(k)

(* What stands before the body of a frame that is too long.                *)
Announced(k) ==
  LET n == AsI32(sent[k].size) IN
  /\ sent[k].first + Size(n) <= Len(stream)
  /\ \A j \in 1 .. Size(n) : stream[sent[k].first + j] = VarIntBytes(n)[j]

Headers == \A k \in 1 .. Len(sent) : Oversize(k) => Announced(k)

(* The reader does not get to a frame that is too long, nor past it.       *)
Refused ==
  \A k \in 1 .. Len(sent) : Oversize(k) /\ Framed(k - 1) =>
    Len(read) < k /\ (pc = "body" => Len(read) + 1 # k)

(* Nothing is read before all is written.                                  *)
Early == arrived = 0 => read = << >> /\ pc \in {"length", "failed"} /\ consumed = 0

(* Between two frames the reader is at the start of the next, within one   *)
(* at the start of its body.                                               *)
Position ==
  /\ pc = "length" /\ Framed(Len(read)) => consumed = Start(Len(read) + 1)
  /\ pc = "body" /\ Framed(Len(read)) => Len(read) + 1 <= Len(sent)
  /\ pc = "body" /\ Framed(Len(read) + 1) =>
       consumed = BodyStart(Len(read) + 1) /\ length = sent[Len(read) + 1].size

(* What it read is what the codec makes of the body.                       *)
WasRead(k) ==
  LET p == PacketType[read[k].type].read[Body(k)] IN
  read[k].first = BodyStart(k) /\ read[k].kind = p.kind /\ read[k].value = p.value

History ==
  \A k \in 1 .. Len(read) : (Framed(k - 1) => k <= Len(sent)) /\ (Framed(k) => WasRead(k))

NoPanic ==
  pc = "panicked" /\ Framed(Len(read) + 1) => \E k \in 1 .. Len(read) : read[k].kind = "panic"

IInv ==
  /\ TypeOK /\ WriterOK /\ ReaderOK
  /\ Layout /\ Headers /\ Early /\ Position /\ History /\ NoPanic /\ Refused

-----------------------------------------------------------------------------

LEMMA AsI32Is ==
  ASSUME NEW n \in Nat
  PROVE  /\ AsI32(n) \in Int32 /\ (n <= LengthLimit => AsI32(n) = n)
         /\ LengthLimit < n /\ n <= 2 * LengthLimit + 1 => AsI32(n) < 0
<1> DEFINE L == LengthLimit + 1  m == (n + L) % (2 * L)
<1>1. L \in Nat \ {0} /\ 2 * L \in Nat \ {0} /\ 2 * L = L + L
  BY LimitIs
<1>2. m \in 0 .. 2 * L - 1
  <2> DEFINE p == n + L  q == 2 * L
  <2>1. p \in Nat /\ q \in Nat \ {0}
    BY <1>1
  <2> HIDE DEF p, q
  <2>2. p % q \in 0 .. q - 1
    BY <2>1
  <2> QED
    BY <2>2 DEF p, q
<1>3. n + L < 2 * L => m = n + L
  <2> DEFINE p == n + L  q == 2 * L
  <2>1. p \in Nat /\ q \in Nat \ {0}
    BY <1>1
  <2> HIDE DEF p, q
  <2>2. p < q => p % q = p
    BY <2>1
  <2> QED
    BY <2>2 DEF p, q
<1>8. n + L >= 2 * L /\ n + L < 2 * (2 * L) => m = (n + L) - 2 * L
  <2> DEFINE p == n + L  q == 2 * L
  <2>1. p \in Nat /\ q \in Nat \ {0} /\ 2 * q = q + q
    BY <1>1
  <2> HIDE DEF p, q
  <2>2. p >= q /\ p < q + q => p % q = p - q
    <3> SUFFICES ASSUME p >= q, p < q + q PROVE p % q = p - q
      OBVIOUS
    <3>1. p \div q \in Int /\ p % q \in 0 .. q - 1 /\ p = q * (p \div q) + (p % q)
      BY <2>1
    <3> DEFINE d == p \div q  r == p % q
    <3> HIDE DEF d, r
    <3>2. d \in Int /\ r \in 0 .. q - 1 /\ p = q * d + r
      BY <3>1 DEF d, r
    <3>3. d > 0
      <4>1. d <= 0 => q * d <= 0
        BY <2>1, <3>2
      <4> QED
        BY <2>1, <3>2, <4>1
    <3>4. d < 2
      <4>1. d >= 2 => q * d >= q + q
        BY <2>1, <3>2
      <4> QED
        BY <2>1, <3>2, <4>1
    <3>5. d = 1
      BY <3>2, <3>3, <3>4
    <3> QED
      BY <2>1, <3>2, <3>5 DEF r
  <2>3. p >= q /\ p < 2 * q => p % q = p - q
    BY <2>1, <2>2
  <2> QED
    BY <2>3 DEF p, q
<1>4. AsI32(n) = m - L
  <2>1. n + LengthLimit + 1 = n + L
    BY LimitIs
  <2> QED
    BY <2>1 DEF AsI32
<1>5. L <= 2147483648
  BY LimitAssumption, SMT
<1> HIDE DEF m
<1>6. AsI32(n) \in Int32
  <2>1. m \in Int /\ 0 <= m /\ m <= L + L - 1
    BY <1>1, <1>2
  <2> HIDE DEF L
  <2> QED
    BY <1>1, <1>4, <1>5, <2>1, SMT DEF Int32
<1>7. n <= LengthLimit => n + L < 2 * L
  BY LimitIs
<1>9. LengthLimit < n /\ n <= 2 * LengthLimit + 1 => AsI32(n) < 0
  <2> SUFFICES ASSUME LengthLimit < n, n <= 2 * LengthLimit + 1 PROVE AsI32(n) < 0
    OBVIOUS
  <2>1. L <= n /\ n < L + L /\ n \in Int
    BY LimitIs
  <2> HIDE DEF L
  <2>2. n + L >= 2 * L /\ n + L < 2 * (2 * L)
    BY <1>1, <2>1
  <2> QED
    BY <1>1, <1>4, <1>8, <2>1, <2>2
<1> QED
  BY <1>1, <1>3, <1>4, <1>6, <1>7, <1>9

LEMMA PieceIs ==
  ASSUME NEW b \in Bytes, NEW i \in Nat, NEW j \in Nat, i <= j, j <= Len(b)
  PROVE  /\ SubSeq(b, i + 1, j) \in Bytes /\ Len(SubSeq(b, i + 1, j)) = j - i
         /\ \A k \in 1 .. j - i : SubSeq(b, i + 1, j)[k] = b[i + k]
<1>1. b \in Seq(Byte) /\ i + 1 \in 1 .. Len(b) + 1 /\ j \in i .. Len(b)
  BY DEF Bytes
<1> DEFINE s == SubSeq(b, i + 1, j)
<1>2. s \in Seq(Byte) /\ Len(s) = (IF i + 1 <= j THEN j - (i + 1) + 1 ELSE 0)
      /\ \A k \in 1 .. j - (i + 1) + 1 : s[k] = b[(i + 1) + k - 1]
  BY <1>1, SubSeqProperties
<1>3. Len(s) = j - i
  BY <1>2
<1>4. ASSUME NEW k \in 1 .. j - i PROVE s[k] = b[i + k]
  <2>1. k \in 1 .. j - (i + 1) + 1 /\ (i + 1) + k - 1 = i + k
    OBVIOUS
  <2> QED
    BY <1>2, <2>1
<1> QED
  BY <1>2, <1>3, <1>4 DEF Bytes

LEMMA InitInv ==
  Init => IInv
<1> SUFFICES ASSUME Init PROVE IInv
  OBVIOUS
<1> USE DEF Init
<1>1. << >> \in Bytes /\ Len(<< >>) = 0
  BY BytesConcat
<1>2. << >> \in Seq(Frame) /\ << >> \in Seq(Decoding)
  OBVIOUS
<1>3. TypeOK
  BY <1>1 DEF TypeOK
<1>4. WriterOK
  BY <1>1, <1>2 DEF WriterOK
<1>5. ReaderOK
  BY <1>2 DEF ReaderOK
<1>6. Layout
  BY <1>1 DEF Layout, Start
<1>7. Early
  BY DEF Early
<1>8. Position
  BY <1>1 DEF Position, Start
<1>9. History /\ NoPanic /\ Headers /\ Refused
  BY <1>1 DEF History, NoPanic, Headers, Refused
<1> QED
  BY <1>3, <1>4, <1>5, <1>6, <1>7, <1>8, <1>9 DEF IInv

(* The frames depend on what was written, nothing else.                    *)
LEMMA WrittenSame ==
  ASSUME UNCHANGED <<stream, sent>>
  PROVE  /\ (Layout => Layout') /\ (Headers => Headers')
         /\ \A k : Oversize(k)' = Oversize(k)
         /\ \A k : Framed(k)' = Framed(k) /\ Start(k)' = Start(k) /\ BodyStart(k)' = BodyStart(k)
         /\ UNCHANGED read => (History => History')
<1>1. \A k : /\ Start(k)' = Start(k) /\ BodyStart(k)' = BodyStart(k)
             /\ Body(k)' = Body(k) /\ Fits(k)' = Fits(k)
  BY DEF Start, BodyStart, Body, Fits
<1>2. \A k : Framed(k)' = Framed(k)
  BY DEF Framed
<1>3. \A k : OwnFrame(k)' = OwnFrame(k)
  BY <1>1 DEF OwnFrame
<1>4. \A k : LaidOut(k)' = LaidOut(k)
  BY <1>1, <1>3 DEF LaidOut
<1>5. Layout => Layout'
  BY <1>1, <1>4 DEF Layout
<1>6. ASSUME UNCHANGED read, History PROVE History'
  <2>1. \A k : WasRead(k)' = WasRead(k)
    BY <1>1, <1>6 DEF WasRead
  <2> QED
    BY <1>2, <1>6, <2>1 DEF History
<1>7. \A k : Oversize(k)' = Oversize(k)
  BY DEF Oversize
<1>8. Headers => Headers'
  <2>1. \A k : Announced(k)' = Announced(k)
    BY DEF Announced
  <2> QED
    BY <1>7, <2>1 DEF Headers
<1> QED
  BY <1>1, <1>2, <1>5, <1>6, <1>7, <1>8

LEMMA NetworkKeeps ==
  IInv /\ (Deliver \/ Close \/ StreamFails) => IInv'
<1> SUFFICES ASSUME IInv, Deliver \/ Close \/ StreamFails PROVE IInv'
  OBVIOUS
<1> USE DEF IInv
<1>1. /\ UNCHANGED <<stream, sent>> /\ UNCHANGED read
      /\ UNCHANGED <<side, consumed, length>>
      /\ arrived' \in 0 .. Len(stream) /\ arrived' >= arrived
      /\ pc' = pc \/ pc' = "failed"
      /\ arrived' = 0 => arrived = 0
  BY DEF TypeOK, WriterOK, Deliver, Close, StreamFails, netVars, readVars
<1>2. TypeOK'
  BY <1>1 DEF TypeOK
<1>3. WriterOK' /\ ReaderOK'
  BY <1>1 DEF WriterOK, ReaderOK
<1>4. Layout' /\ Headers' /\ History'
  BY <1>1, WrittenSame
<1>5. Early'
  BY <1>1 DEF Early
<1>6. Position'
  <2>1. \A k : Framed(k)' = Framed(k) /\ Start(k)' = Start(k) /\ BodyStart(k)' = BodyStart(k)
    BY <1>1, WrittenSame
  <2> QED
    BY <1>1, <2>1 DEF Position
<1>7. NoPanic'
  <2>1. \A k : Framed(k)' = Framed(k)
    BY <1>1, WrittenSame
  <2> QED
    BY <1>1, <2>1 DEF NoPanic
<1>8. Refused'
  <2>1. \A k : Framed(k)' = Framed(k) /\ Oversize(k)' = Oversize(k)
    BY <1>1, WrittenSame
  <2> QED
    BY <1>1, <2>1 DEF Refused
<1> QED
  BY <1>2, <1>3, <1>4, <1>5, <1>6, <1>7, <1>8

LEMMA AvailableIs ==
  ASSUME TypeOK, WriterOK
  PROVE  /\ Available \in Bytes /\ Len(Available) = arrived - consumed
         /\ \A k \in 1 .. arrived - consumed : Available[k] = stream[consumed + k]
         /\ consumed \in Nat /\ arrived \in Nat /\ consumed <= arrived
         /\ arrived <= Len(stream) /\ Len(stream) \in Nat
<1>1. /\ stream \in Bytes /\ consumed \in Nat /\ arrived \in Nat
      /\ consumed <= arrived /\ arrived <= Len(stream) /\ Len(stream) \in Nat
  BY BytesConcat DEF TypeOK, WriterOK
<1> QED
  BY <1>1, PieceIs DEF Available

LEMMA FramedIs ==
  ASSUME WriterOK, NEW k \in Nat
  PROVE  /\ Len(sent) \in Nat
         /\ Framed(k) => k <= Len(sent)
         /\ Framed(k + 1) => /\ Framed(k) /\ k + 1 \in 1 .. Len(sent)
                             /\ sent[k + 1] \in Frame
                             /\ Fits(k + 1)
<1>1. Len(sent) \in Nat /\ \A j \in 1 .. Len(sent) : sent[j] \in Frame
  BY DEF WriterOK
<1>2. Framed(k) => k <= Len(sent)
  BY DEF Framed
<1>3. ASSUME Framed(k + 1)
      PROVE  Framed(k) /\ k + 1 \in 1 .. Len(sent) /\ sent[k + 1] \in Frame /\ Fits(k + 1)
  <2>1. k + 1 \in 1 .. Len(sent)
    BY <1>1, <1>3 DEF Framed
  <2>2. Framed(k) /\ Fits(k + 1)
    BY <1>1, <1>3, <2>1 DEF Framed, Fits
  <2> QED
    BY <1>1, <2>1, <2>2
<1> QED
  BY <1>1, <1>2, <1>3

(* Between two frames a length is read as it was written, or there is too  *)
(* little of it yet.                                                       *)
LEMMA LengthRead ==
  ASSUME IInv, pc = "length", Framed(Len(read) + 1)
  PROVE  LET n == Len(read) + 1
             len == ReadVarInt(Available)
         IN  \/ len.kind = "eof"
             \/ /\ len.kind = "ok" /\ len.value = sent[n].size
                /\ arrived - Len(len.rest) = BodyStart(n)
<1> USE DEF IInv
<1> DEFINE n == Len(read) + 1  size == sent[n].size  len == ReadVarInt(Available)
<1>1. Len(read) \in Nat
  BY DEF ReaderOK
<1>2. Framed(Len(read)) /\ n \in 1 .. Len(sent) /\ sent[n] \in Frame /\ Fits(n)
  BY <1>1, FramedIs
<1>3. size \in Nat /\ size <= LengthLimit /\ sent[n].first \in Nat
  BY <1>2 DEF Frame, Fits
<1>4. size \in Int32
  BY <1>3, LimitIs, Zenon
<1>5. LaidOut(n)
  BY <1>2 DEF Layout
<1>6. consumed = sent[n].first
  BY <1>2 DEF Position, Start
<1>7. /\ Available \in Bytes /\ Len(Available) = arrived - consumed
      /\ \A k \in 1 .. arrived - consumed : Available[k] = stream[consumed + k]
      /\ consumed \in Nat /\ arrived \in Nat /\ consumed <= arrived
  BY AvailableIs
<1> DEFINE a == Available
<1> HIDE DEF n, size, a
<1>8. Size(size) \in 1 .. 5
  BY <1>4, VarIntBytesAre
<1>9. \A j \in 1 .. Size(size) : j <= Len(a) => a[j] = VarIntBytes(size)[j]
  <2>1. \A j \in 1 .. Size(size) : stream[consumed + j] = VarIntBytes(size)[j]
    BY <1>5, <1>6 DEF LaidOut, size
  <2>2. \A j \in 1 .. Size(size) : j <= Len(a) => j \in 1 .. arrived - consumed
    BY <1>7, <1>8 DEF a
  <2> QED
    BY <1>7, <2>1, <2>2, Zenon DEF a
<1>10. /\ Len(a) >= Size(size) => ReadVarInt(a) = Ok(size, After(a, Size(size)))
       /\ Len(a) < Size(size) => ReadVarInt(a) = Fails("eof")
  BY <1>4, <1>7, <1>9, ReadVarIntFrom, Zenon DEF a
<1>11. CASE Len(a) < Size(size)
  <2>1. ReadVarInt(a).kind = "eof"
    BY <1>10, <1>11 DEF Fails
  <2> QED
    BY <2>1 DEF a
<1>12. CASE Len(a) >= Size(size)
  <2>1. ReadVarInt(a).kind = "ok" /\ ReadVarInt(a).value = size
        /\ ReadVarInt(a).rest = After(a, Size(size))
    BY <1>10, <1>12 DEF Ok
  <2>2. Size(size) \in 0 .. Len(a) /\ a \in Bytes
    BY <1>7, <1>8, <1>12 DEF a
  <2>3. Len(After(a, Size(size))) = Len(a) - Size(size)
    BY <2>2, AfterIs, Zenon
  <2>4. arrived - Len(ReadVarInt(a).rest) = sent[n].first + Size(size)
    <3> DEFINE r == Len(ReadVarInt(a).rest)  s == Size(size)  l == Len(a)
    <3>1. r = l - s
      BY <2>1, <2>3
    <3>2. l = arrived - consumed /\ s \in Int
      BY <1>7, <1>8 DEF a
    <3> HIDE DEF r, s, l
    <3>3. arrived - r = consumed + s
      BY <1>7, <3>1, <3>2
    <3> QED
      BY <1>6, <3>3 DEF r, s
  <2> QED
    BY <2>1, <2>4 DEF a, size, n, BodyStart
<1> QED
  BY <1>7, <1>8, <1>11, <1>12 DEF a

(* A length that is too long is read as a negative number.                 *)
LEMMA OversizeRead ==
  ASSUME IInv, pc = "length", NEW k \in 1 .. Len(sent), Oversize(k), Framed(k - 1),
         Len(read) + 1 = k
  PROVE  LET len == ReadVarInt(Available) IN len.kind # "ok" \/ len.value < 0
<1> USE DEF IInv
<1> DEFINE n == AsI32(sent[k].size)  a == Available
<1>1. sent[k] \in Frame /\ Len(read) \in Nat /\ k - 1 = Len(read)
  BY DEF WriterOK, ReaderOK
<1>2. n \in Int32 /\ n < 0
  BY <1>1, AsI32Is DEF Oversize, Frame
<1>3. consumed = sent[k].first
  BY <1>1 DEF Position, Start
<1>4. \A j \in 1 .. Size(n) : stream[consumed + j] = VarIntBytes(n)[j]
  BY <1>3 DEF Headers, Announced
<1>5. /\ a \in Bytes /\ Len(a) = arrived - consumed
      /\ \A j \in 1 .. arrived - consumed : a[j] = stream[consumed + j]
      /\ consumed \in Nat /\ arrived \in Nat /\ consumed <= arrived
  BY AvailableIs
<1> HIDE DEF n, a
<1>6. Size(n) \in 1 .. 5
  BY <1>2, VarIntBytesAre
<1>7. \A j \in 1 .. Size(n) : j <= Len(a) => a[j] = VarIntBytes(n)[j]
  <2>1. \A j \in 1 .. Size(n) : j <= Len(a) => j \in 1 .. arrived - consumed
    BY <1>5, <1>6
  <2> QED
    BY <1>4, <1>5, <2>1, Zenon
<1>8. /\ Len(a) >= Size(n) => ReadVarInt(a) = Ok(n, After(a, Size(n)))
      /\ Len(a) < Size(n) => ReadVarInt(a) = Fails("eof")
  BY <1>2, <1>5, <1>7, ReadVarIntFrom, Zenon
<1>9. Len(a) < Size(n) \/ Len(a) >= Size(n)
  BY <1>5, <1>6
<1>10. ReadVarInt(a).kind # "ok" \/ ReadVarInt(a).value < 0
  BY <1>2, <1>8, <1>9 DEF Ok, Fails
<1> QED
  BY <1>10 DEF a

LEMMA ReadLengthKeeps ==
  IInv /\ ReadLength => IInv'
<1> SUFFICES ASSUME IInv, ReadLength PROVE IInv'
  OBVIOUS
<1> USE DEF IInv
<1> DEFINE len == ReadVarInt(Available)
<1>1. /\ pc = "length" /\ UNCHANGED <<side, read, stream, sent, arrived>>
      /\ \/ /\ len.kind = "ok" /\ length' = len.value /\ consumed' = arrived - Len(len.rest)
            /\ pc' = IF len.value < 0 THEN "panicked" ELSE "body"
         \/ len.kind = "data" /\ pc' = "failed" /\ UNCHANGED <<consumed, length>>
  BY DEF ReadLength, netVars
<1>2. /\ Available \in Bytes /\ Len(Available) = arrived - consumed
      /\ consumed \in Nat /\ arrived \in Nat /\ consumed <= arrived
      /\ arrived <= Len(stream) /\ Len(stream) \in Nat
  BY AvailableIs
<1>3. /\ len.rest \in Bytes /\ Len(len.rest) \in Nat
      /\ len.kind = "ok" => /\ len.value \in Int /\ Size(len.value) \in 1 .. 5
                            /\ Len(len.rest) + Size(len.value) <= Len(Available)
  BY <1>2, VarIntLeaves
<1>4. \A k : Framed(k)' = Framed(k) /\ Start(k)' = Start(k) /\ BodyStart(k)' = BodyStart(k)
  BY <1>1, WrittenSame
<1>5. Layout' /\ Headers' /\ History' /\ WriterOK'
  <2>1. UNCHANGED <<stream, sent>> /\ UNCHANGED read
    BY <1>1
  <2> QED
    BY <2>1, WrittenSame DEF WriterOK
<1>10. \A k : Oversize(k)' = Oversize(k)
  BY <1>1, WrittenSame
<1>6. Len(read) \in Nat
  BY DEF ReaderOK
<1>7. Framed(Len(read) + 1) => /\ Framed(Len(read)) /\ Len(read) + 1 \in 1 .. Len(sent)
                               /\ sent[Len(read) + 1].size \in Nat
  BY <1>6, FramedIs DEF Frame
<1>8. CASE len.kind = "data" /\ pc' = "failed" /\ UNCHANGED <<consumed, length>>
  <2>1. Refused'
    BY <1>1, <1>4, <1>8, <1>10 DEF Refused
  <2> QED
    BY <1>1, <1>2, <1>5, <1>8, <2>1 DEF TypeOK, ReaderOK, Early, Position, NoPanic
<1>9. CASE /\ len.kind = "ok" /\ length' = len.value /\ consumed' = arrived - Len(len.rest)
           /\ pc' = IF len.value < 0 THEN "panicked" ELSE "body"
  <2>1. TypeOK'
    <3>1. consumed' \in 0 .. arrived
      BY <1>2, <1>3, <1>9
    <3> HIDE DEF len
    <3> QED
      BY <1>1, <1>3, <1>9, <3>1 DEF TypeOK
  <2>2. ReaderOK'
    BY <1>1 DEF ReaderOK
  <2>3. consumed < arrived
    BY <1>2, <1>3, <1>9
  <2>4. Early'
    BY <1>1, <1>2, <2>3 DEF Early
  <2>5. Framed(Len(read) + 1) => /\ len.value = sent[Len(read) + 1].size
                                 /\ consumed' = BodyStart(Len(read) + 1)
    BY <1>1, <1>9, LengthRead
  <2>6. Framed(Len(read)) => Len(read) + 1 <= Len(sent)
    <3> SUFFICES ASSUME Framed(Len(read)), ~ (Len(read) + 1 <= Len(sent)) PROVE FALSE
      OBVIOUS
    <3>1. consumed = Len(stream)
      BY <1>1 DEF Position, Start
    <3> QED
      BY <1>2, <2>3, <3>1
  <2> HIDE DEF len
  <2>7. Position'
    BY <1>1, <1>4, <1>9, <2>5, <2>6 DEF Position
  <2>8. NoPanic'
    <3> SUFFICES ASSUME pc' = "panicked", Framed(Len(read) + 1) PROVE FALSE
      BY <1>1, <1>4 DEF NoPanic
    <3> QED
      BY <1>3, <1>7, <1>9, <2>5
  <2>9. Refused'
    <3> SUFFICES ASSUME NEW k \in 1 .. Len(sent), Oversize(k), Framed(k - 1)
                 PROVE  Len(read) < k /\ (pc' = "body" => Len(read) + 1 # k)
      BY <1>1, <1>4, <1>10 DEF Refused
    <3>1. Len(read) < k
      BY DEF Refused
    <3>2. Len(read) + 1 = k => len.value < 0
      BY <1>1, <1>9, OversizeRead DEF len
    <3> QED
      BY <1>9, <3>1, <3>2
  <2> QED
    BY <1>5, <2>1, <2>2, <2>4, <2>7, <2>8, <2>9
<1> QED
  BY <1>1, <1>8, <1>9

LEMMA ReadBodyKeeps ==
  ASSUME NEW type \in Types
  PROVE  IInv /\ ReadBody(type) => IInv'
<1> SUFFICES ASSUME IInv, ReadBody(type) PROVE IInv'
  OBVIOUS
<1> USE DEF IInv
<1> DEFINE b == SubSeq(Available, 1, length)  packet == PacketType[type].read[b]
           n == Len(read) + 1
           entry == [type |-> type, first |-> consumed, kind |-> packet.kind, value |-> packet.value]
<1>1. /\ pc = "body" /\ UNCHANGED <<side, stream, sent, arrived, length>>
      /\ Len(Available) >= length /\ consumed' = consumed + length
      /\ read' = Append(read, entry)
  BY DEF ReadBody, Decoded, netVars
<1>2. pc' \in {"length", "panicked", "failed"} /\ (pc' = "panicked" => packet.kind = "panic")
  <2>1. pc' = CASE packet.kind = "ok" -> "length"
                [] packet.kind = "panic" -> "panicked"
                [] OTHER -> "failed"
    BY DEF ReadBody, Decoded
  <2> HIDE DEF packet
  <2> QED
    BY <2>1
<1>3. /\ Available \in Bytes /\ Len(Available) = arrived - consumed
      /\ \A k \in 1 .. arrived - consumed : Available[k] = stream[consumed + k]
      /\ consumed \in Nat /\ arrived \in Nat /\ consumed <= arrived
      /\ arrived <= Len(stream) /\ Len(stream) \in Nat
  BY AvailableIs
<1>4. length \in Nat /\ length \in 0 .. Len(Available) /\ consumed + length <= arrived
  <2>1. length \in Nat
    BY <1>1 DEF TypeOK
  <2> QED
    BY <1>1, <1>3, <2>1
<1>5. b \in Bytes /\ Len(b) = length /\ \A k \in 1 .. length : b[k] = Available[k]
  BY <1>3, <1>4, AfterIs
<1>6. read \in Seq(Decoding) /\ Len(read) \in Nat
  BY DEF ReaderOK
<1>7. entry \in Decoding
  <2> DEFINE p == <<type, b>>
  <2>1. p \in Types \X Bytes /\ p[1] = type /\ p[2] = b
    BY <1>5
  <2> HIDE DEF p, b
  <2>2. packet = PacketType[p[1]].read[p[2]]
    BY <2>1, Zenon
  <2> HIDE DEF packet
  <2>3. packet.kind \in Kinds
    BY <2>1, <2>2 DEF Kinds
  <2>4. packet.value \in Found
    BY <2>1, <2>2 DEF Found
  <2> QED
    BY <1>3, <2>3, <2>4 DEF Decoding
<1> HIDE DEF entry
<1>8. /\ read' \in Seq(Decoding) /\ Len(read') = n /\ read'[n] = entry
      /\ \A k \in 1 .. Len(read) : read'[k] = read[k]
  BY <1>1, <1>6, <1>7, AppendProperties
<1>9. \A k : Framed(k)' = Framed(k) /\ Start(k)' = Start(k) /\ BodyStart(k)' = BodyStart(k)
  BY <1>1, WrittenSame
<1>10. Layout' /\ Headers' /\ WriterOK'
  <2>1. UNCHANGED <<stream, sent>>
    BY <1>1
  <2> QED
    BY <2>1, WrittenSame DEF WriterOK
<1>11. TypeOK'
  <2>1. consumed' \in 0 .. arrived
    BY <1>1, <1>3, <1>4
  <2> QED
    BY <1>1, <1>2, <2>1 DEF TypeOK
<1>12. ReaderOK'
  BY <1>8 DEF ReaderOK
<1>13. Early'
  BY <1>1 DEF Early
<1>14. Framed(n) => /\ consumed = BodyStart(n) /\ length = sent[n].size
                    /\ n \in 1 .. Len(sent) /\ LaidOut(n)
  BY <1>1, <1>6, FramedIs DEF Position, Layout
<1>15. Position'
  <2>1. ASSUME pc' = "length", Framed(n) PROVE consumed' = Start(n + 1)
    BY <1>1, <1>14, <2>1 DEF LaidOut
  <2> QED
    BY <1>2, <1>8, <1>9, <2>1 DEF Position
<1>16. Framed(n) => b = Body(n)
  <2> SUFFICES ASSUME Framed(n) PROVE b = Body(n)
    OBVIOUS
  <2>1. Body(n) = SubSeq(stream, consumed + 1, consumed + length)
    BY <1>14 DEF Body
  <2> DEFINE s == SubSeq(stream, consumed + 1, consumed + length)
  <2>2. stream \in Bytes /\ consumed + length \in Nat /\ consumed <= consumed + length
        /\ consumed + length <= Len(stream) /\ (consumed + length) - consumed = length
    BY <1>3, <1>4 DEF WriterOK
  <2>3. s \in Bytes /\ Len(s) = length /\ \A k \in 1 .. length : s[k] = stream[consumed + k]
    BY <1>3, <2>2, PieceIs
  <2>4. \A k \in 1 .. length : b[k] = stream[consumed + k]
    BY <1>3, <1>4, <1>5
  <2> HIDE DEF b, s
  <2>5. b = s
    BY <1>5, <2>3, <2>4, SeqEqual DEF Bytes
  <2> QED
    BY <2>1, <2>5 DEF s
<1>17. \A k : Body(k)' = Body(k)
  BY <1>1 DEF Body, BodyStart
<1> HIDE DEF b
<1>18. History'
  <2>1. ASSUME NEW k \in 1 .. n
        PROVE  (Framed(k - 1) => k <= Len(sent)) /\ (Framed(k) => WasRead(k)')
    <3>1. CASE k \in 1 .. Len(read)
      <4>1. (Framed(k - 1) => k <= Len(sent)) /\ (Framed(k) => WasRead(k))
        BY <3>1 DEF History
      <4>2. WasRead(k)' = WasRead(k)
        BY <1>8, <1>9, <1>17, <3>1 DEF WasRead
      <4> QED
        BY <4>1, <4>2
    <3>2. CASE k = n
      <4>1. Framed(k - 1) => k <= Len(sent)
        BY <1>1, <1>6, <3>2 DEF Position
      <4>2. ASSUME Framed(k) PROVE WasRead(k)'
        <5>1. /\ read'[k].type = type /\ read'[k].first = consumed
              /\ read'[k].kind = packet.kind /\ read'[k].value = packet.value
          <6> HIDE DEF packet
          <6> QED
            BY <1>8, <3>2 DEF entry
        <5>2. packet = PacketType[read'[k].type].read[Body(k)']
          <6>1. b = Body(k) /\ Body(k)' = Body(k)
            BY <1>16, <1>17, <3>2, <4>2
          <6> QED
            BY <5>1, <6>1
        <5>3. BodyStart(k)' = consumed
          BY <1>9, <1>14, <3>2, <4>2
        <5> HIDE DEF packet, n
        <5> QED
          BY <5>1, <5>2, <5>3 DEF WasRead
      <4> QED
        BY <3>2, <4>1, <4>2
    <3> QED
      BY <1>6, <3>1, <3>2
  <2>2. UNCHANGED sent
    BY <1>1
  <2> QED
    BY <1>8, <1>9, <2>1, <2>2 DEF History
<1>19. NoPanic'
  <2> SUFFICES ASSUME pc' = "panicked" PROVE read'[n].kind = "panic" /\ n \in 1 .. Len(read')
    BY DEF NoPanic
  <2>1. read'[n].kind = packet.kind
    <3> HIDE DEF packet
    <3> QED
      BY <1>8 DEF entry
  <2> HIDE DEF packet
  <2> QED
    BY <1>2, <1>6, <1>8, <2>1
<1>20. Refused'
  <2>1. \A k : Oversize(k)' = Oversize(k)
    BY <1>1, WrittenSame
  <2> SUFFICES ASSUME NEW k \in 1 .. Len(sent), Oversize(k), Framed(k - 1)
               PROVE  n < k
    BY <1>1, <1>2, <1>8, <1>9, <2>1 DEF Refused
  <2>2. Len(read) < k /\ n # k
    BY <1>1 DEF Refused
  <2> QED
    BY <1>6, <2>2
<1> QED
  BY <1>10, <1>11, <1>12, <1>13, <1>15, <1>18, <1>19, <1>20

LEMMA ConcatIs ==
  ASSUME NEW a \in Bytes, NEW b \in Bytes
  PROVE  /\ a \o b \in Bytes /\ Len(a \o b) = Len(a) + Len(b)
         /\ Len(a) \in Nat /\ Len(b) \in Nat
         /\ \A k \in 1 .. Len(a) : (a \o b)[k] = a[k]
         /\ \A k \in 1 .. Len(b) : (a \o b)[Len(a) + k] = b[k]
<1> DEFINE c == a \o b
<1>1. /\ c \in Bytes /\ Len(c) = Len(a) + Len(b) /\ Len(a) \in Nat /\ Len(b) \in Nat
      /\ \A k \in 1 .. Len(a) + Len(b) : c[k] = IF k <= Len(a) THEN a[k] ELSE b[k - Len(a)]
  BY ConcatProperties DEF Bytes
<1> HIDE DEF c
<1>2. \A k \in 1 .. Len(a) : c[k] = a[k]
  BY <1>1
<1>3. ASSUME NEW k \in 1 .. Len(b) PROVE c[Len(a) + k] = b[k]
  <2>1. Len(a) + k \in 1 .. Len(a) + Len(b) /\ ~ (Len(a) + k <= Len(a)) /\ (Len(a) + k) - Len(a) = k
    BY <1>1
  <2> QED
    BY <1>1, <2>1
<1> QED
  BY <1>1, <1>2, <1>3 DEF c

(* What comes after a piece does not change it.                            *)
LEMMA PieceOfConcat ==
  ASSUME NEW a \in Bytes, NEW b \in Bytes, NEW i \in Nat, NEW j \in Nat, i <= j, j <= Len(a)
  PROVE  SubSeq(a \o b, i + 1, j) = SubSeq(a, i + 1, j)
<1> DEFINE c == a \o b  s == SubSeq(c, i + 1, j)  t == SubSeq(a, i + 1, j)
<1>1. /\ c \in Bytes /\ Len(c) = Len(a) + Len(b) /\ Len(a) \in Nat /\ Len(b) \in Nat
      /\ \A k \in 1 .. Len(a) : c[k] = a[k]
  BY ConcatIs
<1> HIDE DEF c
<1>2. j <= Len(c)
  BY <1>1
<1>3. s \in Bytes /\ Len(s) = j - i /\ \A k \in 1 .. j - i : s[k] = c[i + k]
  BY <1>1, <1>2, PieceIs
<1>4. t \in Bytes /\ Len(t) = j - i /\ \A k \in 1 .. j - i : t[k] = a[i + k]
  BY PieceIs
<1>5. \A k \in 1 .. j - i : i + k \in 1 .. Len(a)
  BY <1>1
<1>6. \A k \in 1 .. j - i : s[k] = t[k]
  BY <1>1, <1>3, <1>4, <1>5
<1> HIDE DEF s, t
<1>7. s = t
  BY <1>3, <1>4, <1>6, SeqEqual DEF Bytes
<1> QED
  BY <1>7 DEF s, t, c

(* A frame is put after the others.                                        *)
LEMMA PutKeeps ==
  ASSUME NEW bytes \in Bytes, NEW by \in {"own", "foreign", "unframed"},
         NEW type \in Types \cup {"none"}, NEW value \in Carried, NEW size \in Nat,
         NEW body \in Bytes,
         by # "unframed" /\ size <= LengthLimit =>
           bytes = VarIntBytes(size) \o body /\ Len(body) = size,
         by = "own" => /\ type \in Types /\ value \in Values(PacketType[type])
                       /\ PacketType[type].write[value].ok
                       /\ PacketType[type].write[value].bytes = body
                       /\ bytes = VarIntBytes(AsI32(size)) \o body
  PROVE  IInv /\ Put(bytes, by, type, value, size) => IInv'
<1> SUFFICES ASSUME IInv, Put(bytes, by, type, value, size) PROVE IInv'
  OBVIOUS
<1> USE DEF IInv
<1> DEFINE frame == [by |-> by, type |-> type, value |-> value, first |-> Len(stream), size |-> size]
<1>1. /\ arrived = 0 /\ stream' = stream \o bytes /\ sent' = Append(sent, frame)
      /\ UNCHANGED <<side, arrived, pc, consumed, length, read>>
  BY DEF Put, MayWrite, readVars
<1>2. read = << >> /\ consumed = 0 /\ pc \in {"length", "failed"} /\ Len(read) = 0
  BY <1>1 DEF Early
<1>3. /\ stream \in Bytes /\ stream' \in Bytes /\ Len(stream') = Len(stream) + Len(bytes)
      /\ Len(stream) \in Nat /\ Len(bytes) \in Nat
      /\ \A k \in 1 .. Len(stream) : stream'[k] = stream[k]
      /\ \A k \in 1 .. Len(bytes) : stream'[Len(stream) + k] = bytes[k]
  BY <1>1, ConcatIs DEF WriterOK
<1>4. frame \in Frame
  BY <1>3 DEF Frame
<1>5. frame.first = Len(stream) /\ frame.size = size /\ frame.by = by /\ frame.type = type
      /\ frame.value = value
  OBVIOUS
<1> HIDE DEF frame
<1>6. /\ sent \in Seq(Frame) /\ sent' \in Seq(Frame) /\ Len(sent') = Len(sent) + 1
      /\ Len(sent) \in Nat /\ sent'[Len(sent) + 1] = frame
      /\ \A k \in 1 .. Len(sent) : sent'[k] = sent[k] /\ sent[k] \in Frame
  BY <1>1, <1>4, AppendProperties DEF WriterOK
<1>7. TypeOK'
  BY <1>1, <1>2, <1>3 DEF TypeOK
<1>8. WriterOK'
  <2>1. ASSUME NEW k \in 1 .. Len(sent') PROVE sent'[k].first <= Len(stream')
    <3>1. CASE k \in 1 .. Len(sent)
      <4>1. sent'[k].first = sent[k].first /\ sent[k].first <= Len(stream) /\ sent[k].first \in Nat
        BY <1>6, <3>1 DEF WriterOK, Frame
      <4> QED
        BY <1>3, <4>1
    <3>2. CASE k = Len(sent) + 1
      BY <1>3, <1>5, <1>6, <3>2
    <3> QED
      BY <1>6, <3>1, <3>2
  <2> QED
    BY <1>3, <1>6, <2>1 DEF WriterOK
<1>9. ReaderOK' /\ Early' /\ History' /\ NoPanic'
  BY <1>1, <1>2 DEF ReaderOK, Early, History, NoPanic
<1>10. ASSUME NEW k \in 1 .. Len(sent), Fits(k)'
       PROVE  LaidOut(k)'
  <2>1. sent'[k] = sent[k] /\ sent[k] \in Frame
    BY <1>6
  <2>2. Fits(k)
    BY <1>10, <2>1 DEF Fits
  <2>3. LaidOut(k)
    BY <2>2 DEF Layout
  <2>4. Start(k + 1)' = Start(k + 1) /\ Start(k + 1) <= Len(stream)
    <3>1. CASE k + 1 \in 1 .. Len(sent)
      <4>1. sent'[k + 1] = sent[k + 1] /\ sent[k + 1].first <= Len(stream)
        BY <1>6, <3>1 DEF WriterOK
      <4> QED
        BY <1>6, <3>1, <4>1 DEF Start
    <3>2. CASE k + 1 = Len(sent) + 1
      <4>1. Start(k + 1)' = Len(stream)
        BY <1>5, <1>6, <3>2 DEF Start
      <4>2. Start(k + 1) = Len(stream)
        BY <1>6, <3>2 DEF Start
      <4> QED
        BY <1>3, <4>1, <4>2
    <3> QED
      BY <1>6, <3>1, <3>2
  <2>5. BodyStart(k)' = BodyStart(k)
    BY <2>1 DEF BodyStart
  <2>6. sent[k].size \in Nat /\ sent[k].first \in Nat /\ Size(sent[k].size) \in 1 .. 5
    <3>1. sent[k].size \in Nat /\ sent[k].first \in Nat /\ sent[k].size <= LengthLimit
      BY <2>1, <2>2 DEF Frame, Fits
    <3>2. sent[k].size \in Int32
      BY <3>1, LimitIs, Zenon
    <3> QED
      BY <3>1, <3>2, VarIntBytesAre
  <2>7. /\ BodyStart(k) \in Nat /\ BodyStart(k) + sent[k].size \in Nat
        /\ BodyStart(k) <= BodyStart(k) + sent[k].size
        /\ BodyStart(k) + sent[k].size <= Len(stream)
    <3> DEFINE f == sent[k].first  s == Size(sent[k].size)  m == sent[k].size
    <3>1. f \in Nat /\ s \in 1 .. 5 /\ m \in Nat /\ BodyStart(k) = f + s
      BY <2>6 DEF BodyStart
    <3>2. BodyStart(k) + m <= Len(stream)
      BY <2>3, <2>4 DEF LaidOut
    <3> HIDE DEF f, s, m
    <3>3. BodyStart(k) \in Nat /\ BodyStart(k) + m \in Nat /\ BodyStart(k) <= BodyStart(k) + m
      BY <3>1
    <3> QED
      BY <3>2, <3>3 DEF m
  <2>8. Body(k)' = Body(k)
    <3> DEFINE i == BodyStart(k)  j == BodyStart(k) + sent[k].size
    <3>1. Body(k) = SubSeq(stream, i + 1, j)
      BY DEF Body
    <3>2. Body(k)' = SubSeq(stream \o bytes, i + 1, j)
      BY <1>1, <2>1, <2>5 DEF Body
    <3>3. i \in Nat /\ j \in Nat /\ i <= j /\ j <= Len(stream)
      BY <2>7
    <3> HIDE DEF i, j
    <3> QED
      BY <1>3, <3>1, <3>2, <3>3, PieceOfConcat
  <2>9. \A j \in 1 .. Size(sent[k].size) : stream'[sent[k].first + j] = stream[sent[k].first + j]
    <3>1. \A j \in 1 .. Size(sent[k].size) : sent[k].first + j \in 1 .. Len(stream)
      <4> DEFINE f == sent[k].first  s == Size(sent[k].size)  m == sent[k].size  l == Len(stream)
      <4>1. f \in Nat /\ s \in 1 .. 5 /\ m \in Nat /\ l \in Nat /\ (f + s) + m <= l
        BY <2>6, <2>7, <1>3 DEF BodyStart
      <4> HIDE DEF f, s, m, l
      <4>2. \A j \in 1 .. s : f + j \in 1 .. l
        BY <4>1
      <4> QED
        BY <4>2 DEF f, s, l
    <3> QED
      BY <1>3, <3>1
  <2>10. sent[k].by = "own" => OwnFrame(k)'
    BY <2>1, <2>3, <2>8 DEF LaidOut, OwnFrame
  <2> QED
    BY <2>1, <2>3, <2>4, <2>5, <2>9, <2>10 DEF LaidOut
<1>11. ASSUME NEW k, k = Len(sent) + 1, Fits(k)'
       PROVE  LaidOut(k)'
  <2>1. /\ sent'[k].by = by /\ sent'[k].type = type /\ sent'[k].value = value
        /\ sent'[k].first = Len(stream) /\ sent'[k].size = size
    BY <1>5, <1>6, <1>11
  <2>2. by # "unframed" /\ size <= LengthLimit
    BY <1>11, <2>1 DEF Fits
  <2>3. bytes = VarIntBytes(size) \o body /\ Len(body) = size
    BY <2>2
  <2>4. size \in Int32
    BY <2>2, LimitIs, Zenon
  <2> DEFINE h == VarIntBytes(size)  s == Size(size)
  <2>5. h \in Bytes /\ Len(h) = s /\ s \in 1 .. 5
    BY <2>4, VarIntBytesAre
  <2> HIDE DEF h, s
  <2>6. /\ Len(bytes) = s + size
        /\ \A j \in 1 .. s : bytes[j] = h[j]
        /\ \A j \in 1 .. size : bytes[s + j] = body[j]
    <3>1. /\ Len(h \o body) = Len(h) + Len(body)
          /\ \A j \in 1 .. Len(h) : (h \o body)[j] = h[j]
          /\ \A j \in 1 .. Len(body) : (h \o body)[Len(h) + j] = body[j]
      BY <2>5, ConcatIs
    <3>2. bytes = h \o body
      BY <2>3 DEF h
    <3> QED
      BY <2>3, <2>5, <3>1, <3>2
  <2>7. Start(k + 1)' = Len(stream')
    BY <1>6, <1>11 DEF Start
  <2>8. BodyStart(k)' = Len(stream) + s
    BY <2>1 DEF BodyStart, s
  <2>9. \A j \in 1 .. s : stream'[Len(stream) + j] = h[j]
    <3>1. \A j \in 1 .. s : j \in 1 .. Len(bytes)
      BY <2>5, <2>6
    <3> QED
      BY <1>3, <2>6, <3>1
  <2>10. Body(k)' = body
    <3> DEFINE i == Len(stream) + s  c == stream'  p == SubSeq(c, i + 1, i + size)
    <3>1. Body(k)' = p
      BY <2>1, <2>8 DEF Body
    <3>2. c \in Bytes /\ i \in Nat /\ i + size \in Nat /\ i <= i + size /\ i + size <= Len(c)
          /\ (i + size) - i = size
      BY <1>3, <2>5, <2>6
    <3> HIDE DEF i, c
    <3>3. p \in Bytes /\ Len(p) = size /\ \A j \in 1 .. size : p[j] = c[i + j]
      <4>1. ASSUME NEW m \in Nat, i <= m, m <= Len(c)
            PROVE  /\ SubSeq(c, i + 1, m) \in Bytes /\ Len(SubSeq(c, i + 1, m)) = m - i
                   /\ \A j \in 1 .. m - i : SubSeq(c, i + 1, m)[j] = c[i + j]
        BY <3>2, <4>1, PieceIs, Zenon
      <4>2. /\ p \in Bytes /\ Len(p) = (i + size) - i
            /\ \A j \in 1 .. (i + size) - i : p[j] = c[i + j]
        BY <3>2, <4>1, Zenon
      <4> QED
        BY <3>2, <4>2
    <3>4. ASSUME NEW j \in 1 .. size PROVE c[i + j] = body[j]
      <4>1. s + j \in 1 .. Len(bytes) /\ Len(stream) + (s + j) = i + j
        BY <1>3, <2>5, <2>6 DEF i
      <4>2. stream'[Len(stream) + (s + j)] = bytes[s + j]
        BY <1>3, <4>1
      <4> QED
        BY <2>6, <4>1, <4>2 DEF c
    <3>5. \A j \in 1 .. size : p[j] = body[j]
      BY <3>3, <3>4
    <3> HIDE DEF p
    <3>6. p = body
      BY <2>3, <3>3, <3>5, SeqEqual DEF Bytes
    <3> QED
      BY <3>1, <3>6
  <2>11. by = "own" => OwnFrame(k)'
    BY <2>1, <2>10 DEF OwnFrame
  <2>12. Start(k + 1)' = BodyStart(k)' + size
    BY <1>3, <2>5, <2>6, <2>7, <2>8
  <2> QED
    BY <2>1, <2>9, <2>11, <2>12 DEF LaidOut, h, s
<1>12. Start(1)' = 0
  <2>1. CASE Len(sent) = 0
    <3>1. Start(1)' = Len(stream)
      BY <1>5, <1>6, <2>1 DEF Start
    <3>2. Start(1) = Len(stream) /\ Start(1) = 0
      BY <2>1 DEF Start, Layout
    <3> QED
      BY <3>1, <3>2
  <2>2. CASE Len(sent) # 0
    <3>1. 1 \in 1 .. Len(sent) /\ 1 <= Len(sent')
      BY <1>6, <2>2
    <3>2. Start(1)' = Start(1)
      BY <1>6, <3>1 DEF Start
    <3> QED
      BY <3>2 DEF Layout
  <2> QED
    BY <2>1, <2>2
<1>13. Layout'
  <2>1. ASSUME NEW k \in 1 .. Len(sent'), Fits(k)' PROVE LaidOut(k)'
    <3>1. k \in 1 .. Len(sent) \/ k = Len(sent) + 1
      BY <1>6
    <3> QED
      BY <1>10, <1>11, <2>1, <3>1
  <2> QED
    BY <1>12, <2>1 DEF Layout
<1>14. Position'
  BY <1>1, <1>2, <1>12 DEF Position
<1>15. Headers'
  <2> SUFFICES ASSUME NEW k \in 1 .. Len(sent'), Oversize(k)' PROVE Announced(k)'
    BY DEF Headers
  <2> DEFINE n == AsI32(sent'[k].size)  f == sent'[k].first
             h == VarIntBytes(n)  m == Size(n)
  <2>1. n \in Int32 /\ f \in Nat
    <3>1. sent'[k] \in Frame
      BY <1>6
    <3> QED
      BY <3>1, AsI32Is DEF Frame
  <2>2. h \in Bytes /\ Len(h) = m /\ m \in 1 .. 5
    BY <2>1, VarIntBytesAre
  <2> HIDE DEF n, f, h, m
  <2>3. /\ f + m <= Len(stream')
        /\ \A j \in 1 .. m : stream'[f + j] = h[j]
    <3>1. CASE k \in 1 .. Len(sent)
      <4>1. sent'[k] = sent[k]
        BY <1>6, <3>1
      <4>2. Announced(k)
        BY <3>1, <4>1 DEF Headers, Oversize
      <4>3. /\ f + m <= Len(stream)
            /\ \A j \in 1 .. m : stream[f + j] = h[j]
        BY <4>1, <4>2 DEF Announced, n, f, h, m
      <4>4. \A j \in 1 .. m : f + j \in 1 .. Len(stream)
        BY <1>3, <2>1, <2>2, <4>3
      <4> QED
        <5>1. f + m <= Len(stream')
          BY <1>3, <2>1, <2>2, <4>3
        <5>2. \A j \in 1 .. m : stream'[f + j] = stream[f + j]
          BY <1>3, <4>4
        <5> QED
          BY <4>3, <5>1, <5>2
    <3>2. CASE k = Len(sent) + 1
      <4>1. sent'[k].by = by /\ f = Len(stream) /\ n = AsI32(size)
        BY <1>5, <1>6, <3>2 DEF n, f
      <4>2. by = "own"
        BY <4>1 DEF Oversize
      <4>3. bytes = h \o body
        BY <4>1, <4>2 DEF h
      <4>4. /\ Len(bytes) = m + Len(body) /\ Len(body) \in Nat
            /\ \A j \in 1 .. m : bytes[j] = h[j]
        <5>1. /\ Len(h \o body) = Len(h) + Len(body) /\ Len(body) \in Nat
              /\ \A j \in 1 .. Len(h) : (h \o body)[j] = h[j]
          BY <2>2, ConcatIs
        <5> QED
          BY <2>2, <4>3, <5>1
      <4>5. \A j \in 1 .. m : j \in 1 .. Len(bytes)
        BY <2>2, <4>4
      <4> QED
        BY <1>3, <2>2, <4>1, <4>4, <4>5
    <3> QED
      BY <1>6, <3>1, <3>2
  <2> QED
    BY <2>3 DEF Announced, n, f, h, m
<1>16. Refused'
  BY <1>1, <1>2, <1>6 DEF Refused
<1> QED
  BY <1>7, <1>8, <1>9, <1>13, <1>14, <1>15, <1>16

LEMMA WritePacketKeeps ==
  ASSUME NEW p \in OwnPackets
  PROVE  IInv /\ WritePacket(p) => IInv'
<1> SUFFICES ASSUME IInv, WritePacket(p) PROVE IInv'
  OBVIOUS
<1> DEFINE type == p.type  value == p.value  plain == PacketType[type].write[value]
           wrapped == Wrapper[type].write[Wrapped(type, value)]
<1>1. type \in Types /\ value \in Values(PacketType[type])
  BY PacketStreamAssumption, TypesAre
<1>2. PICK packet \in {plain, wrapped} :
        /\ packet.ok
        /\ Put(VarIntBytes(AsI32(packet.written)) \o packet.bytes, "own", type, value, packet.written)
  BY DEF WritePacket
<1>3. plain.ok \in BOOLEAN /\ plain.bytes \in Bytes /\ plain.written = Len(plain.bytes)
  BY <1>1, PacketPromises DEF Typed
<1>4. wrapped.ok = plain.ok /\ (plain.ok => wrapped.bytes = plain.bytes /\ wrapped.written = plain.written)
  BY <1>1, WrapperWrites
<1> DEFINE body == plain.bytes  size == plain.written
<1>5. plain.ok /\ packet.bytes = body /\ packet.written = size
  <2> HIDE DEF plain, wrapped
  <2> QED
    BY <1>2, <1>3, <1>4
<1>6. body \in Bytes /\ size \in Nat /\ Len(body) = size
  BY <1>3, BytesConcat
<1> DEFINE bytes == VarIntBytes(AsI32(size)) \o body
<1>7. AsI32(size) \in Int32 /\ (size <= LengthLimit => AsI32(size) = size)
  BY <1>6, AsI32Is
<1>8. bytes \in Bytes
  <2>1. VarIntBytes(AsI32(size)) \in Bytes
    BY <1>7, VarIntBytesAre
  <2> HIDE DEF body, size
  <2> QED
    BY <1>6, <2>1, BytesConcat
<1>9. size <= LengthLimit => bytes = VarIntBytes(size) \o body
  BY <1>7
<1>10. value \in Carried
  BY <1>1 DEF Carried
<1>11. Put(bytes, "own", type, value, size)
  BY <1>2, <1>5
<1>12. /\ PacketType[type].write[value].ok /\ PacketType[type].write[value].bytes = body
       /\ bytes = VarIntBytes(AsI32(size)) \o body
  BY <1>5
<1> HIDE DEF type, value, size, body, bytes
<1>13. ASSUME NEW by, by = "own"
       PROVE  /\ by \in {"own", "foreign", "unframed"} /\ type \in Types \cup {"none"}
              /\ Put(bytes, by, type, value, size)
  BY <1>1, <1>11, <1>13
<1> QED
  <2>1. PICK by : by = "own"
    OBVIOUS
  <2> QED
    BY <1>1, <1>6, <1>8, <1>9, <1>10, <1>12, <1>13, <2>1, PutKeeps, Zenon

LEMMA WriteForeignKeeps ==
  IInv /\ WriteForeign => IInv'
<1> SUFFICES ASSUME IInv, WriteForeign PROVE IInv'
  OBVIOUS
<1>1. CASE \E f \in ForeignBodies :
             Put(VarIntBytes(Len(f.body)) \o f.body, "foreign", f.type, f.body, Len(f.body))
  <2>1. PICK f \in ForeignBodies :
          Put(VarIntBytes(Len(f.body)) \o f.body, "foreign", f.type, f.body, Len(f.body))
    BY <1>1
  <2> DEFINE body == f.body  size == Len(body)  bytes == VarIntBytes(size) \o body
  <2>2. f.type \in Types /\ body \in Bytes /\ size <= LengthLimit
    BY PacketStreamAssumption, TypesAre
  <2>3. size \in Nat
    BY <2>2, BytesConcat
  <2>4. VarIntBytes(size) \in Bytes
    BY <2>2, <2>3, LimitIs, VarIntBytesAre
  <2>5. bytes \in Bytes
    <3> HIDE DEF size
    <3> QED
      BY <2>2, <2>4, BytesConcat
  <2>6. body \in Carried /\ f.type \in Types \cup {"none"}
    BY <2>2 DEF Carried
  <2>7. PICK by : by = "foreign"
    OBVIOUS
  <2>8. Put(bytes, by, f.type, body, size) /\ by \in {"own", "foreign", "unframed"} /\ by # "own"
        /\ bytes = VarIntBytes(size) \o body /\ Len(body) = size
    BY <2>1, <2>7
  <2> HIDE DEF size, body, bytes
  <2> QED
    BY <2>2, <2>3, <2>5, <2>6, <2>8, PutKeeps, Zenon
<1>2. CASE \E bytes \in ForeignPrefixes : Put(bytes, "unframed", "none", << >>, 0)
  <2>1. PICK bytes \in ForeignPrefixes : Put(bytes, "unframed", "none", << >>, 0)
    BY <1>2
  <2>2. bytes \in Bytes /\ << >> \in Bytes
    BY PacketStreamAssumption, BytesConcat
  <2>3. PICK by, type, size, body :
          by = "unframed" /\ type = "none" /\ size = 0 /\ body = << >>
    OBVIOUS
  <2>4. /\ Put(bytes, by, type, body, size) /\ by \in {"own", "foreign", "unframed"}
        /\ by # "own" /\ ~ (by # "unframed") /\ type \in Types \cup {"none"} /\ size \in Nat
        /\ body \in Bytes /\ body \in Carried
    BY <2>1, <2>2, <2>3 DEF Carried
  <2> QED
    BY <2>2, <2>4, PutKeeps, Zenon
<1> QED
  BY <1>1, <1>2 DEF WriteForeign

LEMMA NextInv ==
  IInv /\ [Next]_vars => IInv'
<1> SUFFICES ASSUME IInv, [Next]_vars PROVE IInv'
  OBVIOUS
<1>1. ASSUME NEW p \in OwnPackets, WritePacket(p) PROVE IInv'
  BY <1>1, WritePacketKeeps
<1>2. CASE WriteForeign
  BY <1>2, WriteForeignKeeps
<1>3. CASE Deliver \/ Close \/ StreamFails
  BY <1>3, NetworkKeeps
<1>4. CASE ReadLength
  BY <1>4, ReadLengthKeeps
<1>5. ASSUME NEW type \in DOMAIN PacketType, ReadBody(type) PROVE IInv'
  <2>1. type \in Types
    BY TypesAre
  <2> QED
    BY <1>5, <2>1, ReadBodyKeeps
<1>6. CASE UNCHANGED vars
  <2>1. /\ UNCHANGED <<stream, sent>> /\ UNCHANGED read
        /\ UNCHANGED <<side, arrived, closed, pc, consumed, length>>
    BY <1>6 DEF vars, netVars, readVars
  <2>2. \A k : Framed(k)' = Framed(k) /\ Start(k)' = Start(k) /\ BodyStart(k)' = BodyStart(k)
    BY <2>1, WrittenSame
  <2>3. Layout' /\ Headers' /\ History' /\ \A k : Oversize(k)' = Oversize(k)
    BY <2>1, WrittenSame DEF IInv
  <2>4. TypeOK' /\ WriterOK' /\ ReaderOK' /\ Early'
    BY <2>1 DEF IInv, TypeOK, WriterOK, ReaderOK, Early
  <2>5. Position' /\ NoPanic' /\ Refused'
    BY <2>1, <2>2, <2>3 DEF IInv, Position, NoPanic, Refused
  <2> QED
    BY <2>3, <2>4, <2>5 DEF IInv
<1> QED
  BY <1>1, <1>2, <1>3, <1>4, <1>5, <1>6 DEF Next

(* A packet that was read from a frame was read from the frame's body.     *)
LEMMA ReadFromFrame ==
  ASSUME IInv, NEW k \in DOMAIN read, Framed(k)
  PROVE  /\ k \in 1 .. Len(read) /\ k \in 1 .. Len(sent) /\ sent[k] \in Frame
         /\ sent[k].size \in Nat /\ sent[k].size <= LengthLimit
         /\ read[k].type \in Types
         /\ Body(k) \in Bytes /\ Len(Body(k)) = sent[k].size
         /\ LaidOut(k) /\ WasRead(k)
<1> USE DEF IInv
<1>1. k \in 1 .. Len(read) /\ Len(read) \in Nat /\ read[k] \in Decoding
  BY DEF ReaderOK
<1>2. k \in 1 .. Len(sent) /\ Len(sent) \in Nat /\ sent[k] \in Frame
  BY <1>1 DEF Framed, WriterOK
<1>3. Fits(k) /\ sent[k].size \in Nat /\ sent[k].first \in Nat
  BY <1>2 DEF Framed, Fits, Frame
<1>4. LaidOut(k) /\ WasRead(k)
  BY <1>1, <1>2, <1>3 DEF Layout, History
<1>5. stream \in Bytes /\ Len(stream) \in Nat
  BY BytesConcat DEF WriterOK
<1>6. Start(k + 1) <= Len(stream)
  BY <1>2, <1>5 DEF Start, WriterOK
<1>7. Size(sent[k].size) \in Nat
  <2>1. sent[k].size \in Int32
    BY <1>3, LimitIs DEF Fits
  <2>2. Size(sent[k].size) \in 1 .. 5
    BY <2>1, VarIntBytesAre, Zenon
  <2> QED
    BY <2>2
<1> DEFINE i == BodyStart(k)  size == sent[k].size
<1>8. i \in Nat /\ i + size = Start(k + 1)
  BY <1>3, <1>4, <1>7 DEF BodyStart, LaidOut
<1>9. i + size \in Nat /\ i <= i + size /\ i + size <= Len(stream) /\ (i + size) - i = size
  <2> HIDE DEF i
  <2> QED
    BY <1>3, <1>6, <1>8
<1>10. Body(k) \in Bytes /\ Len(Body(k)) = size
  <2>1. Body(k) = SubSeq(stream, i + 1, i + size)
    BY DEF Body
  <2> HIDE DEF i, size
  <2>2. SubSeq(stream, i + 1, i + size) \in Bytes
        /\ Len(SubSeq(stream, i + 1, i + size)) = (i + size) - i
    BY <1>5, <1>8, <1>9, PieceIs
  <2> QED
    BY <1>9, <2>1, <2>2
<1> QED
  BY <1>1, <1>2, <1>3, <1>4, <1>10 DEF Decoding, Fits

(* In every behaviour of writer, network and reader the invariant holds.   *)
THEOREM Invariant ==
  Spec => []IInv
<1>1. Init => IInv
  BY InitInv
<1>2. IInv /\ [Next]_vars => IInv'
  BY NextInv
<1> QED
  BY <1>1, <1>2, PTL DEF Spec

(* The variables keep their types: the reader takes no byte before it has  *)
(* arrived, and never waits for a frame of a negative length.              *)
THEOREM TypeCorrect ==
  Spec => []TypeOK
<1>1. IInv => TypeOK
  BY DEF IInv
<1> QED
  BY <1>1, Invariant, PTL

LEMMA Aligned ==
  IInv => FramesAligned
<1> SUFFICES ASSUME IInv, NEW k \in DOMAIN read
             PROVE  /\ Framed(k - 1) => k <= Len(sent)
                    /\ Framed(k) => read[k].first = sent[k].first + Len(VarIntBytes(sent[k].size))
  BY DEF FramesAligned
<1>1. k \in 1 .. Len(read)
  BY DEF IInv, ReaderOK
<1>2. Framed(k - 1) => k <= Len(sent)
  BY <1>1 DEF IInv, History
<1>3. ASSUME Framed(k) PROVE read[k].first = sent[k].first + Len(VarIntBytes(sent[k].size))
  <2>1. read[k].first = BodyStart(k) /\ sent[k].size \in Nat /\ sent[k].size <= LengthLimit
    BY <1>3, ReadFromFrame DEF WasRead
  <2>2. sent[k].size \in Int32
    BY <2>1, LimitIs
  <2>3. Len(VarIntBytes(sent[k].size)) = Size(sent[k].size)
    BY <2>2, VarIntBytesAre, Zenon
  <2> QED
    BY <2>1, <2>3 DEF BodyStart
<1> QED
  BY <1>2, <1>3

(* The reader never reads from the middle of a frame, whoever wrote the    *)
(* frames and whatever it read them as.                                    *)
THEOREM AlwaysAligned ==
  Spec => []FramesAligned
BY Aligned, Invariant, PTL

LEMMA OwnAreRead ==
  IInv => OwnPacketsRead
<1> SUFFICES ASSUME IInv PROVE OwnPacketsRead
  OBVIOUS
<1>1. ASSUME NEW k \in DOMAIN read, Framed(k), sent[k].by = "own", read[k].type = sent[k].type
      PROVE  IF Readable(sent[k])
             THEN read[k].kind = "ok" /\ read[k].value = sent[k].value
             ELSE read[k].kind = "json"
  <2> DEFINE t == sent[k].type  v == sent[k].value  packet == PacketType[t].write[v]
  <2>1. LaidOut(k) /\ WasRead(k)
    BY <1>1, ReadFromFrame
  <2>2. t \in Types /\ v \in Values(PacketType[t]) /\ packet.ok /\ packet.bytes = Body(k)
    BY <1>1, <2>1 DEF LaidOut, OwnFrame
  <2>3. /\ read[k].kind = PacketType[t].read[packet.bytes].kind
        /\ read[k].value = PacketType[t].read[packet.bytes].value
    BY <1>1, <2>1, <2>2 DEF WasRead
  <2>4. Readable(sent[k]) <=> (IsJson(t, v[1]) => Len(v[2]) \in Whitespace)
    BY DEF Readable, CarriesJson, IsJson
  <2> HIDE DEF packet
  <2>5. CASE ~ IsJson(t, v[1])
    <3>1. PacketType[t].read[packet.bytes] = Ok(v, << >>)
      BY <2>2, <2>5, PacketPromises DEF packet
    <3> QED
      BY <2>3, <2>4, <2>5, <3>1 DEF Ok
  <2>6. CASE IsJson(t, v[1])
    <3>1. PacketType[t].read[packet.bytes] =
            IF Len(v[2]) \in Whitespace THEN Ok(v, << >>) ELSE Fails("json")
      BY <2>2, <2>6, JsonPackets DEF packet
    <3> QED
      BY <2>3, <2>4, <2>6, <3>1 DEF Ok, Fails
  <2> QED
    BY <2>5, <2>6
<1>2. pc = "panicked" /\ Framed(Len(read) + 1) => \E k \in DOMAIN read : read[k].kind = "panic"
  <2>1. DOMAIN read = 1 .. Len(read)
    BY DEF IInv, ReaderOK
  <2> QED
    BY <2>1 DEF IInv, NoPanic
<1> QED
  BY <1>1, <1>2 DEF OwnPacketsRead

(* A packet of this crate that is read as what it was written as is read   *)
(* as it was, but for a JSON value whose length is no whitespace, and the  *)
(* length of a frame never makes the reader panic.                         *)
THEOREM AlwaysRead ==
  Spec => []OwnPacketsRead
BY OwnAreRead, Invariant, PTL

(* A packet that is longer than its length can say is never decoded, not   *)
(* even a piece of it (serverbase.rs:314-315).                             *)
THEOREM OversizeCorrect ==
  Spec => []OversizeNotDecoded
<1>1. IInv => OversizeNotDecoded
  <2>1. IInv => DOMAIN sent = 1 .. Len(sent)
    BY DEF IInv, WriterOK
  <2> QED
    BY <2>1 DEF IInv, Refused, OversizeNotDecoded
<1> QED
  BY <1>1, Invariant, PTL

LEMMA Reencodes ==
  IInv => AcceptedReencodes
<1> SUFFICES ASSUME IInv, NEW k \in DOMAIN read, Framed(k), read[k].kind = "ok",
                    ~ CarriesJson(read[k].type, read[k].value)
             PROVE  LET type == PacketType[read[k].type]
                        packet == type.write[read[k].value]
                    IN  /\ packet.ok /\ packet.written <= sent[k].size
                        /\ type.read[packet.bytes] = Ok(read[k].value, << >>)
  BY DEF AcceptedReencodes
<1> DEFINE t == read[k].type  v == read[k].value  b == Body(k)  c == PacketType[t]
<1>1. t \in Types /\ b \in Bytes /\ Len(b) = sent[k].size /\ Len(b) <= LengthLimit /\ WasRead(k)
  BY ReadFromFrame
<1>2. c.read[b].kind = "ok" /\ c.read[b].value = v
  BY <1>1 DEF WasRead
<1>3. ~ IsJson(t, v[1])
  BY DEF IsJson, CarriesJson
<1> HIDE DEF b, v, t
<1>4. v \in Values(c) /\ c.read[b].rest \in Bytes
  BY <1>1, <1>2, PacketPromises DEF Typed
<1>5. c.write[v].ok /\ c.write[v].written + Len(c.read[b].rest) <= Len(b)
  BY <1>1, <1>2, <1>3, PacketPromises
<1>6. c.read[c.write[v].bytes] = Ok(v, << >>)
  BY <1>1, <1>3, <1>4, <1>5, PacketPromises
<1>7. c.write[v].bytes \in Bytes /\ c.write[v].written = Len(c.write[v].bytes)
  BY <1>1, <1>4, PacketPromises DEF Typed
<1> HIDE DEF c
<1>8. c.write[v].written <= Len(b)
  <2>1. c.write[v].written \in Nat /\ Len(c.read[b].rest) \in Nat /\ Len(b) \in Nat
    BY <1>1, <1>4, <1>7, BytesConcat
  <2> QED
    BY <1>5, <2>1
<1> QED
  BY <1>1, <1>5, <1>6, <1>8 DEF c, t, v

(* What the reader accepts of a frame, from whomever, the crate can write, *)
(* in no more bytes, and reads again as the same packet.                   *)
THEOREM AlwaysReencodes ==
  Spec => []AcceptedReencodes
BY Reencodes, Invariant, PTL

=============================================================================
