-------------------------- MODULE LegacyPingProofs --------------------------
(***************************************************************************)
(* Legacy pings for any requests and texts, and any way in which the       *)
(* network cuts a request. The inductive invariant says how many bytes are *)
(* taken at each read of read_1_6 and what they were: nothing of it        *)
(* depends on how many bytes had arrived.                                  *)
(***************************************************************************)
EXTENDS LegacyPing, SequenceTheorems, TLAPS

Reads == {"prefix", "len", "protocol", "again", "hostname", "port"}
After == {"events", "write", "answered"}

(* The shared buffer is empty where a response is appended to it, and      *)
(* nothing happens after a response.                                       *)
WriteInv ==
  /\ pc = "write" => response \in [text : Texts, extra : Texts]
  /\ output # << >> => pc = "answered"
  /\ pc = "fill" => bufLen = 0
  /\ pingType = "pre14" /\ output = << >> => bufLen = 0

(* What the handlers are given of a request: a String for its hostname.    *)
Heard(r) ==
  [protocol |-> Announced(r).protocol,
   hostname |-> Lossy(Announced(r).hostname),
   port     |-> Announced(r).port]

(* Where each read of read_1_6 stands on the stream, and what it has got.  *)
ReadInv ==
  /\ pc \in {"fill", "not a ping", "failed"} \cup Reads \cup After
  /\ pc = "fill" => pingType = "none"
  /\ pc \in Reads => pingType = "pre17"
  /\ pingType = "pre17" => Starts16(request) /\ pc # "not a ping"
  /\ pc \in {"fill", "not a ping", "prefix"} => consumed = 0
  /\ pc = "len" => consumed = 27
  /\ pc = "protocol" => consumed = 29
  /\ pc = "again" => consumed = 30
  /\ pc = "hostname" => consumed = 32
  /\ pc \in {"protocol", "again", "hostname", "port"} => hostLen = HostLen(request)
  /\ pc \in {"again", "hostname", "port"} => payload.protocol = request.bytes[30]
  /\ pc = "port" => /\ consumed = 32 + hostLen /\ hostLen % 2 = 0
                    /\ payload.hostname
                         = Lossy(Units(SubSeq(request.bytes, 33, 32 + hostLen)))
  /\ pingType = "pre17" /\ pc \in After =>
       /\ consumed = 36 + HostLen(request) /\ HostLen(request) % 2 = 0
       /\ payload = Heard(request)

-----------------------------------------------------------------------------
(* Bytes are bytes, and pairs of them are 16-bit units.                    *)
LEMMA RequestType ==
  ASSUME request \in Requests
  PROVE  request.bytes \in Seq(Byte) /\ request.payload \in Payload
<1>1. request \in [kind : Kinds, bytes : Seq(Byte), payload : Payload]
  BY LegacyPingAssumption, Zenon
<1>2. QED
  BY <1>1

LEMMA TakenType ==
  ASSUME TypeOK, NEW n \in Nat, arrived - consumed >= n
  PROVE  /\ Taken(n) \in Seq(Byte) /\ Len(Taken(n)) = n
         /\ \A k \in 1 .. n : Taken(n)[k] = request.bytes[consumed + k]
<1>1. request.bytes \in Seq(Byte)
  BY RequestType DEF TypeOK
<1>2. Len(request.bytes) \in Nat
  BY <1>1, LenProperties
<1>3. arrived \in 0 .. Len(request.bytes) /\ consumed \in 0 .. arrived
  BY DEF TypeOK
<1>4. consumed \in Nat /\ arrived \in Nat /\ consumed + n <= Len(request.bytes)
  BY <1>2, <1>3
<1>5. QED
  BY <1>1, <1>2, <1>4 DEF Taken

(* Numbers of sixteen bits.                                                *)
LEMMA UnitIs == \A x : x \in Unit <=> x \in Int /\ 0 <= x /\ x <= MaxU16
<1>1. MaxU16 \in Nat
  BY SMT DEF MaxU16
<1>2. QED
  BY <1>1, SMT DEF Unit

LEMMA ModUnit == \A x \in Int : x % 65536 \in Unit
<1> SUFFICES ASSUME NEW x \in Int PROVE x % 65536 \in Unit
  OBVIOUS
<1>1. x % 65536 \in Int /\ 0 <= x % 65536 /\ x % 65536 <= MaxU16
  BY SMT DEF MaxU16
<1>2. QED
  BY <1>1, UnitIs, SMT

LEMMA U16Type ==
  ASSUME NEW s \in Seq(Byte), Len(s) >= 2
  PROVE  U16(s) \in Unit
<1>1. s[1] \in Byte /\ s[2] \in Byte
  <2>1. 1 \in 1 .. Len(s) /\ 2 \in 1 .. Len(s)
    BY LenProperties
  <2>2. QED
    BY <2>1, ElementOfSeq
<1>2. ASSUME NEW a \in Byte, NEW b \in Byte PROVE 256 * a + b \in Unit
  <2>1. 256 * a + b \in Int /\ 0 <= 256 * a + b /\ 256 * a + b <= MaxU16
    BY SMT DEF Byte, MaxU16
  <2>2. QED
    BY <2>1, UnitIs, SMT
<1>3. QED
  BY <1>1, <1>2 DEF U16

LEMMA UnitsType ==
  ASSUME NEW s \in Seq(Byte)
  PROVE  Units(s) \in Seq(Unit)
<1> DEFINE n == Len(s) \div 2
<1>1. Len(s) \in Nat /\ n \in Nat /\ 2 * n <= Len(s)
  BY LenProperties, SMT
<1>2. ASSUME NEW k \in 1 .. n
      PROVE  U16(SubSeq(s, 2 * k - 1, 2 * k)) \in Unit
  <2>1. /\ k \in Int /\ 1 <= k /\ 2 * k <= Len(s)
    BY <1>1, SMT
  <2>2. SubSeq(s, 2 * k - 1, 2 * k) \in Seq(Byte)
        /\ Len(SubSeq(s, 2 * k - 1, 2 * k)) >= 2
    BY <1>1, <2>1, SMT
  <2>3. QED
    BY <2>2, U16Type
<1>3. Units(s) \in [1 .. n -> Unit]
  BY <1>2 DEF Units
<1>4. \E m \in Nat : Units(s) \in [1 .. m -> Unit]
  BY <1>1, <1>3
<1>5. Seq(Unit) = UNION {[1 .. m -> Unit] : m \in Nat}
  BY SeqDef, Zenon
<1>6. QED
  BY <1>4, <1>5, Zenon

LEMMA LossyType ==
  ASSUME NEW s \in Seq(Unit)
  PROVE  Lossy(s) \in Seq(Unit)
<1> DEFINE n == Len(s)
<1>1. n \in Nat /\ DOMAIN s = 1 .. n
  BY LenProperties
<1>2. Replacement \in Unit
  <2>1. Replacement \in Int /\ 0 <= Replacement /\ Replacement <= MaxU16
    BY SMT DEF Replacement, MaxU16
  <2>2. QED
    BY <2>1, UnitIs
<1>3. \A k \in 1 .. n : s[k] \in Unit
  BY <1>1, ElementOfSeq
<1>4. Lossy(s) \in [1 .. n -> Unit]
  BY <1>1, <1>2, <1>3 DEF Lossy
<1>5. \E m \in Nat : Lossy(s) \in [1 .. m -> Unit]
  BY <1>1, <1>4
<1>6. Seq(Unit) = UNION {[1 .. m -> Unit] : m \in Nat}
  BY SeqDef, Zenon
<1>7. QED
  BY <1>5, <1>6, Zenon

-----------------------------------------------------------------------------
(* The types.                                                              *)
LEMMA TypeInit == Init => TypeOK
<1> SUFFICES ASSUME Init PROVE TypeOK
  OBVIOUS
<1>1. request.bytes \in Seq(Byte)
  BY RequestType DEF Init
<1>2. Len(request.bytes) \in Nat
  BY <1>1, LenProperties
<1>3. 0 \in Unit /\ 0 \in Byte /\ << >> \in Seq(Unit)
  <2>1. 0 \in Unit
    BY UnitIs, SMT DEF MaxU16
  <2>2. QED
    BY <2>1 DEF Byte
<1>4. NoPayload \in Payload
  BY <1>3 DEF NoPayload, Payload
<1>5. arrived \in 0 .. Len(request.bytes) /\ consumed \in 0 .. arrived
  BY <1>2 DEF Init
<1>6. QED
  BY <1>3, <1>4, <1>5 DEF Init, TypeOK

(* What a read leaves alone.                                               *)
LEMMA TakeType ==
  ASSUME TypeOK, NEW n \in Nat, NEW from, NEW to, Take(from, n, to)
  PROVE  /\ request' \in Requests /\ pingType' \in Kinds \cup {"none"}
         /\ arrived' \in 0 .. Len(request'.bytes) /\ consumed' \in 0 .. arrived'
<1>1. arrived \in Nat /\ consumed \in Nat /\ consumed <= arrived
  <2>1. Len(request.bytes) \in Nat
    BY RequestType, LenProperties DEF TypeOK
  <2>2. arrived \in 0 .. Len(request.bytes) /\ consumed \in 0 .. arrived
    BY DEF TypeOK
  <2>3. QED
    BY <2>1, <2>2
<1>2. consumed' \in 0 .. arrived
  BY <1>1 DEF Take
<1>3. UNCHANGED <<request, arrived, pingType>>
  BY DEF Take, clientVars
<1>4. QED
  BY <1>2, <1>3 DEF TypeOK

LEMMA NeedsAre ==
  /\ DOMAIN Needs = Reads
  /\ Needs["prefix"] = 27 /\ Needs["len"] = 2 /\ Needs["protocol"] = 1
  /\ Needs["again"] = 2 /\ Needs["hostname"] = hostLen /\ Needs["port"] = 4
BY SMT DEF Needs, Reads

LEMMA UnitNat == Unit \subseteq Nat
BY UnitIs, SMT

LEMMA TypeRead ==
  ASSUME TypeOK, Read1_6
  PROVE  TypeOK'
<1>1. hostLen \in Unit /\ hostLen \in Nat /\ bufLen \in Nat /\ payload \in Payload
  BY UnitNat DEF TypeOK
<1>2. CASE ReadPrefix
  <2>1. /\ request' \in Requests /\ pingType' \in Kinds \cup {"none"}
        /\ arrived' \in 0 .. Len(request'.bytes) /\ consumed' \in 0 .. arrived'
    BY <1>2, NeedsAre, TakeType DEF ReadPrefix
  <2>2. bufLen' = 27 /\ UNCHANGED <<hostLen, payload>>
    BY <1>2 DEF ReadPrefix
  <2>3. QED
    BY <1>1, <2>1, <2>2 DEF TypeOK
<1>3. CASE ReadLen
  <2>1. /\ request' \in Requests /\ pingType' \in Kinds \cup {"none"}
        /\ arrived' \in 0 .. Len(request'.bytes) /\ consumed' \in 0 .. arrived'
    BY <1>3, NeedsAre, TakeType DEF ReadLen
  <2>2. hostLen' = (U16(Taken(2)) - 7) % 65536 /\ UNCHANGED <<bufLen, payload>>
        /\ arrived - consumed >= 2
    BY <1>3, NeedsAre DEF ReadLen, Take
  <2>3. U16(Taken(2)) \in Unit
    BY <2>2, TakenType, U16Type
  <2>4. U16(Taken(2)) - 7 \in Int
    BY <2>3, UnitIs, SMT
  <2>5. hostLen' \in Unit
    BY <2>2, <2>4, ModUnit
  <2>6. QED
    BY <1>1, <2>1, <2>2, <2>5 DEF TypeOK
<1>4. CASE ReadLenPanics
  <2>1. UNCHANGED <<request, arrived, pingType, bufLen, hostLen, payload>>
        /\ arrived - consumed >= 2 /\ consumed' = consumed + 2
    BY <1>4 DEF ReadLenPanics, clientVars
  <2>2. Len(request.bytes) \in Nat
    BY RequestType, LenProperties DEF TypeOK
  <2>3. arrived \in 0 .. Len(request.bytes) /\ consumed \in 0 .. arrived
    BY DEF TypeOK
  <2>4. consumed' \in 0 .. arrived
    BY <2>1, <2>2, <2>3, SMT
  <2>5. QED
    BY <2>1, <2>4 DEF TypeOK
<1>5. CASE ReadProtocol
  <2>1. /\ request' \in Requests /\ pingType' \in Kinds \cup {"none"}
        /\ arrived' \in 0 .. Len(request'.bytes) /\ consumed' \in 0 .. arrived'
    BY <1>5, NeedsAre, TakeType DEF ReadProtocol
  <2>2. payload' = [payload EXCEPT !.protocol = Taken(1)[1]]
        /\ UNCHANGED <<bufLen, hostLen>> /\ arrived - consumed >= 1
    BY <1>5, NeedsAre DEF ReadProtocol, Take
  <2>3. Taken(1)[1] \in Byte
    <3>1. Taken(1) \in Seq(Byte) /\ Len(Taken(1)) = 1
      BY <2>2, TakenType
    <3>2. 1 \in 1 .. Len(Taken(1))
      BY <3>1
    <3>3. QED
      BY <3>1, <3>2, ElementOfSeq
  <2>4. payload' \in Payload
    BY <1>1, <2>2, <2>3 DEF Payload
  <2>5. QED
    BY <1>1, <2>1, <2>2, <2>4 DEF TypeOK
<1>6. CASE ReadAgain
  <2>1. /\ request' \in Requests /\ pingType' \in Kinds \cup {"none"}
        /\ arrived' \in 0 .. Len(request'.bytes) /\ consumed' \in 0 .. arrived'
    BY <1>6, NeedsAre, TakeType DEF ReadAgain
  <2>2. bufLen' = hostLen /\ UNCHANGED <<hostLen, payload>>
    BY <1>6 DEF ReadAgain
  <2>3. QED
    BY <1>1, <2>1, <2>2 DEF TypeOK
<1>7. CASE ReadHostname
  <2>1. /\ request' \in Requests /\ pingType' \in Kinds \cup {"none"}
        /\ arrived' \in 0 .. Len(request'.bytes) /\ consumed' \in 0 .. arrived'
    BY <1>1, <1>7, TakeType DEF ReadHostname
  <2>2. /\ payload' = IF hostLen % 2 = 0
                      THEN [payload EXCEPT !.hostname = Lossy(Units(Taken(hostLen)))]
                      ELSE payload
        /\ UNCHANGED <<bufLen, hostLen>> /\ arrived - consumed >= hostLen
    BY <1>7 DEF ReadHostname, Take
  <2>3. Lossy(Units(Taken(hostLen))) \in Seq(Unit)
    BY <1>1, <2>2, TakenType, UnitsType, LossyType
  <2>4. payload' \in Payload
    BY <1>1, <2>2, <2>3 DEF Payload
  <2>5. QED
    BY <1>1, <2>1, <2>2, <2>4 DEF TypeOK
<1>8. CASE ReadPort
  <2>1. /\ request' \in Requests /\ pingType' \in Kinds \cup {"none"}
        /\ arrived' \in 0 .. Len(request'.bytes) /\ consumed' \in 0 .. arrived'
    BY <1>8, NeedsAre, TakeType DEF ReadPort
  <2>2. payload' = [payload EXCEPT !.port = U16(SubSeq(Taken(4), 3, 4))]
        /\ UNCHANGED <<bufLen, hostLen>> /\ arrived - consumed >= 4
    BY <1>8, NeedsAre DEF ReadPort, Take
  <2>3. U16(SubSeq(Taken(4), 3, 4)) \in Unit
    <3>1. Taken(4) \in Seq(Byte) /\ Len(Taken(4)) = 4
      BY <2>2, TakenType
    <3>2. SubSeq(Taken(4), 3, 4) \in Seq(Byte) /\ Len(SubSeq(Taken(4), 3, 4)) >= 2
      BY <3>1
    <3>3. QED
      BY <3>2, U16Type
  <2>4. payload' \in Payload
    BY <1>1, <2>2, <2>3 DEF Payload
  <2>5. QED
    BY <1>1, <2>1, <2>2, <2>4 DEF TypeOK
<1>9. QED
  BY <1>2, <1>3, <1>4, <1>5, <1>6, <1>7, <1>8 DEF Read1_6

LEMMA TextsAre == Texts \subseteq [bmp : Nat, astral : Nat]
BY LegacyPingAssumption, Zenon

(* No response has more units than twice its characters.                   *)
LEMMA CharsAre ==
  ASSUME NEW t \in Texts
  PROVE  /\ t.bmp \in Nat /\ t.astral \in Nat
         /\ Chars(t) \in Nat /\ Utf16(t) \in Nat /\ Utf16(t) <= 2 * Chars(t)
         /\ t.astral = 0 => Utf16(t) = Chars(t)
<1>1. t.bmp \in Nat /\ t.astral \in Nat
  BY TextsAre
<1>2. QED
  BY <1>1 DEF Chars, Utf16

LEMMA TypeWrite ==
  ASSUME TypeOK, WriteInv, WritePre1_4 \/ WritePre1_7
  PROVE  TypeOK'
<1>1. response.text \in Texts /\ response.extra \in Texts
  BY DEF WriteInv, WritePre1_4, WritePre1_7
<1>2. Utf16(response.text) \in Nat /\ Utf16(response.extra) \in Nat
  BY <1>1, CharsAre
<1>3. bufLen' \in Nat
  <2>1. CASE WritePre1_4
    <3>1. bufLen' = bufLen + 3 + 2 * (Utf16(response.text) + 2) /\ bufLen \in Nat
      BY <2>1 DEF WritePre1_4, TypeOK
    <3>2. QED
      BY <1>2, <3>1
  <2>2. CASE WritePre1_7
    <3>1. bufLen' = 3 + 2 * UnitsOf1_7(response)
      BY <2>2 DEF WritePre1_7
    <3>2. UnitsOf1_7(response) \in Nat
      BY <1>2 DEF UnitsOf1_7
    <3>3. QED
      BY <3>1, <3>2
  <2>3. QED
    BY <2>1, <2>2
<1>4. UNCHANGED <<request, arrived, consumed, pingType, hostLen, payload>>
  BY DEF WritePre1_4, WritePre1_7, clientVars
<1>5. QED
  BY <1>3, <1>4 DEF TypeOK

LEMMA TypeNext == TypeOK /\ WriteInv /\ [Next]_vars => TypeOK'
<1> SUFFICES ASSUME TypeOK, WriteInv, [Next]_vars PROVE TypeOK'
  OBVIOUS
<1>1. CASE Deliver
  <2>1. Len(request.bytes) \in Nat
    BY RequestType, LenProperties DEF TypeOK
  <2>2. arrived \in 0 .. Len(request.bytes) /\ consumed \in 0 .. arrived
    BY DEF TypeOK
  <2>3. arrived' \in arrived + 1 .. Len(request.bytes)
        /\ UNCHANGED <<request, consumed, pingType, bufLen, hostLen, payload>>
    BY <1>1 DEF Deliver, pingVars
  <2>4. arrived' \in 0 .. Len(request.bytes) /\ consumed \in 0 .. arrived'
    BY <2>1, <2>2, <2>3, SMT
  <2>5. QED
    BY <2>3, <2>4 DEF TypeOK
<1>2. CASE Classify
  <2>1. UNCHANGED <<request, arrived, consumed, bufLen, hostLen, payload>>
        /\ pingType' \in Kinds
    BY <1>2 DEF Classify, Classified, Kinds, clientVars
  <2>2. QED
    BY <2>1 DEF TypeOK
<1>3. CASE Read1_6
  BY <1>3, TypeRead
<1>4. CASE WritePre1_4 \/ WritePre1_7
  BY <1>4, TypeWrite
<1>5. CASE Close \/ StreamFails \/ Events \/ WriteTooLong \/ UNCHANGED vars
  <2>1. UNCHANGED <<request, arrived, consumed, pingType, bufLen, hostLen, payload>>
    BY <1>5 DEF Close, StreamFails, Events, WriteTooLong, vars, clientVars, pingVars
  <2>2. QED
    BY <2>1 DEF TypeOK
<1>6. QED
  BY <1>1, <1>2, <1>3, <1>4, <1>5 DEF Next, Handle

-----------------------------------------------------------------------------
(* The responses.                                                          *)

(* A read of a 1.6 ping is no business of the responses.                   *)
LEMMA ReadLeaves ==
  ASSUME ReadInv, Read1_6
  PROVE  /\ pc \in Reads /\ pc' \in Reads \cup {"events", "failed"}
         /\ pingType = "pre17"
         /\ UNCHANGED <<crate, request, arrived, closed, pingType, response, output>>
<1>1. pc \in Reads /\ pc' \in Reads \cup {"events", "failed"}
      /\ UNCHANGED <<clientVars, pingType, response, output>>
  <2>1. CASE ReadPrefix \/ ReadLen \/ ReadLenPanics
    BY <2>1 DEF ReadPrefix, ReadLen, ReadLenPanics, Take, Reads
  <2>2. CASE ReadProtocol \/ ReadAgain
    BY <2>2 DEF ReadProtocol, ReadAgain, Take, Reads
  <2>3. CASE ReadHostname
    BY <2>3 DEF ReadHostname, Take, Reads
  <2>4. CASE ReadPort
    BY <2>4 DEF ReadPort, Take, Reads
  <2>5. QED
    BY <2>1, <2>2, <2>3, <2>4 DEF Read1_6
<1>2. QED
  BY <1>1 DEF ReadInv, clientVars

LEMMA WriteInvNext ==
  ASSUME TypeOK, ReadInv, WriteInv, [Next]_vars
  PROVE  WriteInv'
<1>1. CASE Deliver \/ Close \/ UNCHANGED vars
  <2>1. UNCHANGED pingVars
    BY <1>1 DEF Deliver, Close, vars
  <2>2. QED
    BY <2>1 DEF pingVars, WriteInv
<1>2. CASE Classify
  BY <1>2 DEF Classify, WriteInv
<1>3. CASE Read1_6
  BY <1>3, ReadLeaves DEF WriteInv, Reads
<1>4. CASE StreamFails
  <2>1. pc # "answered" /\ pc' = "failed" /\ UNCHANGED <<pingType, bufLen, output>>
    BY <1>4, NeedsAre DEF StreamFails, Reads
  <2>2. QED
    BY <2>1 DEF WriteInv
<1>5. CASE Events
  <2>1. pc = "events" /\ UNCHANGED <<pingType, bufLen, output>>
    BY <1>5 DEF Events
  <2>2. pc' = "write" => response' \in [text : Texts, extra : Texts]
    BY <1>5 DEF Events
  <2>3. pc' \in {"answered", "write"}
    BY <1>5 DEF Events
  <2>4. QED
    BY <2>1, <2>2, <2>3 DEF WriteInv
<1>6. CASE WriteTooLong
  BY <1>6 DEF WriteTooLong, WriteInv
<1>7. CASE WritePre1_4 \/ WritePre1_7
  <2>1. pc' = "answered" /\ output' # << >>
    <3>1. \A a, b, c : [stale |-> a, field |-> b, units |-> c] # << >>
      OBVIOUS
    <3>2. QED
      BY <1>7, <3>1 DEF WritePre1_4, WritePre1_7
  <2>2. QED
    BY <2>1 DEF WriteInv
<1>8. QED
  BY <1>1, <1>2, <1>3, <1>4, <1>5, <1>6, <1>7 DEF Next, Handle

(* The limit on the characters bounds the units below 2^16.                *)
LEMMA LimitIs == MaxLength \in Nat /\ 2 * MaxLength < 65536
<1>1. MaxLength \in Nat /\ 2 * MaxLength <= MaxU16
  BY LegacyPingAssumption, Zenon
<1>2. QED
  BY <1>1, SMT DEF MaxU16

LEMMA SmallMod == \A x \in Nat : x < 65536 => x % 65536 = x
BY SMT

LEMMA FramedWrite ==
  ASSUME TypeOK, WriteInv, WritePre1_4 \/ WritePre1_7
  PROVE  ResponseFramed'
<1> DEFINE t == response.text
           x == response.extra
<1>1. t \in Texts /\ x \in Texts /\ UNCHANGED <<crate, pingType, response>>
  BY DEF WriteInv, WritePre1_4, WritePre1_7, clientVars
<1>2. /\ Chars(t) \in Nat /\ Utf16(t) \in Nat /\ Utf16(t) <= 2 * Chars(t)
      /\ t.astral = 0 => Utf16(t) = Chars(t)
      /\ Chars(x) \in Nat /\ Utf16(x) \in Nat /\ Utf16(x) <= 2 * Chars(x)
      /\ x.astral = 0 => Utf16(x) = Chars(x)
      /\ t.astral \in Nat /\ x.astral \in Nat
  <2> HIDE DEF t, x
  <2>1. QED
    BY <1>1, CharsAre
<1>3. crate = "bws" => Chars(t) + Chars(x) + 7 <= MaxLength
  <2>1. crate = "bws" => ~(Chars(t) + Chars(x) + 4 + 3 > MaxLength)
    BY DEF WritePre1_4, WritePre1_7, Refused, TooLong
  <2>2. QED
    BY <1>2, <2>1, LimitIs, SMT
<1>4. CASE WritePre1_4
  <2> DEFINE u == Utf16(t) + 2
             f == Chars(t) + 2
  <2>1. output' = [stale |-> bufLen, field |-> f % 65536, units |-> u]
        /\ pingType = "pre14"
    BY <1>4 DEF WritePre1_4
  <2>2. bufLen = 0
    <3>1. output = << >>
      BY <1>4 DEF WritePre1_4, WriteInv
    <3>2. QED
      BY <2>1, <3>1 DEF WriteInv
  <2>3. u \in Nat /\ f \in Nat /\ (t.astral = 0 => f = u)
    BY <1>2, SMT
  <2>4. crate = "bws" => f <= MaxLength /\ f % 65536 = f
    <3> SUFFICES ASSUME crate = "bws" PROVE f <= MaxLength /\ f % 65536 = f
      OBVIOUS
    <3>1. f <= MaxLength /\ f < 65536
      BY <1>2, <1>3, LimitIs, SMT
    <3>2. QED
      BY <2>3, <3>1, SmallMod
  <2>5. crate = "bws" /\ t.astral = 0 => f % 65536 = u
    BY <2>3, <2>4
  <2>6. t.astral + x.astral = 0 => t.astral = 0
    BY <1>2, SMT
  <2> HIDE DEF u, f
  <2>7. output'.stale = 0 /\ output'.field = f % 65536 /\ output'.units = u
    BY <2>1, <2>2
  <2>8. t.astral = 0 => f % 65536 = IF crate = "bws" THEN u ELSE u % 65536
    BY <2>3, <2>5
  <2>9. crate = "bws" /\ t.astral + x.astral = 0 => f % 65536 <= MaxLength
    BY <2>4
  <2>10. QED
    BY <1>1, <2>1, <2>7, <2>8, <2>9 DEF ResponseFramed
<1>5. CASE WritePre1_7
  <2> DEFINE u == UnitsOf1_7(response)
  <2>1. output' = [stale |-> 0, field |-> u % 65536, units |-> u]
    BY <1>5 DEF WritePre1_7
  <2>2. u = 3 + Utf16(t) + Utf16(x) + 4
    BY DEF UnitsOf1_7
  <2> HIDE DEF u
  <2>3. u \in Nat
    BY <1>2, <2>2, SMT
  <2>4. crate = "bws" => u % 65536 = u
    <3> SUFFICES ASSUME crate = "bws" PROVE u % 65536 = u
      OBVIOUS
    <3>1. u < 65536
      BY <1>2, <1>3, <2>2, LimitIs, SMT
    <3>2. QED
      BY <2>3, <3>1, SmallMod
  <2>5. crate = "bws" /\ t.astral + x.astral = 0 => u <= MaxLength
    <3> SUFFICES ASSUME crate = "bws", t.astral + x.astral = 0 PROVE u <= MaxLength
      OBVIOUS
    <3>1. t.astral = 0 /\ x.astral = 0
      BY <1>2, SMT
    <3>2. u = Chars(t) + Chars(x) + 7
      BY <1>2, <2>2, <3>1, SMT
    <3>3. QED
      BY <1>3, <3>2
  <2>6. output'.stale = 0 /\ output'.field = u % 65536 /\ output'.units = u
    BY <2>1
  <2>7. u % 65536 = IF crate = "bws" THEN u ELSE u % 65536
    BY <2>4
  <2>8. crate = "bws" /\ t.astral + x.astral = 0 => u % 65536 <= MaxLength
    BY <2>4, <2>5
  <2>9. QED
    BY <1>1, <2>6, <2>7, <2>8 DEF ResponseFramed
<1>6. QED
  BY <1>4, <1>5

LEMMA FramedNext ==
  ASSUME TypeOK, ReadInv, WriteInv, ResponseFramed, [Next]_vars
  PROVE  ResponseFramed'
<1>1. CASE WritePre1_4 \/ WritePre1_7
  BY <1>1, FramedWrite
<1>2. CASE output # << >> /\ ~(WritePre1_4 \/ WritePre1_7)
  <2>1. pc = "answered"
    BY <1>2 DEF WriteInv
  <2>2. UNCHANGED <<crate, pingType, response, output>>
    <3>1. CASE Deliver \/ Close \/ UNCHANGED vars
      BY <3>1 DEF Deliver, Close, vars, clientVars, pingVars
    <3>2. CASE StreamFails
      BY <2>1, <3>2, NeedsAre DEF StreamFails, Reads
    <3>3. CASE Classify \/ Events \/ WriteTooLong
      BY <2>1, <3>3 DEF Classify, Events, WriteTooLong
    <3>4. CASE Read1_6
      BY <2>1, <3>4, ReadLeaves DEF Reads
    <3>5. QED
      BY <1>2, <3>1, <3>2, <3>3, <3>4 DEF Next, Handle
  <2>3. QED
    BY <2>2 DEF ResponseFramed
<1>3. CASE output = << >> /\ ~(WritePre1_4 \/ WritePre1_7)
  <2>1. output' = output
    <3>1. CASE Deliver \/ Close \/ UNCHANGED vars
      BY <3>1 DEF Deliver, Close, vars, pingVars
    <3>2. CASE StreamFails \/ Classify \/ Events \/ WriteTooLong
      BY <3>2 DEF StreamFails, Classify, Events, WriteTooLong
    <3>3. CASE Read1_6
      BY <3>3, ReadLeaves
    <3>4. QED
      BY <1>3, <3>1, <3>2, <3>3 DEF Next, Handle
  <2>2. QED
    BY <1>3, <2>1 DEF ResponseFramed
<1>4. QED
  BY <1>1, <1>2, <1>3

-----------------------------------------------------------------------------
(* What is read.                                                           *)

(* The first read shows a beginning of the request.                        *)
LEMMA PrefixOfPrefix ==
  ASSUME NEW b \in Seq(Byte), NEW a \in 0 .. Len(b),
         IsPrefix(<<254, 1, 250>>, SubSeq(b, 1, a))
  PROVE  IsPrefix(<<254, 1, 250>>, b)
<1> DEFINE s == <<254, 1, 250>>
           t == SubSeq(b, 1, a)
<1>1. Len(b) \in Nat /\ a \in Nat /\ a <= Len(b)
  BY LenProperties
<1>2. t \in Seq(Byte) /\ Len(t) = a
  BY <1>1
<1>3. Len(s) = 3 /\ 3 <= a /\ SubSeq(t, 1, 3) = SubSeq(s, 1, 3)
  BY <1>2 DEF IsPrefix
<1>4. SubSeq(t, 1, 3) = SubSeq(b, 1, 3)
  <2>3. \A i \in 1 .. 3 : b[i] \in Byte /\ t[i] = b[i]
    <3>1. \A i \in 1 .. a : b[i] \in Byte
      BY <1>1, ElementOfSeq
    <3>2. \A i \in 1 .. a : t[i] = b[i]
      BY <1>1, <3>1
    <3>3. QED
      BY <1>1, <1>3, <3>1, <3>2
  <2> HIDE DEF t
  <2>4. QED
    BY <1>1, <1>2, <1>3, <2>3
<1>5. QED
  BY <1>1, <1>3, <1>4 DEF IsPrefix

LEMMA ReadInvClassify ==
  ASSUME TypeOK, ReadInv, Classify
  PROVE  ReadInv'
<1>1. request.bytes \in Seq(Byte) /\ arrived \in 0 .. Len(request.bytes)
  BY RequestType DEF TypeOK
<1>2. UNCHANGED <<request, consumed, hostLen, payload>> /\ consumed = 0
      /\ pc' = CASE pingType' = "modern" -> "not a ping"
                 [] pingType' = "pre17"  -> "prefix"
                 [] OTHER                -> "events"
  BY DEF Classify, clientVars, ReadInv
<1>3. pingType' = "pre17" => Starts16(request)
  <2> SUFFICES ASSUME pingType' = "pre17" PROVE Starts16(request)
    OBVIOUS
  <2>1. ASSUME NEW bytes, Classified(bytes) = "pre17"
        PROVE  IsPrefix(<<254, 1, 250>>, bytes)
    <3> DEFINE starts == IsPrefix(<<254, 1, 250>>, bytes)
               one == bytes = <<254>>
               two == bytes = <<254, 1>>
    <3>1. (CASE one -> "pre14" [] two -> "pre16" [] starts -> "pre17"
             [] OTHER -> "modern") = "pre17"
      BY <2>1 DEF Classified
    <3> HIDE DEF starts, one, two
    <3>2. starts
      BY <3>1
    <3>3. QED
      BY <3>2 DEF starts
  <2>2. IsPrefix(<<254, 1, 250>>, SubSeq(request.bytes, 1, arrived))
    BY <2>1 DEF Classify
  <2>3. QED
    BY <1>1, <2>2, PrefixOfPrefix DEF Starts16
<1>4. Starts16(request)' <=> Starts16(request)
  BY <1>2 DEF Starts16
<1>5. CASE pingType' = "pre17"
  <2>1. pc' = "prefix"
    BY <1>2, <1>5
  <2>2. QED
    BY <1>2, <1>3, <1>4, <1>5, <2>1 DEF ReadInv, Reads, After
<1>6. CASE pingType' # "pre17"
  <2> DEFINE modern == pingType' = "modern"
             ping == pingType' = "pre17"
  <2>1. pc' = CASE modern -> "not a ping" [] ping -> "prefix" [] OTHER -> "events"
    BY <1>2
  <2>2. ~ping
    BY <1>6
  <2> HIDE DEF modern, ping
  <2>3. pc' \in {"not a ping", "events"}
    BY <2>1, <2>2
  <2>4. QED
    BY <1>2, <1>6, <2>3 DEF ReadInv, Reads, After
<1>7. QED
  BY <1>5, <1>6

(* What a read makes of its bytes does not depend on when they came.       *)
LEMMA ReadInvLen ==
  ASSUME TypeOK, ReadInv, ReadLen
  PROVE  ReadInv'
<1>1. /\ pc = "len" /\ pc' = "protocol" /\ arrived - consumed >= 2
      /\ consumed' = consumed + 2 /\ consumed = 27 /\ pingType = "pre17"
      /\ UNCHANGED <<request, pingType>>
  BY NeedsAre DEF ReadLen, Take, ReadInv, clientVars, Reads
<1>2. hostLen' = (U16(Taken(2)) - 7) % 65536
  BY DEF ReadLen
<1>3. Taken(2) = SubSeq(request.bytes, 28, 29)
  BY <1>1 DEF Taken
<1>4. hostLen' = HostLen(request)
  <2> DEFINE taken == U16(Taken(2))
             announced == U16(SubSeq(request.bytes, 28, 29))
  <2>1. hostLen' = (taken - 7) % 65536 /\ HostLen(request) = (announced - 7) % 65536
    BY <1>2 DEF HostLen
  <2>2. taken = announced
    BY <1>3
  <2> HIDE DEF taken, announced
  <2>3. QED
    BY <2>1, <2>2
<1>5. QED
  BY <1>1, <1>4 DEF ReadInv, Reads, After

LEMMA ReadInvProtocol ==
  ASSUME TypeOK, ReadInv, ReadProtocol
  PROVE  ReadInv'
<1>1. /\ pc = "protocol" /\ pc' = "again" /\ arrived - consumed >= 1
      /\ consumed' = consumed + 1 /\ consumed = 29 /\ pingType = "pre17"
      /\ hostLen = HostLen(request)
      /\ UNCHANGED <<request, pingType, hostLen>>
  BY NeedsAre DEF ReadProtocol, Take, ReadInv, clientVars, Reads
<1>2. payload' = [payload EXCEPT !.protocol = Taken(1)[1]] /\ payload \in Payload
  BY DEF ReadProtocol, TypeOK
<1>3. Taken(1)[1] = request.bytes[30]
  <2>1. \A k \in 1 .. 1 : Taken(1)[k] = request.bytes[consumed + k]
    BY <1>1, TakenType
  <2>2. QED
    BY <1>1, <2>1
<1>4. payload'.protocol = request.bytes[30]
  BY <1>2, <1>3 DEF Payload
<1>5. QED
  BY <1>1, <1>4 DEF ReadInv, Reads, After

LEMMA ReadInvHostname ==
  ASSUME TypeOK, ReadInv, ReadHostname
  PROVE  ReadInv'
<1>1. /\ pc = "hostname" /\ arrived - consumed >= hostLen
      /\ consumed' = consumed + hostLen /\ consumed = 32 /\ pingType = "pre17"
      /\ hostLen = HostLen(request) /\ payload.protocol = request.bytes[30]
      /\ UNCHANGED <<request, pingType, hostLen>>
  BY DEF ReadHostname, Take, ReadInv, clientVars, Reads
<1>2. payload \in Payload
  BY DEF TypeOK
<1>3. CASE hostLen % 2 = 0
  <2>1. pc' = "port"
        /\ payload' = [payload EXCEPT !.hostname = Lossy(Units(Taken(hostLen)))]
    BY <1>3 DEF ReadHostname, Take
  <2>2. Taken(hostLen) = SubSeq(request.bytes, 33, 32 + hostLen)
    BY <1>1 DEF Taken
  <2>3. payload'.hostname = Lossy(Units(SubSeq(request.bytes, 33, 32 + hostLen)))
        /\ payload'.protocol = payload.protocol
    BY <1>2, <2>1, <2>2 DEF Payload
  <2>4. QED
    BY <1>1, <1>3, <2>1, <2>3 DEF ReadInv, Reads, After
<1>4. CASE hostLen % 2 # 0
  <2>1. pc' = "failed"
    BY <1>4 DEF ReadHostname, Take
  <2>2. QED
    BY <1>1, <2>1 DEF ReadInv, Reads, After
<1>5. QED
  BY <1>3, <1>4

LEMMA ReadInvPort ==
  ASSUME TypeOK, ReadInv, ReadPort
  PROVE  ReadInv'
<1> DEFINE b == request.bytes
<1>1. /\ pc = "port" /\ pc' = "events" /\ arrived - consumed >= 4
      /\ consumed' = consumed + 4 /\ consumed = 32 + hostLen /\ hostLen % 2 = 0
      /\ hostLen = HostLen(request) /\ pingType = "pre17" /\ Starts16(request)
      /\ UNCHANGED <<request, pingType, hostLen>>
  BY NeedsAre DEF ReadPort, Take, ReadInv, clientVars, Reads
<1>2. hostLen \in Nat /\ payload \in Payload
  BY UnitNat DEF TypeOK
<1>3. U16(SubSeq(Taken(4), 3, 4)) = 256 * b[35 + hostLen] + b[36 + hostLen]
  <2>1. Taken(4) \in Seq(Byte) /\ Len(Taken(4)) = 4
        /\ \A k \in 1 .. 4 : Taken(4)[k] = b[consumed + k]
    BY <1>1, TakenType
  <2>2. SubSeq(Taken(4), 3, 4)[1] = Taken(4)[3] /\ SubSeq(Taken(4), 3, 4)[2] = Taken(4)[4]
    BY <2>1
  <2>3. Taken(4)[3] = b[35 + hostLen] /\ Taken(4)[4] = b[36 + hostLen]
    <3>1. consumed + 3 = 35 + hostLen /\ consumed + 4 = 36 + hostLen
      BY <1>1, <1>2, SMT
    <3>2. QED
      BY <2>1, <3>1
  <2>4. QED
    BY <2>2, <2>3 DEF U16
<1>4. payload' = [payload EXCEPT !.port = 256 * b[35 + hostLen] + b[36 + hostLen]]
  BY <1>3 DEF ReadPort
<1>5. payload' = Heard(request)
  <2>1. payload.protocol = b[30]
        /\ payload.hostname = Lossy(Units(SubSeq(b, 33, 32 + hostLen)))
    BY <1>1 DEF ReadInv
  <2>2. payload = [protocol |-> payload.protocol, hostname |-> payload.hostname,
                   port |-> payload.port]
    BY <1>2 DEF Payload
  <2>3. payload' = [protocol |-> payload.protocol, hostname |-> payload.hostname,
                    port |-> 256 * b[35 + hostLen] + b[36 + hostLen]]
    BY <1>4, <2>2
  <2>4. QED
    BY <1>1, <2>1, <2>3 DEF Announced, Heard
<1>6. consumed' = 36 + HostLen(request)
  BY <1>1, <1>2, SMT
<1>7. QED
  BY <1>1, <1>5, <1>6 DEF ReadInv, Reads, After

LEMMA ReadInvNext ==
  ASSUME TypeOK, ReadInv, [Next]_vars
  PROVE  ReadInv'
<1>1. CASE Deliver \/ Close \/ UNCHANGED vars
  <2>1. UNCHANGED <<request, pc, consumed, pingType, hostLen, payload>>
    BY <1>1 DEF Deliver, Close, vars, clientVars, pingVars
  <2>2. CASE pc \in Reads
    BY <2>1, <2>2 DEF ReadInv, Reads, After
  <2>3. CASE pc \in After
    BY <2>1, <2>3 DEF ReadInv, Reads, After
  <2>4. CASE pc \in {"fill", "not a ping", "failed"}
    BY <2>1, <2>4 DEF ReadInv, Reads, After
  <2>5. QED
    BY <2>2, <2>3, <2>4 DEF ReadInv
<1>2. CASE Classify
  BY <1>2, ReadInvClassify
<1>3. CASE ReadPrefix
  <2>1. /\ pc = "prefix" /\ pc' = "len" /\ consumed' = consumed + 27 /\ consumed = 0
        /\ pingType = "pre17" /\ UNCHANGED <<request, pingType>>
    BY <1>3, NeedsAre DEF ReadPrefix, Take, ReadInv, clientVars, Reads
  <2>2. QED
    BY <2>1 DEF ReadInv, Reads, After
<1>4. CASE ReadLen
  BY <1>4, ReadInvLen
<1>5. CASE ReadProtocol
  BY <1>5, ReadInvProtocol
<1>6. CASE ReadAgain
  <2>1. /\ pc = "again" /\ pc' = "hostname" /\ consumed' = consumed + 2 /\ consumed = 30
        /\ pingType = "pre17" /\ UNCHANGED <<request, pingType, hostLen, payload>>
    BY <1>6, NeedsAre DEF ReadAgain, Take, ReadInv, clientVars, Reads
  <2>2. QED
    BY <2>1 DEF ReadInv, Reads, After
<1>7. CASE ReadHostname
  BY <1>7, ReadInvHostname
<1>8. CASE ReadPort
  BY <1>8, ReadInvPort
<1>9. CASE ReadLenPanics \/ StreamFails \/ WriteTooLong
  <2>1. pc' = "failed" /\ UNCHANGED <<request, pingType>>
    BY <1>9 DEF ReadLenPanics, StreamFails, WriteTooLong, clientVars
  <2>2. QED
    BY <2>1 DEF ReadInv, Reads, After
<1>10. CASE Events \/ WritePre1_4 \/ WritePre1_7
  <2>1. /\ pc \in After /\ pc' \in {"write", "answered"}
        /\ UNCHANGED <<request, consumed, pingType, hostLen, payload>>
    BY <1>10 DEF Events, WritePre1_4, WritePre1_7, clientVars, After
  <2>2. QED
    BY <2>1 DEF ReadInv, Reads, After
<1>11. QED
  BY <1>1, <1>2, <1>3, <1>4, <1>5, <1>6, <1>7, <1>8, <1>9, <1>10
  DEF Next, Handle, Read1_6

-----------------------------------------------------------------------------
(* What makes the task fail.                                               *)
LEMMA PanicNext ==
  ASSUME TypeOK, ReadInv, WriteInv, OnlyMalformedPanics, [Next]_vars
  PROVE  OnlyMalformedPanics'
<1>1. CASE ReadLenPanics
  <2>1. pc = "len" /\ arrived - consumed >= 2 /\ U16(Taken(2)) < 7
        /\ UNCHANGED <<request, pingType>>
    BY <1>1 DEF ReadLenPanics, clientVars
  <2>2. consumed = 27 /\ Starts16(request)
    BY <2>1 DEF ReadInv, Reads
  <2>3. Len(request.bytes) >= 29
    <3>1. Len(request.bytes) \in Nat
      BY RequestType, LenProperties DEF TypeOK
    <3>2. arrived \in 0 .. Len(request.bytes)
      BY DEF TypeOK
    <3>3. QED
      BY <2>1, <2>2, <3>1, <3>2, SMT
  <2>4. Taken(2) = SubSeq(request.bytes, 28, 29)
    BY <2>2 DEF Taken
  <2>5. Starts16(request)' <=> Starts16(request)
    BY <2>1 DEF Starts16
  <2>6. QED
    BY <2>1, <2>2, <2>3, <2>4, <2>5 DEF OnlyMalformedPanics
<1>2. CASE ReadHostname
  <2>1. /\ pc = "hostname" /\ arrived - consumed >= hostLen
        /\ pc' = IF hostLen % 2 = 0 THEN "port" ELSE "failed"
        /\ UNCHANGED <<request, pingType>>
    BY <1>2 DEF ReadHostname, Take, clientVars
  <2>2. consumed = 32 /\ Starts16(request) /\ hostLen = HostLen(request)
    BY <2>1 DEF ReadInv, Reads
  <2>3. Len(request.bytes) >= 29
    <3>1. Len(request.bytes) \in Nat
      BY RequestType, LenProperties DEF TypeOK
    <3>2. arrived \in 0 .. Len(request.bytes) /\ consumed \in 0 .. arrived
      BY DEF TypeOK
    <3>3. QED
      BY <2>2, <3>1, <3>2, SMT
  <2>4. (Starts16(request)' <=> Starts16(request)) /\ HostLen(request)' = HostLen(request)
    BY <2>1 DEF Starts16, HostLen
  <2>5. pc' = "failed" => HostLen(request) % 2 # 0
    BY <2>1, <2>2
  <2>6. QED
    BY <2>1, <2>2, <2>3, <2>4, <2>5 DEF OnlyMalformedPanics
<1>3. CASE WriteTooLong
  <2>1. pc = "write" /\ Refused /\ UNCHANGED <<crate, response>>
    BY <1>3 DEF WriteTooLong, clientVars
  <2>2. response \in [text : Texts, extra : Texts]
    BY <2>1 DEF WriteInv
  <2>3. DOMAIN response = {"text", "extra"}
    BY <2>2
  <2>4. response # << >>
    BY <2>3
  <2>5. Refused'
    BY <2>1 DEF Refused, TooLong
  <2>6. QED
    BY <2>1, <2>4, <2>5 DEF OnlyMalformedPanics
<1>4. CASE StreamFails \/ Close
  <2>1. closed'
    BY <1>4 DEF StreamFails, Close, clientVars
  <2>2. QED
    BY <2>1 DEF OnlyMalformedPanics
<1>5. CASE Deliver \/ UNCHANGED vars
  <2>1. UNCHANGED <<pc, closed, crate, request, response>>
    BY <1>5 DEF Deliver, vars, clientVars, pingVars
  <2>2. QED
    BY <2>1 DEF OnlyMalformedPanics, Refused, TooLong, Starts16, HostLen
<1>6. CASE \/ Classify \/ Events \/ WritePre1_4 \/ WritePre1_7
           \/ ReadPrefix \/ ReadLen \/ ReadProtocol \/ ReadAgain \/ ReadPort
  <2>1. CASE Classify
    <3> DEFINE modern == pingType' = "modern"
               ping == pingType' = "pre17"
    <3>1. pc' = CASE modern -> "not a ping" [] ping -> "prefix" [] OTHER -> "events"
      BY <2>1 DEF Classify
    <3> HIDE DEF modern, ping
    <3>2. pc' # "failed"
      BY <3>1
    <3>3. QED
      BY <3>2 DEF OnlyMalformedPanics
  <2>2. CASE Events \/ WritePre1_4 \/ WritePre1_7
    <3>1. pc' # "failed"
      BY <2>2 DEF Events, WritePre1_4, WritePre1_7
    <3>2. QED
      BY <3>1 DEF OnlyMalformedPanics
  <2>3. CASE ReadPrefix \/ ReadLen \/ ReadProtocol \/ ReadAgain \/ ReadPort
    <3>1. pc' \in {"len", "protocol", "again", "hostname", "events"}
      BY <2>3 DEF ReadPrefix, ReadLen, ReadProtocol, ReadAgain, ReadPort, Take
    <3>2. QED
      BY <3>1 DEF OnlyMalformedPanics
  <2>4. QED
    BY <1>6, <2>1, <2>2, <2>3
<1>7. QED
  BY <1>1, <1>2, <1>3, <1>4, <1>5, <1>6 DEF Next, Handle, Read1_6

-----------------------------------------------------------------------------
(* The theorems.                                                           *)
Inductive == TypeOK /\ ReadInv /\ WriteInv /\ ResponseFramed /\ OnlyMalformedPanics

LEMMA InductiveInit == Init => Inductive
<1> SUFFICES ASSUME Init PROVE Inductive
  OBVIOUS
<1>1. pc = "fill" /\ pingType = "none" /\ output = << >> /\ bufLen = 0 /\ consumed = 0
  BY DEF Init
<1>2. ReadInv
  BY <1>1 DEF ReadInv, Reads, After
<1>3. WriteInv /\ ResponseFramed /\ OnlyMalformedPanics
  BY <1>1 DEF WriteInv, ResponseFramed, OnlyMalformedPanics
<1>4. QED
  BY <1>2, <1>3, TypeInit DEF Inductive

LEMMA InductiveNext == Inductive /\ [Next]_vars => Inductive'
BY TypeNext, ReadInvNext, WriteInvNext, FramedNext, PanicNext DEF Inductive

LEMMA InductiveHolds == Spec => []Inductive
BY InductiveInit, InductiveNext, PTL DEF Spec

(* The variables of handle and read_1_6 keep their types: what is consumed *)
(* had arrived, and the length is sixteen bits wide.                       *)
THEOREM TypeCorrect == Spec => []TypeOK
<1>1. Inductive => TypeOK
  BY DEF Inductive
<1>2. QED
  BY <1>1, InductiveHolds, PTL

(* For any texts and any limit of at most 32767 characters, a response     *)
(* starts at its packet id and its length field counts its units           *)
(* (legacy_ping.rs:78-90, 106-142).                                        *)
THEOREM ResponseFramedCorrect == Spec => []ResponseFramed
<1>1. Inductive => ResponseFramed
  BY DEF Inductive
<1>2. QED
  BY <1>1, InductiveHolds, PTL

(* For any requests of clients that mean what they write, cut by the       *)
(* network anywhere, the handlers see the client's protocol and port and   *)
(* its hostname, with U+FFFD for each lone surrogate and nothing else      *)
(* changed, and the whole ping is taken off the stream                     *)
(* (legacy_ping.rs:146-172).                                               *)
THEOREM PayloadCorrect == Spec => []PayloadIsTheClients
<1>1. ASSUME Inductive, pingType = "pre17", pc \in After
      PROVE  PayloadIsTheClients
  <2>1. /\ Starts16(request) /\ consumed = 36 + HostLen(request)
        /\ HostLen(request) % 2 = 0 /\ payload = Heard(request)
    BY <1>1 DEF Inductive, ReadInv
  <2>2. request \in Requests
    BY <1>1 DEF Inductive, TypeOK
  <2>3. Len(request.bytes) >= 36 + HostLen(request)
    <3>1. Len(request.bytes) \in Nat
      BY <2>2, RequestType, LenProperties
    <3>2. arrived \in 0 .. Len(request.bytes) /\ consumed \in 0 .. arrived
      BY <1>1 DEF Inductive, TypeOK
    <3>3. QED
      BY <2>1, <3>1, <3>2, SMT
  <2>4. Len(request.bytes) = 36 + HostLen(request) /\ request.payload = Announced(request)
    BY <2>1, <2>2, <2>3, RequestsAssumption, Zenon
  <2>5. /\ payload.protocol = request.payload.protocol
        /\ payload.port = request.payload.port
        /\ payload.hostname = Lossy(request.payload.hostname)
    BY <2>1, <2>4 DEF Heard
  <2>6. QED
    BY <2>1, <2>4, <2>5 DEF PayloadIsTheClients, Lossy
<1>2. Inductive => PayloadIsTheClients
  BY <1>1 DEF PayloadIsTheClients, After
<1>3. QED
  BY <1>2, InductiveHolds, PTL

(* For any requests: unless the client hung up or the handlers' response   *)
(* was too long, a task that failed had been announced a hostname of a     *)
(* negative length or of half a unit (legacy_ping.rs:85-89, 151, 157-163). *)
THEOREM PanicsCorrect == Spec => []OnlyMalformedPanics
<1>1. Inductive => OnlyMalformedPanics
  BY DEF Inductive
<1>2. QED
  BY <1>1, InductiveHolds, PTL

=============================================================================
