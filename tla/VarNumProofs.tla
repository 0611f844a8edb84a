---------------------------- MODULE VarNumProofs ----------------------------
(***************************************************************************)
(* Writing a number and reading it back, for every Width, Group and Limit  *)
(* with Limit * Group >= Width, so for VarInt, VarLong and the reader of   *)
(* packet lengths alike, and for every interleaving of the two loops. The  *)
(* inductive invariant says where each bit of the number is: the bytes     *)
(* written hold the groups in order, rest holds what is above them, result *)
(* holds what is below Group * numRead. It says nothing of a foreign       *)
(* writer, for which only the types are kept.                              *)
(***************************************************************************)
EXTENDS VarNum, TLAPS

(* The number without its first k groups.                                  *)
Above(k) == {i \in Bits : i + Group * k \in sent}

WriterInv ==
  /\ rest = Above(Len(buf))
  /\ writePc = "writing" => Len(buf) = 0 \/ rest # {}
  /\ writePc = "done" => Len(buf) > 0
  /\ \A k \in 1 .. Len(buf) :
       /\ \A i \in 0 .. Group - 1 : i \in buf[k].data <=> i + Group * (k - 1) \in sent
       /\ buf[k].more <=> Above(k) # {}
       /\ buf[k].more <=> k < Len(buf) \/ writePc = "writing"

ReaderInv ==
  /\ result = {i \in sent : i < Group * numRead}
  /\ readPc = "reading" => numRead = 0 \/ buf[numRead].more
  /\ readPc = "ok" => numRead > 0 /\ ~buf[numRead].more
  /\ readPc \notin {"too big", "panic"}
  /\ readPc = "eof" => writePc = "writing" /\ closed

OwnInv == TypeOK /\ WriterInv /\ ReaderInv

Inductive == TypeOK /\ (writePc # "foreign" => OwnInv)

-----------------------------------------------------------------------------
LEMMA Positive ==
  /\ Width \in Int /\ Width > 0 /\ Group \in Int /\ Group > 0
  /\ \A x : x \in Bits <=> x \in Int /\ 0 <= x /\ x < Width
  /\ \A x : x \in 0 .. Group - 1 <=> x \in Int /\ 0 <= x /\ x < Group
BY VarNumAssumption DEF Bits

LEMMA SentBits ==
  ASSUME TypeOK
  PROVE  \A x \in sent : x \in Int /\ 0 <= x /\ x < Width
BY Positive DEF TypeOK

LEMMA Offsets ==
  ASSUME NEW k \in Nat
  PROVE  Group * k \in Nat /\ Group * (k + 1) = Group * k + Group
BY VarNumAssumption

(* A number whose first k groups are not all of it is wider than they are. *)
LEMMA AboveInWidth ==
  ASSUME TypeOK, NEW k \in Nat, Above(k) # {}
  PROVE  Group * k < Width
<1>1. PICK i \in Bits : i + Group * k \in sent
  BY DEF Above
<1>2. Group * k \in Nat
  BY Offsets
<1>3. i + Group * k \in 0 .. Width - 1
  BY <1>1 DEF TypeOK, Bits
<1>4. QED
  BY <1>1, <1>2, <1>3, VarNumAssumption DEF Bits

(* The next byte starts inside the width, so its shift does not overflow.  *)
LEMMA NextShiftInWidth ==
  ASSUME TypeOK, WriterInv, ReaderInv, readPc = "reading"
  PROVE  Group * numRead < Width
<1>1. CASE numRead = 0
  BY <1>1, VarNumAssumption
<1>2. CASE numRead # 0
  <2>1. numRead \in 1 .. Len(buf) /\ numRead \in Nat
    BY <1>2 DEF TypeOK
  <2>2. buf[numRead].more
    BY <1>2 DEF ReaderInv
  <2>3. Above(numRead) # {}
    BY <2>1, <2>2 DEF WriterInv
  <2>4. QED
    BY <2>1, <2>3, AboveInWidth
<1>3. QED
  BY <1>1, <1>2

(* One turn of the writing loop takes one group off the number.            *)
LEMMA AboveNext ==
  ASSUME TypeOK, NEW k \in Nat
  PROVE  ShiftRight(Above(k)) = Above(k + 1)
<1>1. Group * k \in Nat /\ Group * (k + 1) = Group * k + Group
  BY Offsets
<1>2. ASSUME NEW i \in Bits, (i + Group) + Group * k \in sent
      PROVE  i + Group \in Bits
  <2>1. i + Group \in Int /\ 0 <= i + Group
    BY Positive
  <2>2. (i + Group) + Group * k < Width
    BY <1>2, SentBits
  <2>3. QED
    BY <1>1, <2>1, <2>2, Positive
<1>3. \A i \in Bits : i + Group * (k + 1) = (i + Group) + Group * k
  BY <1>1, Positive
<1>4. QED
  BY <1>2, <1>3 DEF ShiftRight, Above

-----------------------------------------------------------------------------
LEMMA InductiveInit == Init => Inductive
<1> SUFFICES ASSUME Init PROVE OwnInv
  BY DEF Inductive, OwnInv
<1>0. buf = << >> /\ Len(buf) = 0
  BY DEF Init
<1>1. sent \in SUBSET Bits
  BY VarNumAssumption DEF Init
<1>2. TypeOK
  <2>1. << >> \in Seq(Byte)
    OBVIOUS
  <2>2. 0 \in 0 .. Limit
    BY VarNumAssumption
  <2>3. QED
    <3>1. sent \in SUBSET Bits /\ rest \in SUBSET Bits /\ result \in SUBSET Bits
      BY <1>1 DEF Init
    <3>2. numRead \in 0 .. Limit /\ numRead <= Len(buf)
      BY <1>0, <2>2 DEF Init
    <3>3. buf \in Seq(Byte)
      BY <1>0, <2>1
    <3>4. QED
      BY <3>1, <3>2, <3>3 DEF Init, TypeOK
<1>3. WriterInv
  <2>1. Above(0) = sent
    <3>1. Group * 0 = 0
      BY Positive
    <3>2. \A i \in Bits : i + Group * 0 = i
      BY <3>1, Positive
    <3>3. QED
      BY <1>1, <3>2 DEF Above
  <2>2. QED
    BY <1>0, <2>1 DEF Init, WriterInv
<1>4. ReaderInv
  <2>1. {i \in sent : i < Group * 0} = {}
    <3>1. Group * 0 = 0
      BY Positive
    <3>2. \A i \in sent : ~(i < 0)
      BY <1>1, Positive
    <3>3. QED
      BY <3>1, <3>2
  <2>2. QED
    BY <2>1 DEF Init, ReaderInv
<1>5. QED
  BY <1>2, <1>3, <1>4 DEF OwnInv

LEMMA WriteStep == OwnInv /\ Write => OwnInv'
<1> SUFFICES ASSUME TypeOK, WriterInv, ReaderInv, Write PROVE OwnInv'
  BY DEF OwnInv
<1> DEFINE n == Len(buf)
           b == [data |-> Low(rest), more |-> rest' # {}]
<1>0. n \in Nat /\ buf \in Seq(Byte)
  <2>1. buf \in Seq(Byte)
    BY DEF TypeOK
  <2>2. QED
    BY <2>1
<1>1. b \in Byte
  BY DEF Low, Byte
<1>2. /\ buf' = Append(buf, b) /\ buf' \in Seq(Byte)
      /\ Len(buf') = n + 1 /\ buf'[n + 1] = b
      /\ \A k \in 1 .. n : buf'[k] = buf[k]
  BY <1>0, <1>1 DEF Write
<1>3. rest' = Above(n + 1)
  BY <1>0, AboveNext DEF Write, WriterInv
<1>4. Above(n + 1) \in SUBSET Bits
  BY DEF Above
<1>5. UNCHANGED <<sent, closed, numRead, result, readPc>>
  BY DEF Write, readVars
<1>6. \A k : Above(k)' = Above(k)
  BY <1>5 DEF Above
<1>7. TypeOK'
  <2>1. numRead' <= Len(buf')
    <3>1. numRead \in 0 .. Limit /\ numRead <= n
      BY DEF TypeOK
    <3>2. QED
      BY <1>0, <1>2, <1>5, <3>1
  <2>2. writePc' \in {"writing", "done"}
    BY DEF Write
  <2>3. QED
    BY <1>2, <1>3, <1>4, <1>5, <2>1, <2>2 DEF TypeOK
<1>8. WriterInv'
  <2>1. writePc' = IF rest' = {} THEN "done" ELSE "writing"
    BY DEF Write
  <2>2. ASSUME NEW k \in 1 .. n
        PROVE  /\ \A i \in 0 .. Group - 1 :
                    i \in buf'[k].data <=> i + Group * (k - 1) \in sent'
               /\ buf'[k].more <=> Above(k) # {}
               /\ buf'[k].more
    BY <1>2, <1>5, <2>2 DEF WriterInv, Write
  <2>3. /\ \A i \in 0 .. Group - 1 : i \in b.data <=> i + Group * n \in sent'
        /\ b.more <=> Above(n + 1) # {}
    <3>1. rest = Above(n)
      BY DEF WriterInv
    <3>2. \A i \in 0 .. Group - 1 : i + Group * n \in sent => i \in Bits
      BY <1>0, Offsets, SentBits, Positive
    <3>3. QED
      BY <1>3, <1>5, <3>1, <3>2 DEF Low, Above
  <2>4. \A k \in 1 .. n + 1 : k \in 1 .. n \/ (k = n + 1 /\ k - 1 = n)
    BY <1>0
  <2>5. \A k \in 1 .. Len(buf') :
          /\ \A i \in 0 .. Group - 1 :
               i \in buf'[k].data <=> i + Group * (k - 1) \in sent'
          /\ buf'[k].more <=> Above(k)' # {}
          /\ buf'[k].more <=> k < Len(buf') \/ writePc' = "writing"
    <3> SUFFICES ASSUME NEW k \in 1 .. n + 1
                 PROVE  /\ \A i \in 0 .. Group - 1 :
                             i \in buf'[k].data <=> i + Group * (k - 1) \in sent'
                        /\ buf'[k].more <=> Above(k) # {}
                        /\ buf'[k].more <=> k < n + 1 \/ writePc' = "writing"
      BY <1>2, <1>6
    <3>1. CASE k \in 1 .. n
      <4>1. k < n + 1
        BY <1>0, <3>1
      <4>2. QED
        BY <2>2, <3>1, <4>1
    <3>2. CASE k = n + 1 /\ k - 1 = n
      <4>1. ~(k < n + 1)
        BY <1>0, <3>2
      <4>2. b.more <=> writePc' = "writing"
        BY <1>3, <2>1, <2>3
      <4>3. QED
        BY <1>2, <2>3, <3>2, <4>1, <4>2
    <3>3. QED
      BY <2>4, <3>1, <3>2
  <2>6. QED
    BY <1>0, <1>2, <1>3, <1>6, <2>1, <2>5 DEF WriterInv
<1>9. ReaderInv'
  <2>1. numRead = 0 \/ (numRead \in 1 .. n /\ buf'[numRead] = buf[numRead])
    <3>1. numRead \in 0 .. Limit /\ numRead <= n
      BY DEF TypeOK
    <3>2. QED
      BY <1>0, <1>2, <3>1
  <2>2. readPc # "eof"
    BY DEF ReaderInv, Write
  <2>3. QED
    <3>1. result' = {i \in sent' : i < Group * numRead'}
      BY <1>5 DEF ReaderInv
    <3>2. /\ readPc = "reading" => numRead = 0 \/ buf'[numRead].more
          /\ readPc = "ok" => numRead > 0 /\ ~buf'[numRead].more
      <4>1. readPc = "ok" => numRead # 0
        BY DEF ReaderInv
      <4>2. QED
        BY <2>1, <4>1, Zenon DEF ReaderInv
    <3>3. readPc \notin {"too big", "panic"}
      BY DEF ReaderInv
    <3>4. QED
      BY <1>5, <2>2, <3>1, <3>2, <3>3 DEF ReaderInv
<1>10. QED
  BY <1>7, <1>8, <1>9 DEF OwnInv

LEMMA ReadStep == OwnInv /\ writePc # "foreign" /\ (Read \/ Close) => OwnInv'
<1> SUFFICES ASSUME TypeOK, WriterInv, ReaderInv, writePc # "foreign", Read \/ Close
             PROVE  OwnInv'
  BY DEF OwnInv
<1>0. UNCHANGED <<sent, rest, writePc, buf>>
  BY DEF Read, ReadByte, ReadPanics, TooBig, Eof, Close, writeVars
<1>1. WriterInv'
  BY <1>0 DEF WriterInv, Above
<1>2. CASE Close
  <2>1. TypeOK' /\ ReaderInv'
    BY <1>0, <1>2 DEF TypeOK, ReaderInv, Close, readVars
  <2>2. QED
    BY <1>1, <2>1 DEF OwnInv
<1>3. CASE ReadByte
  <2> DEFINE m == numRead
             data == buf[m + 1].data
  <2>1. /\ m \in Nat /\ m + 1 \in 1 .. Len(buf) /\ m + 1 \in 0 .. Limit
        /\ (m + 1) - 1 = m
    BY <1>3, VarNumAssumption DEF TypeOK, ReadByte
  <2>2. Group * m \in Nat /\ Group * (m + 1) = Group * m + Group
    BY <2>1, Offsets
  <2>3. Group * m < Width
    BY <1>3, NextShiftInWidth DEF ReadByte
  <2>4. (Group * m) % Width = Group * m
    BY <2>2, <2>3, VarNumAssumption
  <2>5. result' = {i \in sent : i < Group * m} \cup ShiftLeft(data, Group * m)
    BY <1>3, <2>4 DEF ReadByte, ReaderInv
  <2>6. \A j \in 0 .. Group - 1 : j \in data <=> j + Group * m \in sent
    BY <2>1 DEF WriterInv
  <2>7. data \subseteq 0 .. Group - 1
    <3>1. buf \in Seq(Byte)
      BY DEF TypeOK
    <3>2. buf[m + 1] \in Byte
      BY <2>1, <3>1
    <3>3. QED
      BY <3>2 DEF Byte
  <2>8. \A i \in Bits : i \in ShiftLeft(data, Group * m) <=>
          i \in sent /\ i >= Group * m /\ i < Group * (m + 1)
    <3> SUFFICES ASSUME NEW i \in Bits, i >= Group * m
                 PROVE  i - Group * m \in data <=> i \in sent /\ i < Group * (m + 1)
      BY DEF ShiftLeft
    <3>1. i - Group * m \in 0 .. Group - 1 <=> i < Group * (m + 1)
      BY <2>2, VarNumAssumption DEF Bits
    <3>2. (i - Group * m) + Group * m = i
      BY <2>2 DEF Bits
    <3>3. QED
      BY <2>6, <2>7, <3>1, <3>2
  <2>9. result' = {i \in sent : i < Group * (m + 1)}
    <3>1. sent \subseteq Bits /\ ShiftLeft(data, Group * m) \subseteq Bits
      BY DEF TypeOK, ShiftLeft
    <3>2. \A i \in sent : i < Group * (m + 1) <=>
            i < Group * m \/ (i >= Group * m /\ i < Group * (m + 1))
      BY <2>2, <3>1, VarNumAssumption DEF Bits
    <3>3. QED
      BY <2>5, <2>8, <3>1, <3>2
  <2>10. /\ numRead' = m + 1 /\ UNCHANGED closed
         /\ readPc' = IF buf[m + 1].more THEN "reading" ELSE "ok"
    BY <1>3 DEF ReadByte
  <2>11. TypeOK'
    <3>1. result' \in SUBSET Bits
      BY <2>9 DEF TypeOK
    <3>2. numRead' \in 0 .. Limit /\ numRead' <= Len(buf)
      BY <2>1, <2>10
    <3>3. QED
      BY <1>0, <2>10, <3>1, <3>2 DEF TypeOK
  <2>12. ReaderInv'
    <3>1. m + 1 > 0
      BY <2>1
    <3>2. QED
      BY <1>0, <2>9, <2>10, <3>1 DEF ReaderInv
  <2>13. QED
    BY <1>1, <2>11, <2>12 DEF OwnInv
<1>4. ~ReadPanics
  <2> SUFFICES ASSUME ReadPanics PROVE FALSE
    OBVIOUS
  <2>1. Group * numRead < Width
    BY NextShiftInWidth DEF ReadPanics
  <2>2. Group * numRead \in Int
    <3>1. numRead \in 0 .. Limit
      BY DEF TypeOK
    <3>2. QED
      BY <3>1, Positive
  <2>3. QED
    BY <2>1, <2>2, Positive DEF ReadPanics
<1>5. ~TooBig
  <2> SUFFICES ASSUME TooBig PROVE FALSE
    OBVIOUS
  <2>1. Group * Limit < Width
    BY NextShiftInWidth DEF TooBig
  <2>2. Group * Limit = Limit * Group /\ Group * Limit \in Nat
    BY VarNumAssumption
  <2>3. QED
    BY <2>1, <2>2, VarNumAssumption
<1>6. CASE Eof
  <2>1. writePc = "writing"
    <3>1. CASE numRead = 0
      BY <1>6, <3>1 DEF Eof, TypeOK, WriterInv
    <3>2. CASE numRead # 0
      <4>1. buf[Len(buf)].more /\ Len(buf) \in 1 .. Len(buf)
        BY <1>6, <3>2 DEF Eof, TypeOK, ReaderInv
      <4>2. ~(Len(buf) < Len(buf))
        BY <4>1
      <4>3. QED
        BY <4>1, <4>2 DEF WriterInv
    <3>3. QED
      BY <3>1, <3>2
  <2>2. TypeOK' /\ ReaderInv'
    BY <1>0, <1>6, <2>1 DEF TypeOK, ReaderInv, Eof
  <2>3. QED
    BY <1>1, <2>2 DEF OwnInv
<1>7. QED
  BY <1>2, <1>3, <1>4, <1>5, <1>6 DEF Read

(* Whatever a foreign peer writes, the types are kept.                     *)
LEMMA ForeignStep ==
  TypeOK /\ writePc = "foreign" /\ (WriteForeign \/ Close \/ Read)
    => TypeOK' /\ writePc' = "foreign"
<1> SUFFICES ASSUME TypeOK, writePc = "foreign", WriteForeign \/ Close \/ Read
             PROVE  TypeOK' /\ writePc' = "foreign"
  OBVIOUS
<1>1. CASE WriteForeign
  <2>1. PICK b \in Foreign : buf' = Append(buf, b)
    BY <1>1 DEF WriteForeign
  <2>2. buf \in Seq(Byte) /\ b \in Byte
    BY VarNumAssumption DEF TypeOK
  <2>3. buf' \in Seq(Byte) /\ Len(buf') = Len(buf) + 1 /\ Len(buf) \in Nat
    BY <2>1, <2>2
  <2>4. numRead \in 0 .. Limit /\ numRead <= Len(buf')
    <3>1. numRead \in 0 .. Limit /\ numRead <= Len(buf)
      BY DEF TypeOK
    <3>2. QED
      BY <2>3, <3>1, VarNumAssumption
  <2>5. UNCHANGED <<sent, rest, writePc, closed, numRead, result, readPc>>
    BY <1>1 DEF WriteForeign, writeVars, readVars
  <2>6. QED
    BY <2>3, <2>4, <2>5 DEF TypeOK
<1>2. CASE ReadByte
  <2>1. UNCHANGED <<sent, rest, writePc, buf, closed>> /\ numRead' = numRead + 1
    BY <1>2 DEF ReadByte, writeVars
  <2>2. numRead' \in 0 .. Limit /\ numRead' <= Len(buf)
    BY <1>2, <2>1, VarNumAssumption DEF TypeOK, ReadByte
  <2>3. result' \in SUBSET Bits
    BY <1>2 DEF ReadByte, ShiftLeft, TypeOK
  <2>4. readPc' \in {"reading", "ok"}
    BY <1>2 DEF ReadByte
  <2>5. QED
    BY <2>1, <2>2, <2>3, <2>4 DEF TypeOK
<1>3. CASE Close \/ ReadPanics \/ TooBig \/ Eof
  <2>1. UNCHANGED <<sent, rest, writePc, buf, numRead, result>>
    BY <1>3 DEF Close, ReadPanics, TooBig, Eof, writeVars, readVars
  <2>2. closed' \in BOOLEAN /\ readPc' \in {"reading", "ok", "too big", "eof", "panic"}
    BY <1>3 DEF Close, ReadPanics, TooBig, Eof, readVars, TypeOK
  <2>3. QED
    BY <2>1, <2>2 DEF TypeOK
<1>4. QED
  BY <1>1, <1>2, <1>3 DEF Read

LEMMA InductiveAlways == Spec => []Inductive
<1>1. ASSUME Inductive, UNCHANGED vars PROVE Inductive'
  <2>1. UNCHANGED <<sent, rest, writePc, buf, closed, numRead, result, readPc>>
    BY <1>1 DEF vars, writeVars, readVars
  <2>2. TypeOK'
    BY <1>1, <2>1 DEF Inductive, TypeOK
  <2>3. CASE writePc # "foreign"
    <3>1. WriterInv /\ ReaderInv
      BY <1>1, <2>3 DEF Inductive, OwnInv
    <3>2. WriterInv'
      BY <2>1, <3>1 DEF WriterInv, Above
    <3>3. ReaderInv'
      BY <2>1, <3>1 DEF ReaderInv
    <3>4. QED
      BY <2>2, <3>2, <3>3 DEF Inductive, OwnInv
  <2>4. CASE writePc = "foreign"
    BY <2>1, <2>2, <2>4 DEF Inductive
  <2>5. QED
    BY <2>3, <2>4
<1>2. ASSUME Inductive, Next PROVE Inductive'
  <2>1. CASE writePc # "foreign"
    <3>1. OwnInv
      BY <1>2, <2>1 DEF Inductive
    <3>2. ~WriteForeign
      BY <2>1 DEF WriteForeign
    <3>3. OwnInv'
      BY <1>2, <2>1, <3>1, <3>2, WriteStep, ReadStep DEF Next
    <3>4. QED
      BY <3>3 DEF Inductive, OwnInv
  <2>2. CASE writePc = "foreign"
    <3>1. ~Write
      BY <2>2 DEF Write
    <3>2. QED
      BY <1>2, <2>2, <3>1, ForeignStep DEF Inductive, Next
  <2>3. QED
    BY <2>1, <2>2
<1>3. Inductive /\ [Next]_vars => Inductive'
  BY <1>1, <1>2
<1>4. QED
  BY InductiveInit, <1>3, PTL DEF Spec

(* The types hold.                                                         *)
THEOREM TypeCorrect == Spec => []TypeOK
<1>1. Inductive => TypeOK
  BY DEF Inductive
<1>2. QED
  BY InductiveAlways, <1>1, PTL

(* A number read is the number written, and its bytes are all consumed.    *)
THEOREM RoundTripCorrect == Spec => []RoundTrip
<1>1. Inductive => RoundTrip
  <2> SUFFICES ASSUME TypeOK, WriterInv, ReaderInv, writePc # "foreign", readPc = "ok"
               PROVE  RoundTrip
    BY DEF Inductive, OwnInv, RoundTrip
  <2>1. numRead \in 1 .. Len(buf) /\ numRead \in Nat /\ ~buf[numRead].more
    BY DEF TypeOK, ReaderInv
  <2>2. numRead = Len(buf) /\ writePc = "done"
    BY <2>1 DEF WriterInv, TypeOK
  <2>3. Above(numRead) = {}
    BY <2>1 DEF WriterInv
  <2>4. \A i \in sent : i < Group * numRead
    <3> SUFFICES ASSUME NEW i \in sent, ~(i < Group * numRead) PROVE FALSE
      OBVIOUS
    <3>1. Group * numRead \in Nat
      BY <2>1, Offsets
    <3>2. i - Group * numRead \in Bits /\ (i - Group * numRead) + Group * numRead = i
      BY <3>1, VarNumAssumption DEF TypeOK, Bits
    <3>3. QED
      BY <2>3, <3>2 DEF Above
  <2>5. QED
    BY <2>2, <2>4 DEF ReaderInv, RoundTrip
<1>2. QED
  BY InductiveAlways, <1>1, PTL

(* The reader never refuses a number that was written, and no shift of the *)
(* reading loop overflows.                                                 *)
THEOREM NoFalseAlarmCorrect == Spec => []NoFalseAlarm
<1>1. Inductive => NoFalseAlarm
  BY DEF Inductive, OwnInv, ReaderInv, NoFalseAlarm
<1>2. QED
  BY InductiveAlways, <1>1, PTL

-----------------------------------------------------------------------------
(* The bytes of any writer, the foreign one included. DecodeInv says which *)
(* bytes have been seen to go on, and that the result is put together from *)
(* them, while they are the bytes that carry bits.                         *)

Decoded ==
  {i \in Bits : /\ i \div Group < numRead
                /\ i % Group \in buf[i \div Group + 1].data}

DecodeInv ==
  /\ \A k \in 1 .. numRead : readPc # "ok" \/ k < numRead => buf[k].more
  /\ readPc = "ok" => numRead > 0 /\ ~buf[numRead].more
  /\ (numRead - 1) * Group < Width => result = Decoded
  /\ readPc = "panic" => numRead * Group >= Width

(* Quotient and remainder by Group, the only facts about them in use.      *)
LEMMA DivMod ==
  ASSUME NEW i \in Nat
  PROVE  /\ i \div Group \in Nat /\ i % Group \in 0 .. Group - 1
         /\ i = Group * (i \div Group) + (i % Group)
<1>1. \A g \in Nat \ {0} : /\ i \div g \in Nat /\ i % g \in 0 .. g - 1
                           /\ i = g * (i \div g) + (i % g)
  OBVIOUS
<1>2. QED
  BY <1>1, VarNumAssumption

LEMMA DivIs ==
  ASSUME NEW i \in Nat, NEW n \in Nat
  PROVE  i \div Group = n <=> Group * n <= i /\ i - Group * n \in 0 .. Group - 1
<1> DEFINE q == i \div Group
           r == i % Group
<1>1. q \in Nat /\ r \in 0 .. Group - 1 /\ i = Group * q + r
  BY DivMod
<1>2. Group * q \in Nat /\ Group * n \in Nat
  BY <1>1, VarNumAssumption
<1> HIDE DEF q, r
<1>3. CASE q = n
  BY <1>1, <1>2, <1>3, VarNumAssumption DEF q
<1>4. CASE q < n
  <2>1. Group * n = Group * q + Group * (n - q) /\ Group * (n - q) >= Group
    BY <1>1, <1>4, VarNumAssumption
  <2>2. QED
    BY <1>1, <1>2, <1>4, <2>1, VarNumAssumption DEF q
<1>5. CASE q > n
  <2>1. Group * q = Group * n + Group * (q - n) /\ Group * (q - n) >= Group
    BY <1>1, <1>5, VarNumAssumption
  <2>2. QED
    BY <1>1, <1>2, <1>5, <2>1, VarNumAssumption DEF q
<1>6. QED
  BY <1>1, <1>3, <1>4, <1>5

(* The shifted bits of byte n are the ones whose quotient is n.            *)
LEMMA ShiftedBits ==
  ASSUME NEW n \in Nat, Group * n < Width, NEW data \in SUBSET (0 .. Group - 1)
  PROVE  ShiftLeft(data, (Group * n) % Width)
           = {i \in Bits : i \div Group = n /\ i % Group \in data}
<1>1. Group * n \in Nat /\ (Group * n) % Width = Group * n
  <2>1. Group * n \in Nat
    BY VarNumAssumption
  <2>2. \A m, w \in Nat : m < w => m % w = m
    OBVIOUS
  <2>3. QED
    BY <2>1, <2>2, VarNumAssumption
<1>2. ASSUME NEW i \in Bits
      PROVE  (i >= Group * n /\ i - Group * n \in data)
               <=> (i \div Group = n /\ i % Group \in data)
  <2>1. i \in Nat
    BY VarNumAssumption DEF Bits
  <2>2. i \div Group = n <=> Group * n <= i /\ i - Group * n \in 0 .. Group - 1
    BY <2>1, DivIs
  <2>3. i \div Group = n => i % Group = i - Group * n
    <3> SUFFICES ASSUME i \div Group = n PROVE i % Group = i - Group * n
      OBVIOUS
    <3>1. i = Group * n + (i % Group) /\ i % Group \in 0 .. Group - 1
      BY <2>1, DivMod
    <3>2. QED
      BY <1>1, <2>1, <3>1, VarNumAssumption
  <2>4. i - Group * n \in data => i - Group * n \in 0 .. Group - 1
    OBVIOUS
  <2>5. i >= Group * n <=> Group * n <= i
    BY <1>1, <2>1
  <2>6. QED
    BY <2>2, <2>3, <2>4, <2>5
<1>3. QED
  BY <1>1, <1>2 DEF ShiftLeft

LEMMA NumReadType ==
  ASSUME TypeOK
  PROVE  /\ numRead \in Nat /\ numRead <= Limit /\ Limit \in Nat
         /\ buf \in Seq(Byte) /\ numRead <= Len(buf)
<1>1. Limit \in Nat
  BY VarNumAssumption
<1>2. numRead \in 0 .. Limit /\ buf \in Seq(Byte) /\ numRead <= Len(buf)
  BY DEF TypeOK
<1>3. QED
  BY <1>1, <1>2

LEMMA DecodeInit == TypeOK /\ Init => DecodeInv
<1> SUFFICES ASSUME Init PROVE DecodeInv
  OBVIOUS
<1>1. numRead = 0 /\ readPc = "reading" /\ result = {}
  BY DEF Init
<1>2. \A i \in Bits : ~(i \div Group < 0)
  <2> SUFFICES ASSUME NEW i \in Bits PROVE ~(i \div Group < 0)
    OBVIOUS
  <2>1. i \in Nat
    BY VarNumAssumption DEF Bits
  <2>2. i \div Group \in Nat
    BY <2>1, DivMod
  <2>3. QED
    BY <2>2
<1>3. Decoded = {}
  BY <1>1, <1>2 DEF Decoded
<1>4. QED
  BY <1>1, <1>3 DEF DecodeInv

(* Bytes that have been read stay as they are.                             *)
LEMMA DecodeKept ==
  ASSUME TypeOK, DecodeInv, UNCHANGED readVars,
         \A k \in 1 .. numRead : buf'[k] = buf[k]
  PROVE  DecodeInv'
<1>1. numRead' = numRead /\ result' = result /\ readPc' = readPc /\ numRead \in Nat
  <2>1. numRead \in Nat
    BY NumReadType
  <2>2. QED
    BY <2>1 DEF readVars
<1>2. Decoded' = Decoded
  <2>1. ASSUME NEW i \in Bits, i \div Group < numRead
        PROVE  buf'[i \div Group + 1] = buf[i \div Group + 1]
    <3>1. i \in Nat
      BY VarNumAssumption DEF Bits
    <3>2. i \div Group \in Nat
      BY <3>1, DivMod
    <3>3. QED
      BY <1>1, <2>1, <3>2
  <2>2. QED
    BY <1>1, <2>1 DEF Decoded
<1>3. numRead > 0 => numRead \in 1 .. numRead
  BY <1>1
<1>4. QED
  BY <1>1, <1>2, <1>3 DEF DecodeInv

LEMMA DecodeReadByte ==
  ASSUME TypeOK, DecodeInv, ReadByte
  PROVE  DecodeInv'
<1>1. /\ numRead \in Nat /\ numRead < Len(buf) /\ numRead' = numRead + 1 /\ buf' = buf
      /\ readPc = "reading" /\ readPc' = IF buf[numRead + 1].more THEN "reading" ELSE "ok"
      /\ Len(buf) \in Nat /\ buf[numRead + 1] \in Byte
      /\ result' = result \cup ShiftLeft(buf[numRead + 1].data, (Group * numRead) % Width)
  BY VarNumAssumption DEF ReadByte, TypeOK
<1>2. \A k \in 1 .. numRead' : readPc' # "ok" \/ k < numRead' => buf'[k].more
  BY <1>1 DEF DecodeInv
<1>3. readPc' = "ok" => numRead' > 0 /\ ~buf'[numRead'].more
  BY <1>1
<1>4. ASSUME (numRead' - 1) * Group < Width PROVE result' = Decoded'
  <2>1. Group * numRead < Width /\ (numRead - 1) * Group < Width
    <3>1. numRead' - 1 = numRead
      BY <1>1
    <3>2. numRead * Group < Width
      BY <1>4, <3>1
    <3>3. numRead * Group = Group * numRead
          /\ (numRead - 1) * Group = Group * numRead - Group
      BY <1>1, VarNumAssumption
    <3>4. Group * numRead \in Nat
      BY <1>1, VarNumAssumption
    <3>5. QED
      BY <3>2, <3>3, <3>4, VarNumAssumption
  <2>2. result = Decoded
    BY <2>1 DEF DecodeInv
  <2>3. ShiftLeft(buf[numRead + 1].data, (Group * numRead) % Width)
          = {i \in Bits : i \div Group = numRead /\ i % Group \in buf[numRead + 1].data}
    <3>1. buf[numRead + 1].data \in SUBSET (0 .. Group - 1)
      BY <1>1 DEF Byte
    <3>2. QED
      BY <1>1, <2>1, <3>1, ShiftedBits
  <2>4. \A i \in Bits : i \div Group < numRead + 1
                          <=> i \div Group < numRead \/ i \div Group = numRead
    <3> SUFFICES ASSUME NEW i \in Bits
                 PROVE  i \div Group < numRead + 1
                          <=> i \div Group < numRead \/ i \div Group = numRead
      OBVIOUS
    <3>1. i \in Nat
      BY VarNumAssumption DEF Bits
    <3>2. i \div Group \in Nat
      BY <3>1, DivMod
    <3>3. QED
      BY <1>1, <3>2
  <2>5. QED
    BY <1>1, <2>2, <2>3, <2>4 DEF Decoded
<1>5. readPc' # "panic"
  BY <1>1
<1>6. QED
  BY <1>2, <1>3, <1>4, <1>5 DEF DecodeInv

LEMMA DecodeNext == TypeOK /\ DecodeInv /\ [Next]_vars => DecodeInv'
<1> SUFFICES ASSUME TypeOK, DecodeInv, [Next]_vars PROVE DecodeInv'
  OBVIOUS
<1>1. buf \in Seq(Byte) /\ numRead \in Nat /\ numRead <= Len(buf)
  BY NumReadType
<1>2. CASE Write
  <2>1. UNCHANGED readVars /\ \E b : buf' = Append(buf, b)
    BY <1>2 DEF Write
  <2>2. \A k \in 1 .. numRead : buf'[k] = buf[k]
    BY <1>1, <2>1
  <2>3. QED
    BY <2>1, <2>2, DecodeKept
<1>3. CASE WriteForeign
  <2>1. UNCHANGED readVars /\ \E b \in Foreign : buf' = Append(buf, b)
    BY <1>3 DEF WriteForeign
  <2>2. \A k \in 1 .. numRead : buf'[k] = buf[k]
    BY <1>1, <2>1
  <2>3. QED
    BY <2>1, <2>2, DecodeKept
<1>4. CASE Close \/ UNCHANGED vars
  <2>1. UNCHANGED readVars /\ buf' = buf
    BY <1>4 DEF Close, vars
  <2>2. QED
    BY <2>1, DecodeKept
<1>5. CASE ReadByte
  BY <1>5, DecodeReadByte
<1>6. CASE ReadPanics
  <2>1. Group * numRead >= Width /\ Group * numRead = numRead * Group
    BY <1>1, <1>6, VarNumAssumption DEF ReadPanics
  <2>2. UNCHANGED <<buf, numRead, result>> /\ readPc = "reading" /\ readPc' = "panic"
    BY <1>6 DEF ReadPanics
  <2>3. QED
    BY <2>1, <2>2 DEF DecodeInv, Decoded
<1>7. CASE TooBig \/ Eof
  <2>1. UNCHANGED <<buf, numRead, result>> /\ readPc = "reading" /\ readPc' \in {"too big", "eof"}
    BY <1>7 DEF TooBig, Eof
  <2>2. QED
    BY <2>1 DEF DecodeInv, Decoded
<1>8. QED
  BY <1>2, <1>3, <1>4, <1>5, <1>6, <1>7 DEF Next, Read

LEMMA DecodeAlways == Spec => []DecodeInv
<1>1. Spec => []TypeOK
  BY TypeCorrect
<1>2. Init => TypeOK
  BY InductiveInit DEF Inductive
<1>3. QED
  BY <1>1, <1>2, DecodeInit, DecodeNext, PTL DEF Spec

(* Whatever bytes a peer writes, the reader stops where they stop and puts *)
(* every bit it returns in its place.                                      *)
THEOREM ForeignDecodedCorrect == Spec => []ForeignDecoded
<1>1. TypeOK /\ DecodeInv => ForeignDecoded
  <2> SUFFICES ASSUME TypeOK, DecodeInv PROVE ForeignDecoded
    OBVIOUS
  <2>1. numRead \in Nat
    BY NumReadType
  <2>2. readPc = "ok" => \A k \in 1 .. numRead : buf[k].more <=> k < numRead
    <3> SUFFICES ASSUME readPc = "ok", NEW k \in 1 .. numRead
                 PROVE  buf[k].more <=> k < numRead
      OBVIOUS
    <3>1. CASE k < numRead
      BY <3>1 DEF DecodeInv
    <3>2. CASE k = numRead
      BY <2>1, <3>2 DEF DecodeInv
    <3>3. QED
      BY <2>1, <3>1, <3>2
  <2>3. readPc = "ok" /\ (numRead - 1) * Group < Width => result = Decoded
    BY DEF DecodeInv
  <2>4. readPc = "panic" => numRead * Group >= Width
    BY DEF DecodeInv
  <2>5. QED
    BY <2>2, <2>3, <2>4 DEF ForeignDecoded, Decoded
<1>2. QED
  BY TypeCorrect, DecodeAlways, <1>1, PTL

(* With a limit that is no more than the bits need, 5 for VarInt and for   *)
(* the length of a packet, no reader accepts more bytes than that.         *)
THEOREM AcceptedIsShortCorrect ==
  ASSUME (Limit - 1) * Group < Width
  PROVE  Spec => []AcceptedIsShort
<1>1. TypeOK => AcceptedIsShort
  <2> SUFFICES ASSUME TypeOK PROVE (numRead - 1) * Group < Width
    BY DEF AcceptedIsShort
  <2>1. numRead \in Nat /\ numRead <= Limit /\ Limit \in Nat
    BY NumReadType
  <2>2. (Limit - 1) * Group = (numRead - 1) * Group + (Limit - numRead) * Group
        /\ (Limit - numRead) * Group \in Nat
    BY <2>1, VarNumAssumption
  <2>3. (numRead - 1) * Group \in Int
    BY <2>1, VarNumAssumption
  <2>4. QED
    BY <2>2, <2>3, VarNumAssumption
<1>2. QED
  BY TypeCorrect, <1>1, PTL

=============================================================================
