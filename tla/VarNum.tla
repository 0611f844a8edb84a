------------------------------- MODULE VarNum -------------------------------
(***************************************************************************)
(* The variable-length integers of the protocol crate, written into one    *)
(* end of a byte stream and read from the other as the bytes come:         *)
(*                                                                         *)
(*                           Width  Group  Limit                           *)
(*   VarInt                    32      7      5    to_bytes and            *)
(*   VarLong                   64      7     11    from_bytes/impls.rs     *)
(*   read_packet_length        32      7      5    serverbase.rs (reader)  *)
(*                                                                         *)
(* Limit is the number of bytes the reading loop is willing to read. A     *)
(* number is the set of its one bits, bit 0 the lowest; a byte is its      *)
(* Group low bits and the bit above them, "more". The stream may be cut    *)
(* (closed) between any two bytes. The writer is the loop of this crate or *)
(* a foreign one, which writes any bytes.                                  *)
(***************************************************************************)
EXTENDS Integers, Sequences

CONSTANTS
  Width,    (* bits of the number type                                     *)
  Group,    (* data bits of one byte                                       *)
  Limit,    (* bytes the reading loop reads before it gives up             *)
  Values,   (* the numbers that may be written                             *)
  Foreign   (* bytes a peer with another encoder may write                 *)

Bits == 0 .. Width - 1
Byte == [data : SUBSET (0 .. Group - 1), more : BOOLEAN]

ASSUME VarNumAssumption ==
  /\ Width \in Nat \ {0} /\ Group \in Nat \ {0} /\ Limit \in Nat
  /\ Limit * Group >= Width
  /\ Values \subseteq SUBSET Bits
  /\ Foreign \subseteq Byte

VARIABLES
  sent,      (* the number being written, if it is the crate that writes   *)
  rest,      (* what the writing loop has left of it: value                *)
  writePc,   (* "writing", "done"; "foreign": the peer is of another make  *)
  buf,       (* the bytes written so far                                   *)
  closed,    (* the stream has ended                                       *)
  numRead,   (* bytes read so far: num_read                                *)
  result,    (* the number under construction                              *)
  readPc     (* "reading", "ok", "too big", "eof", "panic"                 *)

writeVars == <<sent, rest, writePc>>
readVars == <<numRead, result, readPc>>
vars == <<writeVars, buf, closed, readVars>>

Init ==
  /\ \/ writePc = "writing" /\ sent \in Values
     \/ writePc = "foreign" /\ sent = {}
  /\ rest = sent
  /\ buf = << >>
  /\ closed = FALSE
  /\ numRead = 0
  /\ result = {}
  /\ readPc = "reading"

-----------------------------------------------------------------------------
(* The writing loop                                                        *)

(* Mutant: one bit too many is left by the mask.                           *)
LowUnmasked(v) == {i \in 0 .. Group : i \in v}

Low(v) == {i \in 0 .. Group - 1 : i \in v}

(* Mutant: the shift of the signed type keeps the sign.                    *)
ShiftRightSigned(v) ==
  {i \in Bits : i + Group \in v \/ (Width - 1 \in v /\ i >= Width - Group)}

(* The shift is a logical one (as u32, as u64).                            *)
ShiftRight(v) == {i \in Bits : i + Group \in v}

(* Mutant: the high bit is decided before the shift.                       *)
WriteEarlyMore ==
  /\ writePc = "writing" /\ ~closed
  /\ rest' = ShiftRight(rest)
  /\ buf' = Append(buf, [data |-> Low(rest), more |-> rest # {}])
  /\ writePc' = IF rest' = {} THEN "done" ELSE "writing"
  /\ UNCHANGED <<sent, closed, readVars>>

Write ==
  /\ writePc = "writing" /\ ~closed
  /\ rest' = ShiftRight(rest)
  /\ buf' = Append(buf, [data |-> Low(rest), more |-> rest' # {}])
  /\ writePc' = IF rest' = {} THEN "done" ELSE "writing"
  /\ UNCHANGED <<sent, closed, readVars>>

(* The peer closes the connection or it is lost.                           *)
Close ==
  /\ ~closed
  /\ closed' = TRUE
  /\ UNCHANGED <<writeVars, buf, readVars>>

(* A peer of another make writes bytes of its own, one more than Limit.    *)
WriteForeign ==
  /\ writePc = "foreign"
  /\ ~closed /\ Len(buf) <= Limit
  /\ \E b \in Foreign : buf' = Append(buf, b)
  /\ UNCHANGED <<writeVars, closed, readVars>>

-----------------------------------------------------------------------------
(* The reading loop                                                        *)

(* value << shift, for a shift of less than Width.                         *)
ShiftLeft(data, shift) == {i \in Bits : i >= shift /\ i - shift \in data}

TooBig ==
  /\ readPc = "reading"
  /\ numRead = Limit
  /\ readPc' = "too big"
  /\ UNCHANGED <<writeVars, buf, closed, numRead, result>>

(* Mutant: the result starts a new group one bit too early.                *)
ReadByteShort ==
  /\ readPc = "reading"
  /\ numRead < Limit /\ numRead < Len(buf)
  /\ result' = result \cup ShiftLeft(buf[numRead + 1].data, (Group - 1) * numRead)
  /\ readPc' = IF buf[numRead + 1].more THEN "reading" ELSE "ok"
  /\ numRead' = numRead + 1
  /\ UNCHANGED <<writeVars, buf, closed>>

(* Mutant: one byte more is read.                                          *)
ReadByteLate ==
  /\ readPc = "reading"
  /\ numRead <= Limit /\ numRead < Len(buf)
  /\ result' = result \cup ShiftLeft(buf[numRead + 1].data,
                                     (Group * numRead) % Width)
  /\ readPc' = IF buf[numRead + 1].more THEN "reading" ELSE "ok"
  /\ numRead' = numRead + 1
  /\ UNCHANGED <<writeVars, buf, closed>>

(* A shift by Width or more panics with overflow checks and is taken       *)
(* modulo Width without.                                                   *)
ReadByte ==
  /\ readPc = "reading"
  /\ numRead < Limit /\ numRead < Len(buf)
  /\ result' = result \cup ShiftLeft(buf[numRead + 1].data,
                                     (Group * numRead) % Width)
  /\ readPc' = IF buf[numRead + 1].more THEN "reading" ELSE "ok"
  /\ numRead' = numRead + 1
  /\ UNCHANGED <<writeVars, buf, closed>>

ReadPanics ==
  /\ readPc = "reading"
  /\ numRead < Limit /\ numRead < Len(buf)
  /\ Group * numRead >= Width
  /\ readPc' = "panic"
  /\ UNCHANGED <<writeVars, buf, closed, numRead, result>>

(* Mutant: an end of stream before the first byte is waited out.           *)
EofInside ==
  /\ readPc = "reading"
  /\ 0 < numRead /\ numRead < Limit /\ numRead = Len(buf) /\ closed
  /\ readPc' = "eof"
  /\ UNCHANGED <<writeVars, buf, closed, numRead, result>>

Eof ==
  /\ readPc = "reading"
  /\ numRead < Limit /\ numRead = Len(buf) /\ closed
  /\ readPc' = "eof"
  /\ UNCHANGED <<writeVars, buf, closed, numRead, result>>

Read == ReadByte \/ ReadPanics \/ TooBig \/ Eof

-----------------------------------------------------------------------------
Next == Write \/ WriteForeign \/ Close \/ Read

Spec == Init /\ [][Next]_vars

(* The loops go on while there is something to read or to write. A foreign *)
(* peer may stop anywhere.                                                 *)
FairSpec == Spec /\ WF_vars(Write) /\ WF_vars(Read)

-----------------------------------------------------------------------------
(* Type invariant of the writer, the stream and the reader. In particular  *)
(* a byte has no more than Group data bits.                                *)
TypeOK ==
  /\ sent \in SUBSET Bits /\ rest \in SUBSET Bits
  /\ writePc \in {"writing", "done", "foreign"}
  /\ buf \in Seq(Byte)
  /\ closed \in BOOLEAN
  /\ numRead \in 0 .. Limit /\ numRead <= Len(buf)
  /\ result \in SUBSET Bits
  /\ readPc \in {"reading", "ok", "too big", "eof", "panic"}

(* What the reader returns is the number that was written, however the two *)
(* loops interleave, and it has taken exactly that number's bytes off the  *)
(* stream, so that the next value starts where it should                   *)
(* (to_bytes/impls.rs:75-132, from_bytes/impls.rs:74-150).                 *)
RoundTrip ==
  writePc # "foreign" /\ readPc = "ok"
    => result = sent /\ writePc = "done" /\ numRead = Len(buf)

(* The reader has no reason to refuse what the writer wrote: no number is  *)
(* too big for the limit, no shift overflows, and the stream seems cut     *)
(* only when it was cut inside the number (from_bytes/impls.rs:84, 123).   *)
NoFalseAlarm ==
  writePc # "foreign" =>
    /\ readPc \notin {"too big", "panic"}
    /\ readPc = "eof" => writePc = "writing"

(* Both loops of the crate end: the number is read, or its stream was cut  *)
(* (to_bytes/impls.rs:95, from_bytes/impls.rs:104).                        *)
EveryNumberEnds == writePc = "writing" => <>(readPc \in {"ok", "eof"})

(* "VarLongs are at most 10 bytes long." (from_bytes/impls.rs:122; line 83 *)
(* says 5 of VarInts): a number the reader accepts took no more bytes than *)
(* its bits need. VarLong accepts one byte more.                           *)
AcceptedIsShort == readPc = "ok" => (numRead - 1) * Group < Width

(* Whatever bytes a peer writes, a reader that accepts them has stopped at *)
(* the first byte without the high bit, and bit i of what it returns is    *)
(* bit i % Group of byte i / Group: nothing is shifted out of place, and   *)
(* bits beyond Width are dropped. Only bytes beyond the ones that carry    *)
(* bits, which VarLong reads, can disturb it (from_bytes/impls.rs:96-106). *)
ForeignDecoded ==
  LET InWidth == (numRead - 1) * Group < Width IN
  /\ readPc = "ok" => \A k \in 1 .. numRead : buf[k].more <=> k < numRead
  /\ readPc = "ok" /\ InWidth =>
       result = {i \in Bits : /\ i \div Group < numRead
                             /\ i % Group \in buf[i \div Group + 1].data}
  /\ readPc = "panic" => numRead * Group >= Width

=============================================================================
