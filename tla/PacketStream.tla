---------------------------- MODULE PacketStream ----------------------------
(***************************************************************************)
(* Packets over one direction of a TCP stream: write_packet at one end,    *)
(* read_packet at the other (bws.old/src/serverbase.rs:288-334), with the  *)
(* codecs of Wire and the packet types of Packets. The writer is this      *)
(* crate, or a peer whose frames are its own; the bytes arrive in pieces   *)
(* and the stream may be cut anywhere. The reader asks for any packet type *)
(* of its direction, as each phase of a connection asks for its own.       *)
(***************************************************************************)
EXTENDS Packets

CONSTANTS
  OwnPackets,      (* [type, value]: what users of this crate write        *)
  ForeignBodies,   (* [type, body]: what others put into a frame; type is  *)
                   (* one of the direction                                 *)
  ForeignPrefixes, (* what others may write instead of a frame             *)
  MaxFrames        (* bound on the frames of a behaviour                   *)

ASSUME PacketStreamAssumption ==
  /\ \A p \in OwnPackets : p.type \in DOMAIN PacketType
                           /\ p.value \in Values(PacketType[p.type])
  /\ \A f \in ForeignBodies : /\ f.type \in DOMAIN PacketType
                              /\ f.body \in Bytes /\ Len(f.body) <= LengthLimit
  /\ ForeignPrefixes \subseteq Bytes
  /\ MaxFrames \in Nat

Sides == [SB |-> {"SBHandshake", "SBStatus", "SBLogin"}, CB |-> {"CBStatus", "CBLogin"}]

VARIABLES
  side,       (* which direction this stream is                            *)
  stream,     (* all bytes written                                         *)
  arrived,    (* how many of them are at the reader                        *)
  closed,     (* no more will arrive                                       *)
  sent,       (* per frame [by, type, value, first, size]: who wrote what, *)
              (* from where in the stream, and the size of its body        *)
  pc,         (* the reader: "length", "body", "failed" or "panicked"      *)
  consumed,   (* bytes it has taken                                        *)
  length,     (* packet_length                                             *)
  read        (* per decoded frame [type, first, kind, value]              *)

netVars == <<stream, arrived, closed, sent>>
readVars == <<pc, consumed, length, read>>
vars == <<side, netVars, readVars>>

Init ==
  /\ side \in DOMAIN Sides
  /\ stream = << >> /\ arrived = 0 /\ closed = FALSE /\ sent = << >>
  /\ pc = "length" /\ consumed = 0 /\ length = 0 /\ read = << >>

-----------------------------------------------------------------------------
(* The writer is ahead of the network. It never looks at the reader, so    *)
(* nothing is lost: bytes that have not arrived may be yet to be written.  *)
MayWrite == ~closed /\ arrived = 0 /\ Len(sent) < MaxFrames

Put(bytes, by, type, value, size) ==
  /\ MayWrite
  /\ stream' = stream \o bytes
  /\ sent' = Append(sent, [by |-> by, type |-> type, value |-> value,
                           first |-> Len(stream), size |-> size])
  /\ UNCHANGED <<side, arrived, closed, readVars>>

(* Mutant: a packet that is too long is announced as the longest there is. *)
AsI32Saturating(n) == Min({n, LengthLimit})

(* len as i32                                                              *)
AsI32(n) == ((n + LengthLimit + 1) % (2 * (LengthLimit + 1))) - (LengthLimit + 1)

(* write_packet: the packet is written twice, first to count its bytes. It *)
(* is one of the direction's types or, from a queue, in its wrapper. If    *)
(* the count fails nothing is written: that is no step.                    *)
WritePacket(p) ==
  /\ MayWrite /\ p.type \in Sides[side]
  /\ \E packet \in {PacketType[p.type].write[p.value],
                    Wrapper[p.type].write[Wrapped(p.type, p.value)]} :
       /\ packet.ok
       /\ Put(VarIntBytes(AsI32(packet.written)) \o packet.bytes,
              "own", p.type, p.value, packet.written)

WriteForeign ==
  \/ \E f \in ForeignBodies :
       /\ f.type \in Sides[side]
       /\ Put(VarIntBytes(Len(f.body)) \o f.body, "foreign", f.type, f.body, Len(f.body))
  \/ \E bytes \in ForeignPrefixes : Put(bytes, "unframed", "none", << >>, 0)

Deliver ==
  /\ ~closed /\ arrived < Len(stream)
  /\ arrived' = arrived + 1
  /\ UNCHANGED <<side, stream, closed, sent, readVars>>

Close ==
  /\ ~closed
  /\ closed' = TRUE
  /\ UNCHANGED <<side, stream, arrived, sent, readVars>>

-----------------------------------------------------------------------------
(* read_packet                                                             *)

Available == SubSeq(stream, consumed + 1, arrived)

(* Mutant: a negative length is not noticed.                               *)
ReadLengthUnchecked ==
  /\ pc = "length"
  /\ LET len == ReadVarInt(Available) IN
       \/ /\ len.kind = "ok"
          /\ length' = len.value
          /\ consumed' = arrived - Len(len.rest)
          /\ pc' = "body"
       \/ /\ len.kind = "data"
          /\ pc' = "failed"
          /\ UNCHANGED <<consumed, length>>
  /\ UNCHANGED <<side, netVars, read>>

(* read_packet_length, then the resize, which panics for a negative one.   *)
ReadLength ==
  /\ pc = "length"
  /\ LET len == ReadVarInt(Available) IN
       \/ /\ len.kind = "ok"
          /\ length' = len.value
          /\ consumed' = arrived - Len(len.rest)
          /\ pc' = IF len.value < 0 THEN "panicked" ELSE "body"
       \/ /\ len.kind = "data"
          /\ pc' = "failed"
          /\ UNCHANGED <<consumed, length>>
  /\ UNCHANGED <<side, netVars, read>>

Decoded(type, packet) ==
  /\ read' = Append(read, [type |-> type, first |-> consumed, kind |-> packet.kind,
                           value |-> packet.value])
  /\ pc' = CASE packet.kind = "ok"    -> "length"
             [] packet.kind = "panic" -> "panicked"
             [] OTHER                 -> "failed"

(* Mutant: what is left of the frame stays on the stream.                  *)
ReadBodyLeavesRest(type) ==
  /\ pc = "body" /\ type \in Sides[side]
  /\ Len(Available) >= length
  /\ LET packet == PacketType[type].read[SubSeq(Available, 1, length)] IN
       /\ Decoded(type, packet)
       /\ consumed' = consumed + length - Len(packet.rest)
  /\ UNCHANGED <<side, netVars, length>>

(* read_exact of the whole frame, then P::read_from on it alone; what the  *)
(* packet does not need of the frame is dropped with the buffer.           *)
ReadBody(type) ==
  /\ pc = "body" /\ type \in Sides[side]
  /\ Len(Available) >= length
  /\ Decoded(type, PacketType[type].read[SubSeq(Available, 1, length)])
  /\ consumed' = consumed + length
  /\ UNCHANGED <<side, netVars, length>>

(* The stream ends, or a reset takes bytes that had arrived with it.       *)
StreamFails ==
  /\ pc \in {"length", "body"} /\ closed
  /\ pc' = "failed"
  /\ UNCHANGED <<side, netVars, consumed, length, read>>

-----------------------------------------------------------------------------
Next ==
  \/ \E p \in OwnPackets : WritePacket(p)
  \/ WriteForeign \/ Deliver \/ Close
  \/ ReadLength \/ StreamFails
  \/ \E type \in DOMAIN PacketType : ReadBody(type)

Spec == Init /\ [][Next]_vars

-----------------------------------------------------------------------------
(* The variables have their types: the reader takes nothing that has not   *)
(* arrived and gives nothing back, and it waits for no frame whose length  *)
(* is negative (serverbase.rs:325-330).                                    *)
TypeOK ==
  /\ side \in DOMAIN Sides
  /\ arrived \in 0 .. Len(stream)
  /\ consumed \in 0 .. arrived
  /\ length \in Int
  /\ pc \in {"length", "body", "failed", "panicked"}
  /\ (pc = "body" => length \in Nat)

Framed(k) ==
  /\ k <= Len(sent)
  /\ \A j \in 1 .. k : sent[j].by # "unframed" /\ sent[j].size <= LengthLimit

(* Each packet is read from the body of the frame it was written into,     *)
(* whoever wrote the frames before it, with whatever types those were      *)
(* read, and however much of them the decoders needed: nobody ever reads   *)
(* from the middle of a frame, or finds more frames than there are         *)
(* (serverbase.rs:312-332).                                                *)
FramesAligned ==
  \A k \in DOMAIN read :
    /\ Framed(k - 1) => k <= Len(sent)
    /\ Framed(k) => read[k].first = sent[k].first + Len(VarIntBytes(sent[k].size))

(* A packet with a JSON value in it, which is written as a string and read *)
(* without its length, can be read only if that length, a byte, is one     *)
(* that JSON takes for whitespace.                                         *)
CarriesJson(type, value) ==
  type \in {"CBStatus", "CBLogin"} /\ value[1] = 1

Readable(p) ==
  CarriesJson(p.type, p.value) => Len(p.value[2]) \in Whitespace

(* A packet of this crate, read as the type it was written as, is read as  *)
(* the value it was, from the type itself or in its wrapper, after however *)
(* many pieces and frames. Whoever wrote a frame, the reader panics only   *)
(* over what is in it, never over its length. (serverbase.rs:312-332)      *)
OwnPacketsRead ==
  /\ \A k \in DOMAIN read :
       Framed(k) /\ sent[k].by = "own" /\ read[k].type = sent[k].type =>
         IF Readable(sent[k])
         THEN read[k].kind = "ok" /\ read[k].value = sent[k].value
         ELSE read[k].kind = "json"
  /\ pc = "panicked" /\ Framed(Len(read) + 1) =>
       \E k \in DOMAIN read : read[k].kind = "panic"

(* A packet that is longer than its length can say: each of its parts is   *)
(* within the limit, and nothing looks at their sum.                       *)
Oversize(k) ==
  /\ sent[k].by = "own"
  /\ LengthLimit < sent[k].size /\ sent[k].size <= 2 * LengthLimit + 1

(* Nobody takes a piece of such a packet for a packet: the reader comes to *)
(* an end over the length of its frame (serverbase.rs:314-315, 327-329).   *)
OversizeNotDecoded ==
  \A k \in DOMAIN sent : Oversize(k) /\ Framed(k - 1) => Len(read) < k

(* The decoder takes nothing for a packet that the encoder cannot say:     *)
(* what it accepts, from whomever and as whatever type, can be written, is *)
(* then read as the same packet to its end, and is no longer than it came. *)
AcceptedReencodes ==
  \A k \in DOMAIN read :
    Framed(k) /\ read[k].kind = "ok" /\ ~CarriesJson(read[k].type, read[k].value) =>
      LET type == PacketType[read[k].type]
          packet == type.write[read[k].value]
      IN
        /\ packet.ok /\ packet.written <= sent[k].size
        /\ type.read[packet.bytes] = Ok(read[k].value, << >>)

=============================================================================
