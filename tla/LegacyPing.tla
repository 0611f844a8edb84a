----------------------------- MODULE LegacyPing -----------------------------
(***************************************************************************)
(* Server list pings of clients older than 1.7, as one connection task     *)
(* answers them: handle, read_1_6, write_response, write_pre_1_4 and       *)
(* write_pre_1_7 of bws/src/networking/legacy_ping.rs, and handle and      *)
(* send_14_16_response of bws.old/src/serverbase/legacy_ping.rs, which     *)
(* classify, read and write the same way but for a response that is too    *)
(* long: bws refuses it, bws.old logs it and writes it.                    *)
(*                                                                         *)
(* The client has written request.bytes; arrived of them have reached the  *)
(* socket, in pieces of any size. handle looks once at what the first read *)
(* returned, later reads wait for the bytes they need. ctx.buf, which the  *)
(* reads and the writes share, is modelled by its length. A text is the    *)
(* number of its characters inside and outside the basic plane: one and    *)
(* two UTF-16 units each.                                                  *)
(***************************************************************************)
EXTENDS Integers, Sequences, SequencesExt

CONSTANTS
  Crates,      (* the handlers to look at: "bws", "bws.old"                *)
  Requests,    (* [kind, bytes, payload]: what clients write first         *)
  Texts,       (* [bmp, astral]: texts an event handler may put together   *)
  MaxLength    (* 256                                                      *)

Kinds == {"pre14", "pre16", "pre17", "modern"}
Byte == 0 .. 255
MaxU16 == 65535
Unit == 0 .. MaxU16
Payload == [protocol : Byte, hostname : Seq(Unit), port : Unit]

ASSUME LegacyPingAssumption ==
  /\ Crates \subseteq {"bws", "bws.old"}
  /\ Requests \subseteq [kind : Kinds, bytes : Seq(Byte), payload : Payload]
  /\ Texts \subseteq [bmp : Nat, astral : Nat]
  /\ MaxLength \in Nat /\ 2 * MaxLength <= MaxU16

U16(bytes) == 256 * bytes[1] + bytes[2]

Units(bytes) == [k \in 1 .. Len(bytes) \div 2 |-> U16(SubSeq(bytes, 2 * k - 1, 2 * k))]

(* from_utf16_lossy: a surrogate that is not half of a pair becomes        *)
(* U+FFFD. A String is the sequence of the units of its UTF-16.            *)
High(unit) == unit >= 55296 /\ unit < 56320
Low(unit) == unit >= 56320 /\ unit < 57344
Replacement == 65533

Paired(units, k) ==
  \/ High(units[k]) /\ k + 1 \in DOMAIN units /\ Low(units[k + 1])
  \/ Low(units[k]) /\ k - 1 \in DOMAIN units /\ High(units[k - 1])

Lone(units, k) == (High(units[k]) \/ Low(units[k])) /\ ~Paired(units, k)

Lossy(units) == [k \in DOMAIN units |-> IF Lone(units, k) THEN Replacement ELSE units[k]]

(* The layout of a 1.6 ping: 27 bytes that begin with these three, the     *)
(* length of what follows with 7 to spare, the protocol, the length of the *)
(* hostname, the hostname and four bytes of port.                          *)
Starts16(r) == IsPrefix(<<254, 1, 250>>, r.bytes)

HostLen(r) == (U16(SubSeq(r.bytes, 28, 29)) - 7) % 65536

Announced(r) ==
  [protocol |-> r.bytes[30],
   hostname |-> Units(SubSeq(r.bytes, 33, 32 + HostLen(r))),
   port     |-> 256 * r.bytes[35 + HostLen(r)] + r.bytes[36 + HostLen(r)]]

(* A client that writes as many bytes as it announces, and whole units,    *)
(* means what it writes.                                                   *)
ASSUME RequestsAssumption ==
  \A r \in Requests :
    Starts16(r) /\ HostLen(r) % 2 = 0 /\ Len(r.bytes) >= 36 + HostLen(r)
      => Len(r.bytes) = 36 + HostLen(r) /\ r.payload = Announced(r)

VARIABLES
  crate,      (* whose handler this is                                     *)
  request,    (* the client's                                              *)
  arrived,    (* how many of its bytes are at the server                   *)
  closed,     (* the client has closed its end: no more will arrive        *)
  pc,         (* where handle is                                           *)
  consumed,   (* bytes taken from the stream                               *)
  pingType,   (* "none" or one of Kinds                                    *)
  bufLen,     (* ctx.buf.len()                                             *)
  hostLen,    (* hostname_len                                              *)
  payload,    (* what the event handlers are given                         *)
  response,   (* [text, extra]: motd, online and max_players; protocol     *)
              (* and version. Or the empty sequence for None.              *)
  output      (* [stale, field, units], what was written, or empty         *)

clientVars == <<crate, request, arrived, closed>>
pingVars == <<pc, consumed, pingType, bufLen, hostLen, payload, response, output>>
vars == <<clientVars, pingVars>>

NoPayload == [protocol |-> 0, hostname |-> << >>, port |-> 0]

Init ==
  /\ crate \in Crates
  /\ request \in Requests
  /\ arrived = 0
  /\ closed = FALSE
  /\ pc = "fill"
  /\ consumed = 0
  /\ pingType = "none"
  /\ bufLen = 0
  /\ hostLen = 0
  /\ payload = NoPayload
  /\ response = << >>
  /\ output = << >>

-----------------------------------------------------------------------------
(* The client and the network                                              *)

Deliver ==
  /\ ~closed
  /\ arrived' \in arrived + 1 .. Len(request.bytes)
  /\ UNCHANGED <<crate, request, closed, pingVars>>

Close ==
  /\ ~closed
  /\ closed' = TRUE
  /\ UNCHANGED <<crate, request, arrived, pingVars>>

-----------------------------------------------------------------------------
(* handle: the first read                                                  *)

(* Mutant: any first byte FE is a ping.                                    *)
ClassifiedByFirst(bytes) ==
  CASE bytes = <<254>>                           -> "pre14"
    [] IsPrefix(<<254, 1, 250>>, bytes)          -> "pre17"
    [] IsPrefix(<<254>>, bytes)                  -> "pre16"
    [] OTHER                                     -> "modern"

Classified(bytes) ==
  CASE bytes = <<254>>                           -> "pre14"
    [] bytes = <<254, 1>>                        -> "pre16"
    [] IsPrefix(<<254, 1, 250>>, bytes)          -> "pre17"
    [] OTHER                                     -> "modern"

Classify ==
  /\ pc = "fill"
  /\ arrived > 0 \/ closed
  /\ pingType' = Classified(SubSeq(request.bytes, 1, arrived))
  /\ pc' = CASE pingType' = "modern" -> "not a ping"
             [] pingType' = "pre17"  -> "prefix"
             [] OTHER                -> "events"
  /\ UNCHANGED <<clientVars, consumed, bufLen, hostLen, payload, response, output>>

-----------------------------------------------------------------------------
(* read_1_6: a chain of reads, each waiting for its bytes                  *)

Taken(n) == SubSeq(request.bytes, consumed + 1, consumed + n)

(* Mutant: a read does not wait for all of its bytes.                      *)
TakeSome(from, n, to) ==
  /\ pc = from
  /\ arrived > consumed
  /\ consumed' = consumed + n
  /\ pc' = to
  /\ UNCHANGED <<clientVars, pingType, response, output>>

(* The read at position from takes n bytes off the stream.                 *)
Take(from, n, to) ==
  /\ pc = from
  /\ arrived - consumed >= n
  /\ consumed' = consumed + n
  /\ pc' = to
  /\ UNCHANGED <<clientVars, pingType, response, output>>

Needs == [prefix |-> 27, len |-> 2, protocol |-> 1, again |-> 2,
          hostname |-> hostLen, port |-> 4]

(* The stream has ended inside the ping, or failed where a read or a write *)
(* was going on: a reset may take bytes with it that had arrived.          *)

(* Mutant: an end of stream inside the ping is waited out.                 *)
StreamFailsAtEnds ==
  /\ closed
  /\ pc \in {"fill", "write"}
  /\ pc' = "failed"
  /\ UNCHANGED <<clientVars, consumed, pingType, bufLen, hostLen, payload, response,
                 output>>

StreamFails ==
  /\ closed
  /\ pc \in {"fill", "write"} \cup DOMAIN Needs
  /\ pc' = "failed"
  /\ UNCHANGED <<clientVars, consumed, pingType, bufLen, hostLen, payload, response,
                 output>>

ReadPrefix ==
  /\ Take("prefix", Needs["prefix"], "len")
  /\ bufLen' = 27
  /\ UNCHANGED <<hostLen, payload>>

(* The subtraction panics if it overflows, or wraps at 16 bits.            *)
ReadLen ==
  /\ Take("len", Needs["len"], "protocol")
  /\ hostLen' = (U16(Taken(2)) - 7) % 65536
  /\ UNCHANGED <<bufLen, payload>>

(* Mutant: the length of an empty hostname is taken for too small.         *)
ReadLenPanicsAt7 ==
  /\ pc = "len" /\ arrived - consumed >= 2
  /\ U16(Taken(2)) <= 7
  /\ consumed' = consumed + 2
  /\ pc' = "failed"
  /\ UNCHANGED <<clientVars, pingType, bufLen, hostLen, payload, response, output>>

ReadLenPanics ==
  /\ pc = "len" /\ arrived - consumed >= 2
  /\ U16(Taken(2)) < 7
  /\ consumed' = consumed + 2
  /\ pc' = "failed"
  /\ UNCHANGED <<clientVars, pingType, bufLen, hostLen, payload, response, output>>

ReadProtocol ==
  /\ Take("protocol", Needs["protocol"], "again")
  /\ payload' = [payload EXCEPT !.protocol = Taken(1)[1]]
  /\ UNCHANGED <<bufLen, hostLen>>

ReadAgain ==
  /\ Take("again", Needs["again"], "hostname")
  /\ bufLen' = hostLen
  /\ UNCHANGED <<hostLen, payload>>

(* An odd length leaves a chunk of one byte: the index pair[1] panics.     *)
ReadHostname ==
  /\ Take("hostname", hostLen, IF hostLen % 2 = 0 THEN "port" ELSE "failed")
  /\ payload' = IF hostLen % 2 = 0
                THEN [payload EXCEPT !.hostname = Lossy(Units(Taken(hostLen)))]
                ELSE payload
  /\ UNCHANGED <<bufLen, hostLen>>

(* Mutant: the upper half.                                                 *)
ReadPortHigh ==
  /\ Take("port", Needs["port"], "events")
  /\ payload' = [payload EXCEPT !.port = U16(SubSeq(Taken(4), 1, 2))]
  /\ UNCHANGED <<bufLen, hostLen>>

(* read_i32 as u16: the low half.                                          *)
ReadPort ==
  /\ Take("port", Needs["port"], "events")
  /\ payload' = [payload EXCEPT !.port = U16(SubSeq(Taken(4), 3, 4))]
  /\ UNCHANGED <<bufLen, hostLen>>

Read1_6 ==
  \/ ReadPrefix \/ ReadLen \/ ReadLenPanics \/ ReadProtocol
  \/ ReadAgain \/ ReadHostname \/ ReadPort

-----------------------------------------------------------------------------
(* The event handlers, called one after the other, leave a response or     *)
(* none.                                                                   *)
Events ==
  /\ pc = "events"
  /\ \/ pc' = "answered" /\ UNCHANGED response
     \/ /\ pc' = "write"
        /\ \E text, extra \in Texts : response' = [text |-> text, extra |-> extra]
  /\ UNCHANGED <<clientVars, consumed, pingType, bufLen, hostLen, payload, output>>

(* write_response                                                          *)

Chars(t) == t.bmp + t.astral
Utf16(t) == t.bmp + 2 * t.astral

(* Four delimiters and three units of prefix count too.                    *)
TooLong(r) == Chars(r.text) + Chars(r.extra) + 4 + 3 > MaxLength

Refused == crate = "bws" /\ TooLong(response)

WriteTooLong ==
  /\ pc = "write"
  /\ Refused
  /\ pc' = "failed"
  /\ UNCHANGED <<clientVars, consumed, pingType, bufLen, hostLen, payload, response,
                 output>>

(* write_pre_1_4 appends to the buffer as it finds it. Two delimiters.     *)
WritePre1_4 ==
  /\ pc = "write"
  /\ ~Refused
  /\ pingType = "pre14"
  /\ output' = [stale |-> bufLen,
                field |-> (Chars(response.text) + 2) % 65536,
                units |-> Utf16(response.text) + 2]
  /\ bufLen' = bufLen + 3 + 2 * (Utf16(response.text) + 2)
  /\ pc' = "answered"
  /\ UNCHANGED <<clientVars, consumed, pingType, hostLen, payload, response>>

(* Three units of prefix and four separators.                              *)
UnitsOf1_7(r) == 3 + Utf16(r.text) + Utf16(r.extra) + 4

(* Mutant: the buffer is not cleared.                                      *)
WritePre1_7Stale ==
  /\ pc = "write"
  /\ ~Refused
  /\ pingType \in {"pre16", "pre17"}
  /\ LET units == UnitsOf1_7(response) IN
       /\ output' = [stale |-> bufLen, field |-> units % 65536, units |-> units]
       /\ bufLen' = bufLen + 3 + 2 * units
  /\ pc' = "answered"
  /\ UNCHANGED <<clientVars, consumed, pingType, hostLen, payload, response>>

(* write_pre_1_7 (bws.old: send_14_16_response) clears it.                 *)
WritePre1_7 ==
  /\ pc = "write"
  /\ ~Refused
  /\ pingType \in {"pre16", "pre17"}
  /\ LET units == UnitsOf1_7(response) IN
       /\ output' = [stale |-> 0, field |-> units % 65536, units |-> units]
       /\ bufLen' = 3 + 2 * units
  /\ pc' = "answered"
  /\ UNCHANGED <<clientVars, consumed, pingType, hostLen, payload, response>>

-----------------------------------------------------------------------------
Handle ==
  Classify \/ Read1_6 \/ StreamFails \/ Events \/ WriteTooLong \/ WritePre1_4 \/ WritePre1_7

Next == Deliver \/ Close \/ Handle

Spec == Init /\ [][Next]_vars

(* The task is polled when its bytes are there; the client may stall.      *)
FairSpec == Spec /\ WF_vars(Handle)

Finished == pc \in {"not a ping", "answered", "failed"}

-----------------------------------------------------------------------------
TypeOK ==
  /\ request \in Requests
  /\ arrived \in 0 .. Len(request.bytes)
  /\ consumed \in 0 .. arrived
  /\ pingType \in Kinds \cup {"none"}
  /\ bufLen \in Nat /\ hostLen \in Unit
  /\ payload \in Payload

(* A request that was read in one piece is taken for what it is; one that  *)
(* is not a legacy ping is left on the stream for the handshake            *)
(* (legacy_ping.rs:40-53).                                                 *)
WholeRequestRecognised ==
  /\ [][Classify /\ arrived = Len(request.bytes) => pingType' = request.kind]_vars
  /\ [](pc = "not a ping" => consumed = 0)

(* However the bytes of a 1.6 ping come in, the handlers see the protocol  *)
(* and port the client wrote and its hostname, in which nothing but a lone *)
(* surrogate can differ from what was written, and nothing of the ping is  *)
(* left on the stream (legacy_ping.rs:146-172).                            *)
PayloadIsTheClients ==
  pingType = "pre17" /\ pc \in {"events", "write", "answered"} =>
    LET written == request.payload IN
      /\ payload.protocol = written.protocol /\ payload.port = written.port
      /\ DOMAIN payload.hostname = DOMAIN written.hostname
      /\ \A k \in DOMAIN written.hostname :
           IF Lone(written.hostname, k) THEN payload.hostname[k] = Replacement
           ELSE payload.hostname[k] = written.hostname[k]
      /\ consumed = Len(request.bytes)

(* The client's own bytes make the task fail only if it announces a        *)
(* hostname that cannot be: a length below the 7 that is subtracted, or an *)
(* odd one. Every other failure is the handlers' (a response that is too   *)
(* long) or follows a hang-up (legacy_ping.rs:85-89, 151, 157-163).        *)
OnlyMalformedPanics ==
  pc = "failed" /\ ~closed =>
    \/ response # << >> /\ Refused
    \/ /\ Starts16(request) /\ Len(request.bytes) >= 29
       /\ U16(SubSeq(request.bytes, 28, 29)) < 7 \/ HostLen(request) % 2 # 0

(* A response starts at its packet id, without leftovers of the request in *)
(* the shared buffer. Its length field is the number of the 16-bit units   *)
(* that follow, except before 1.4 for text outside the basic plane. In bws *)
(* it keeps, for text of that plane, the limit that was checked in         *)
(* characters; in bws.old, where nothing stops a longer one, the field     *)
(* lies as soon as it does not fit 16 bits (legacy_ping.rs:78-90, 106-113, *)
(* 118-142; bws.old's:97-111, 193-204).                                    *)
ResponseFramed ==
  output # << >> =>
    /\ output.stale = 0
    /\ pingType # "pre14" \/ response.text.astral = 0
         => output.field = (IF crate = "bws" THEN output.units ELSE output.units % 65536)
    /\ crate = "bws" /\ response.text.astral + response.extra.astral = 0
         => output.field <= MaxLength

(* A client that hangs up does not keep the task: handle returns.          *)
HangUpEndsTask == closed ~> Finished

(* "[0xFE] ... Legacy ping before 1.4", "[0xFE, 0x01] ... Legacy ping      *)
(* before 1.6" (legacy_ping.rs:41-42): the type found is the client's. It  *)
(* is not if the network splits the request.                               *)
TypeIsTheClients == pingType # "none" /\ ~closed => pingType = request.kind

=============================================================================
