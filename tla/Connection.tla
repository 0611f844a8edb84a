----------------------------- MODULE Connection -----------------------------
(***************************************************************************)
(* One connection of bws.old after the legacy phase: the select! phases of *)
(* handle_conn, handle_conn_status and handle_conn_login, with read_packet *)
(* and write_packet of StreamCtx (bws.old/src/serverbase.rs:101-334).      *)
(*                                                                         *)
(* A frame is a packet id and what its body carries; Empty is a body with  *)
(* no bytes. What a frame means depends on the phase in which it is read   *)
(* (protocol/src/packets). Reads and writes wait for the client; while     *)
(* they do, a shutdown may drop the whole phase.                           *)
(***************************************************************************)
EXTENDS Integers, Sequences, ServerHash

CONSTANTS
  Frames,       (* [id, data] a client may send                            *)
  Digests,      (* what the hash of a secret and the key may be            *)
  MaxFrames     (* bound on the frames of one client                       *)

Data == {"status", "login", "echo", "other", "name", "Empty"}

ASSUME ConnectionAssumption ==
  /\ Frames \subseteq [id : 0 .. 3, data : Data]
  /\ Digests \subseteq Seq(0 .. 255) \ {<< >>}
  /\ MaxFrames \in Nat

VARIABLES
  inbox,     (* frames sent and not yet read                               *)
  nSent,     (* frames sent                                                *)
  closed,    (* the client has closed the connection                       *)
  read,      (* the frames read_packet has returned or failed on           *)
  pc,        (* "handshake", "status", "login", "encryption": reading;     *)
             (* "writing"; "lookup" (session server); "done"               *)
  frameOut,  (* the frame being written                                    *)
  after,     (* pc when it is written                                      *)
  out,       (* frames written completely                                  *)
  cipher,    (* ctx.cipher is Some(_)                                      *)
  player,    (* the name asked for at the session server                   *)
  digest,    (* the hash of the secret and the key                         *)
  serverId   (* [negative, bytes], what the session server is asked for    *)

clientVars == <<inbox, nSent, closed>>
queryVars == <<cipher, player, digest, serverId>>
taskVars == <<read, pc, frameOut, after, out, queryVars>>
vars == <<clientVars, taskVars>>

Nobody == "nobody"
NoFrame == [id |-> 0, data |-> "Empty"]
NoId == [negative |-> FALSE, bytes |-> << >>]

Init ==
  /\ inbox = << >> /\ nSent = 0 /\ closed = FALSE
  /\ read = << >> /\ pc = "handshake"
  /\ frameOut = NoFrame /\ after = "done" /\ out = << >>
  /\ cipher = FALSE /\ player = Nobody /\ digest = << >> /\ serverId = NoId

-----------------------------------------------------------------------------
(* The client sends what it likes, ahead of the answers too.               *)

Send(f) ==
  /\ ~closed /\ nSent < MaxFrames
  /\ inbox' = Append(inbox, f)
  /\ nSent' = nSent + 1
  /\ UNCHANGED <<closed, taskVars>>

Close ==
  /\ ~closed
  /\ closed' = TRUE
  /\ UNCHANGED <<inbox, nSent, taskVars>>

-----------------------------------------------------------------------------
(* read_packet: the next frame, if it is one of the packet type of the     *)
(* phase. An error ends the phase and the task. A stream that the client   *)
(* has closed may fail before all the frames are read: a reset loses them. *)

Decodes(phase, f) ==
  CASE phase = "handshake" -> f.id = 0 /\ f.data \in {"status", "login"}
    [] phase = "status"    -> f.id = 0 \/ (f.id = 1 /\ f.data # "Empty")
    [] OTHER               -> f.id \in 0 .. 2 /\ f.data # "Empty"

(* Mutant: the frame is left on the stream.                                *)
TakePeek(phase) ==
  /\ pc = phase
  /\ inbox # << >>
  /\ read' = Append(read, Head(inbox))
  /\ UNCHANGED clientVars

Take(phase) ==
  /\ pc = phase
  /\ inbox # << >>
  /\ read' = Append(read, Head(inbox))
  /\ inbox' = Tail(inbox)
  /\ UNCHANGED <<nSent, closed>>

Reading == {"handshake", "status", "login", "encryption"}

(* Mutant: the end of the stream is waited out.                            *)
ReadFailsToDecode ==
  /\ pc \in Reading
  /\ pc' = "done"
  /\ Take(pc) /\ ~Decodes(pc, Head(inbox))
  /\ UNCHANGED <<frameOut, after, out, queryVars>>

ReadFails ==
  /\ pc \in Reading
  /\ pc' = "done"
  /\ \/ closed /\ UNCHANGED <<clientVars, read>>
     \/ Take(pc) /\ ~Decodes(pc, Head(inbox))
  /\ UNCHANGED <<frameOut, after, out, queryVars>>

(* write_packet: the phase waits until the frame is written.               *)
StartWrite(f, next) ==
  /\ frameOut' = f
  /\ after' = next
  /\ pc' = "writing"

WriteDone ==
  /\ pc = "writing"
  /\ out' = Append(out, frameOut)
  /\ pc' = after
  /\ UNCHANGED <<clientVars, read, frameOut, after, queryVars>>

WriteFails ==
  /\ pc = "writing" /\ closed
  /\ pc' = "done"
  /\ UNCHANGED <<clientVars, read, frameOut, after, out, queryVars>>

-----------------------------------------------------------------------------
Handshake ==
  /\ Take("handshake") /\ Decodes("handshake", Head(inbox))
  /\ pc' = Head(inbox).data
  /\ UNCHANGED <<frameOut, after, out, queryVars>>

(* Mutant: the response is not waited for.                                 *)
StatusRequestUnawaited ==
  /\ Take("status") /\ Head(inbox).id = 0
  /\ pc' \in {"status", "done"}
  /\ UNCHANGED <<frameOut, after, out, queryVars>>

(* server.ping may give a response or none, which ends the connection.     *)
StatusRequest ==
  /\ Take("status") /\ Head(inbox).id = 0
  /\ \/ StartWrite([id |-> 0, data |-> "status"], "status")
     \/ pc' = "done" /\ UNCHANGED <<frameOut, after>>
  /\ UNCHANGED <<out, queryVars>>

(* Mutant: the connection stays open after the pong.                       *)
PingRequestStays ==
  /\ Take("status") /\ Head(inbox).id = 1 /\ Decodes("status", Head(inbox))
  /\ StartWrite([id |-> 1, data |-> Head(inbox).data], "status")
  /\ UNCHANGED <<out, queryVars>>

PingRequest ==
  /\ Take("status") /\ Head(inbox).id = 1 /\ Decodes("status", Head(inbox))
  /\ StartWrite([id |-> 1, data |-> Head(inbox).data], "done")
  /\ UNCHANGED <<out, queryVars>>

(* A packet of another kind ends the task.                                 *)
NotFollowingFormat(phase, id) ==
  /\ Take(phase) /\ Decodes(phase, Head(inbox)) /\ Head(inbox).id # id
  /\ pc' = "done"
  /\ UNCHANGED <<frameOut, after, out, queryVars>>

(* The encryption request carries the token of this connection.            *)
LoginStart ==
  /\ Take("login") /\ Decodes("login", Head(inbox)) /\ Head(inbox).id = 0
  /\ StartWrite([id |-> 1, data |-> "echo"], "encryption")
  /\ UNCHANGED <<out, queryVars>>

Verified(f) == f.data = "echo"

(* Mutant: the token is not compared.                                      *)
EncryptionUnverified ==
  /\ Take("encryption") /\ Decodes("encryption", Head(inbox)) /\ Head(inbox).id = 1
  /\ Head(inbox).data \in {"echo", "other"}
  /\ cipher' = TRUE
  /\ player' = read[2].data
  /\ digest' \in Digests
  /\ serverId' = ServerId(digest')
  /\ pc' = "lookup"
  /\ UNCHANGED <<frameOut, after, out>>

(* The token and the secret decrypt and the token is the one sent.         *)
EncryptionResponse ==
  /\ Take("encryption") /\ Decodes("encryption", Head(inbox)) /\ Head(inbox).id = 1
  /\ Verified(Head(inbox))
  /\ cipher' = TRUE
  /\ player' = read[2].data
  /\ digest' \in Digests
  /\ serverId' = ServerId(digest')
  /\ pc' = "lookup"
  /\ UNCHANGED <<frameOut, after, out>>

(* Mutant: the client may try again.                                       *)
WrongTokenAgain ==
  /\ Take("encryption") /\ Decodes("encryption", Head(inbox)) /\ Head(inbox).id = 1
  /\ Head(inbox).data = "other"
  /\ StartWrite([id |-> 0, data |-> "other"], "encryption")
  /\ UNCHANGED <<out, queryVars>>

WrongToken ==
  /\ Take("encryption") /\ Decodes("encryption", Head(inbox)) /\ Head(inbox).id = 1
  /\ Head(inbox).data = "other"
  /\ StartWrite([id |-> 0, data |-> "other"], "done")
  /\ UNCHANGED <<out, queryVars>>

(* The token or the secret does not decrypt, or the secret is not the 16   *)
(* bytes of a key: the task panics.                                        *)
Undecryptable ==
  /\ Take("encryption") /\ Decodes("encryption", Head(inbox)) /\ Head(inbox).id = 1
  /\ Head(inbox).data \notin {"echo", "other"}
  /\ pc' = "done"
  /\ UNCHANGED <<frameOut, after, out, queryVars>>

(* The session server answers, or the task panics: nothing comes after it. *)
LookupEnds ==
  /\ pc = "lookup"
  /\ pc' = "done"
  /\ UNCHANGED <<clientVars, read, frameOut, after, out, queryVars>>

(* The wait for the shutdown wins the select! of the phase.                *)
ShutdownHeard ==
  /\ pc # "done"
  /\ pc' = "done"
  /\ UNCHANGED <<clientVars, read, frameOut, after, out, queryVars>>

-----------------------------------------------------------------------------
Task ==
  \/ ReadFails \/ WriteDone \/ WriteFails \/ Handshake
  \/ StatusRequest \/ PingRequest
  \/ LoginStart \/ NotFollowingFormat("login", 0)
  \/ EncryptionResponse \/ WrongToken \/ Undecryptable
  \/ NotFollowingFormat("encryption", 1)

Next ==
  \/ \E f \in Frames : Send(f)
  \/ Close \/ Task \/ LookupEnds \/ ShutdownHeard

Spec == Init /\ [][Next]_vars

(* The task is polled when it can go on; a write to a client that has      *)
(* closed ends one way or the other. Nothing is assumed of the client,     *)
(* which may leave what is written to it unread, of the session server or  *)
(* of a shutdown.                                                          *)
Progress == Task /\ (pc = "writing" => closed)

FairSpec == Spec /\ WF_vars(Progress)

-----------------------------------------------------------------------------
TypeOK ==
  /\ inbox \in Seq(Frames) /\ read \in Seq(Frames)
  /\ nSent \in 0 .. MaxFrames /\ nSent = Len(read) + Len(inbox)
  /\ pc \in Reading \cup {"writing", "lookup", "done"}
  /\ after \in {"status", "encryption", "done"}
  /\ cipher \in BOOLEAN
  /\ player \in Data \cup {Nobody}
  /\ digest \in Digests \cup {<< >>}
  /\ serverId \in [negative : BOOLEAN, bytes : Seq(0 .. 255)]

Requests == Tail(read)
InStatus == read # << >> /\ Decodes("handshake", read[1]) /\ read[1].data = "status"
InLogin == read # << >> /\ Decodes("handshake", read[1]) /\ read[1].data = "login"

(* In the status phase the k-th answer answers the k-th request, whatever  *)
(* the client pipelines: a status request with a status, a ping with a     *)
(* pong of its own payload; at most the last request is unanswered; and    *)
(* nothing is read after a ping (serverbase.rs:143-176).                   *)
StatusDialogue ==
  InStatus =>
    /\ Len(out) \in {Len(Requests), Len(Requests) - 1}
    /\ \A k \in 1 .. Len(out) :
         IF Requests[k].id = 0 THEN out[k] = [id |-> 0, data |-> "status"]
         ELSE out[k] = Requests[k]
    /\ \A k \in 1 .. Len(Requests) : Requests[k].id # 0 => k = Len(Requests)

(* The session server is asked, and the cipher set, only for a client that *)
(* sent, in this order, a login handshake, its name and the token of this  *)
(* connection; it is asked about the name of this connection; and such a   *)
(* client is never sent a disconnect (serverbase.rs:184-281).              *)
LookupIsEarned ==
  /\ cipher <=> player # Nobody
  /\ pc = "lookup" => cipher
  /\ cipher =>
       /\ InLogin /\ Len(read) = 3
       /\ read[2].id = 0 /\ player = read[2].data
       /\ read[3] = [id |-> 1, data |-> "echo"]
       /\ out = <<[id |-> 1, data |-> "echo"]>>

(* The number that bytes are, below what is above them.                    *)
Number(above, bytes) ==
  LET upTo[k \in 0 .. Len(bytes)] ==
        IF k = 0 THEN above ELSE 256 * upTo[k - 1] + bytes[k]
  IN  upTo[Len(bytes)]

(* The session server is asked for the number that the digest is in two's  *)
(* complement, its first bit repeated above the first byte, whatever bytes *)
(* the carry runs through (serverbase.rs:261-279).                         *)
ServerIdIsDigest ==
  pc = "lookup" =>
    LET asked == Number(0, serverId.bytes) IN
    (IF serverId.negative THEN - asked ELSE asked)
      = Number(IF digest[1] < 128 THEN 0 ELSE -1, digest)

(* A client is disconnected for its token only if it sent a wrong one, and *)
(* then nothing else follows (serverbase.rs:233-239).                      *)
DisconnectIsDeserved ==
  InLogin =>
    /\ Len(out) <= 2
    /\ Len(out) = 2 => /\ out = <<[id |-> 1, data |-> "echo"],
                                  [id |-> 0, data |-> "other"]>>
                       /\ pc = "done" /\ Len(read) = 3 /\ ~cipher
                       /\ read[3].data = "other"

(* Of the dialogue, the client sees what it has sent, as far as it is      *)
(* read, and what is written to it.                                        *)
D == INSTANCE Dialogue WITH
       Frames   <- [id : 0 .. 3, data : Data],
       Names    <- Data,
       Nobody   <- Nobody,
       requests <- read,
       answers  <- out,
       identity <- player,
       over     <- pc = "done"

(* The connection keeps the dialogue: no request is taken off the stream   *)
(* while an answer is being written, even if a shutdown or the client cuts *)
(* the write short, nothing is read or written after the end, and a client *)
(* is identified once, by its last request (serverbase.rs:101-334).        *)
KeepsDialogue == D!Spec

(* A client that closes does not leave its task behind, except while the   *)
(* session server is asked (serverbase.rs:114-132).                        *)
CloseEndsTask == closed ~> pc \in {"lookup", "done"}

=============================================================================
