------------------------------ MODULE Packets -------------------------------
(***************************************************************************)
(* The packet types of protocol/src/packets, as codecs of Wire: each enum  *)
(* is the packets of one state in one direction, SB to the server and CB   *)
(* to the client.                                                          *)
(***************************************************************************)
EXTENDS Wire

U8 == Prim(1)
U16 == Prim(2)
I64 == Prim(8)
Uuid == Prim(16)

NextState == Enum(TRUE, <<Variant(<<1>>, Unit), Variant(<<2>>, Unit)>>)

Handshake == Pair(VarInt, Pair(BString(255), Pair(U16, NextState)))

SBHandshake == Enum(TRUE, <<Variant(<< >>, Handshake)>>)

-----------------------------------------------------------------------------
PingRequest == I64
PingResponse == I64
StatusResponse == Json

SBStatus == Enum(TRUE, <<Variant(<< >>, Unit), Variant(<< >>, PingRequest)>>)

CBStatus == Enum(TRUE, <<Variant(<< >>, StatusResponse), Variant(<< >>, PingResponse)>>)

-----------------------------------------------------------------------------
LoginStart == Pair(BString(16), Option(Uuid))
EncryptionResponse == Pair(Vec(U8), Vec(U8))
PluginResponse == Pair(VarInt, Option(Slice(U8)))

SBLogin ==
  Enum(TRUE, <<Variant(<< >>, LoginStart), Variant(<< >>, EncryptionResponse),
               Variant(<< >>, PluginResponse)>>)

Disconnect == Json
EncryptionRequest == Pair(BString(20), Pair(Vec(U8), Vec(U8)))
Property == Pair(BString(32767), Pair(BString(32767), Option(BString(32767))))
LoginSuccess == Pair(Uuid, Pair(BString(16), Vec(Property)))
SetCompression == VarInt
PluginRequest == Pair(VarInt, Pair(String, Slice(U8)))

CBLogin ==
  Enum(TRUE, <<Variant(<< >>, Disconnect), Variant(<< >>, EncryptionRequest),
               Variant(<< >>, LoginSuccess), Variant(<< >>, SetCompression),
               Variant(<< >>, PluginRequest)>>)

-----------------------------------------------------------------------------
(* What goes to a connection's queues: #[discriminant_as(NoTag)].          *)

ServerBound ==
  Enum(FALSE, <<Variant(<< >>, SBHandshake), Variant(<< >>, SBStatus),
                Variant(<< >>, SBLogin), Variant(<< >>, Unit)>>)

ClientBound ==
  Enum(FALSE, <<Variant(<< >>, CBStatus), Variant(<< >>, CBLogin),
                Variant(<< >>, Unit)>>)

PacketType ==
  [SBHandshake |-> SBHandshake, SBStatus |-> SBStatus, SBLogin |-> SBLogin,
   CBStatus |-> CBStatus, CBLogin |-> CBLogin]

(* From<SBHandshake> for ServerBound and the other conversions             *)
Wrapped(type, value) ==
  CASE type = "SBHandshake" -> <<1, value>>
    [] type = "SBStatus"    -> <<2, value>>
    [] type = "SBLogin"     -> <<3, value>>
    [] type = "CBStatus"    -> <<1, value>>
    [] type = "CBLogin"     -> <<2, value>>

Wrapper == [type \in DOMAIN PacketType |->
              IF type \in {"CBStatus", "CBLogin"} THEN ClientBound ELSE ServerBound]

=============================================================================
