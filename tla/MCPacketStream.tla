--------------------------- MODULE MCPacketStream ---------------------------
(***************************************************************************)
(* PacketStream with a packet of every variant and foreign frames around   *)
(* what the decoders test for. LengthLimit is scaled down from i32::MAX.   *)
(***************************************************************************)
EXTENDS PacketStream

Number(size, low) == [place \in 0 .. size - 1 |-> IF place = 0 THEN low ELSE 200 + place]
Raw(n) == [k \in 1 .. n |-> Number(1, k)]
Text(n) == [k \in 1 .. n |-> 97 + (k % 26)]
Packet(type, variant, fields) == [type |-> type, value |-> <<variant, fields>>]

(* {}, and JSON strings of 9 and 11 bytes: 9 is a tab.                     *)
Quoted(n) == <<34>> \o Text(n) \o <<34>>
SomeJson == {<<123, 125>>, Quoted(7), Quoted(9)}

(* The bytes of the second name, read as a handshake, hold a negative      *)
(* length.                                                                 *)
Names == {Text(2), <<195, 169, 195, 169, 104>>}

ServerPackets ==
  {Packet("SBHandshake", 1, <<762, <<<<195, 169>>, <<Number(2, 221), <<v, << >>>>>>>>>>) :
     v \in {1, 2}}
  \cup {Packet("SBStatus", 1, << >>), Packet("SBStatus", 2, Number(8, 7))}
  \cup {Packet("SBLogin", 1, <<name, uuid>>) :
          name \in Names, uuid \in {<< >>, <<Number(16, 3)>>}}
  \cup {Packet("SBLogin", 2, <<Raw(n), Raw(2)>>) : n \in {0, 33, 40}}
  \cup {Packet("SBLogin", 3, <<-1, data>>) : data \in {<< >>, <<Raw(2)>>}}

ClientPackets ==
  {Packet("CBStatus", 1, text) : text \in SomeJson}
  \cup {Packet("CBLogin", 1, text) : text \in {Quoted(7), Quoted(9)}}
  \cup {Packet("CBStatus", 2, Number(8, 9)),
        Packet("CBLogin", 2, <<<< >>, <<Raw(2), Raw(1)>>>>),
        Packet("CBLogin", 3,
               <<Number(16, 1), <<Text(1), <<<<Text(1), <<Text(0), <<Text(1)>>>>>>>>>>>>),
        Packet("CBLogin", 4, -2147483647),
        Packet("CBLogin", 5, <<300, <<Text(41), << >>>>>>),
        Packet("CBLogin", 5, <<300, <<Text(1), Raw(3)>>>>)}

AllPackets == ServerPackets \cup ClientPackets

Foreign(type, body) == [type |-> type, body |-> body]

(* A negative number, and one longer than it need be.                      *)
MinusOne == <<255, 255, 255, 255, 15>>
LongZero == <<128, 0>>

AllForeign ==
  {Foreign("SBHandshake", body) :
     body \in {<<0, 5, 1, 104, 1, 1, 0>>,              (* next state 0       *)
               LongZero \o <<5, 1, 104, 1, 1, 2, 9, 9>>, (* more than needed *)
               <<0, 5, 1, 255, 1, 1, 1>>,              (* not UTF-8          *)
               <<0, 255, 255, 255, 255, 127, 0, 1, 1, 1>>, (* past bit 31    *)
               <<0, 5>> \o MinusOne}}                  (* negative length    *)
  \cup {Foreign("SBLogin", body) :
     body \in {<<0, 1, 104, 7>> \o [k \in 1 .. 16 |-> k], (* a bool of 7     *)
               <<1, 9, 1>>,                            (* cut short          *)
               <<1>> \o MinusOne,
               << >>}}
  \cup {Foreign("CBLogin", body) :
     body \in {<<9>>,                                  (* no such packet     *)
               <<2>> \o [k \in 1 .. 16 |-> k] \o <<0, 2, 1, 97, 0, 0>>,
               <<0, 32, 123, 125>>}}                   (* JSON, a space first *)

(* Lengths that no frame can have: negative, and with a sixth byte.        *)
AllPrefixes == {MinusOne, [k \in 1 .. 5 |-> 128]}

=============================================================================
