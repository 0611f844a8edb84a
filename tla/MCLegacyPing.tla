---------------------------- MODULE MCLegacyPing ----------------------------
(***************************************************************************)
(* LegacyPing with the requests of clients of every generation, of the     *)
(* real sizes. Ping16 is the request read_1_6 expects: 27 constant bytes,  *)
(* the length of the rest (7 + the hostname), the protocol, the hostname   *)
(* and the port.                                                           *)
(***************************************************************************)
EXTENDS LegacyPing

Nothing == [protocol |-> 0, hostname |-> << >>, port |-> 0]

Simple(kind, bytes) == [kind |-> kind, bytes |-> bytes, payload |-> Nothing]

TwoBytes(n) == <<n \div 256, n % 256>>

Ping16(len, protocol, hostname, port) ==
  [kind    |-> "pre17",
   payload |-> [protocol |-> protocol, hostname |-> hostname, port |-> port],
   bytes   |-> <<254, 1, 250>> \o [i \in 1 .. 24 |-> 77] \o TwoBytes(len)
                 \o <<protocol>> \o TwoBytes(Len(hostname))
                 \o FlattenSeq([k \in 1 .. Len(hostname) |-> TwoBytes(hostname[k])])
                 \o <<0, 0>> \o TwoBytes(port)]

WellFormed ==
  {Simple("pre14", <<254>>),
   Simple("pre16", <<254, 1>>),
   (* a handshake of 16 bytes, and one whose length 254 is written FE 01   *)
   Simple("modern", <<16, 0, 47, 1>>),
   Simple("modern", <<254, 1, 0, 47>>),
   Ping16(7, 74, << >>, 25565),
   Ping16(11, 78, <<109, 255>>, 25566),
   (* a lone high surrogate before a pair, and a lone low one              *)
   Ping16(13, 78, <<55357, 55357, 56832>>, 25566),
   Ping16(9, 78, <<56832>>, 25566)}

(* Lengths no client sends: less than 7, and odd in the hostname.          *)
Malformed == {Ping16(3, 74, <<109>>, 25565), Ping16(8, 74, <<109>>, 25565)}

AllRequests == WellFormed \cup Malformed

(* Around the limit: 249 = 256 - 7, alone or shared; and around the 65535  *)
(* units of a length field, with two delimiters or with seven.             *)
SomeTexts ==
  {[bmp |-> n, astral |-> 0] : n \in {0, 1, 248, 249, 250, 65529, 65534}}
    \cup {[bmp |-> 0, astral |-> 1]}

=============================================================================
