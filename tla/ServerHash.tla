----------------------------- MODULE ServerHash -----------------------------
(***************************************************************************)
(* The server id of a login: the SHA-1 digest read as a two's complement   *)
(* number and written as a sign and a magnitude, byte by byte, from the    *)
(* last byte up (bws.old/src/serverbase.rs:261-279). A digest is a         *)
(* sequence of bytes, the first the highest.                               *)
(***************************************************************************)
EXTENDS Integers, Sequences

Negative(hash) == hash[1] >= 128

Inverted(hash, i) == 255 - hash[i]

(* Mutant: the carry is decided after the addition.                        *)
CarryAfter(hash) ==
  LET carry[i \in 1 .. Len(hash)] ==
        i = Len(hash) \/ (carry[i + 1] /\ (Inverted(hash, i + 1) + 1) % 256 = 255)
  IN  carry

(* The loop's carry when it comes to byte i: it starts set, and a byte     *)
(* that is 255 once inverted passes it on.                                 *)
Carry(hash) ==
  LET carry[i \in 1 .. Len(hash)] ==
        i = Len(hash) \/ (carry[i + 1] /\ Inverted(hash, i + 1) = 255)
  IN  carry

(* overflowing_add                                                         *)
TwosComplement(hash) ==
  LET carry == Carry(hash)
  IN  [i \in 1 .. Len(hash) |->
        IF carry[i] THEN (Inverted(hash, i) + 1) % 256 ELSE Inverted(hash, i)]

(* The sign and the bytes of the magnitude, none of them left out.         *)
ServerId(hash) ==
  [negative |-> Negative(hash),
   bytes    |-> IF Negative(hash) THEN TwosComplement(hash) ELSE hash]

=============================================================================
