------------------------------ MODULE MCVarNum ------------------------------
(***************************************************************************)
(* VarNum with the real widths, on the boundary values of the crate's own  *)
(* writer and on foreign bytes with the lowest bit or with all the others. *)
(***************************************************************************)
EXTENDS VarNum

(* Zero, one, minus one, the least number, one group full, and every       *)
(* number with one bit set: the ends of the groups are among them.         *)
Boundary ==
  {{}, Bits, {Width - 1}, 0 .. Group - 1, 0 .. Group} \cup {{i} : i \in Bits}

ForeignBytes == [data : {{0}, 1 .. Group - 1}, more : BOOLEAN]

(* Where there are many bytes: always the lowest bit.                      *)
ForeignOnes == [data : {{0}}, more : BOOLEAN]

=============================================================================
