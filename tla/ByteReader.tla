----------------------------- MODULE ByteReader -----------------------------
(***************************************************************************)
(* The byte cursor of src/src/io/reader.rs over a whole file.  It shares   *)
(* the widths of the bit cursor, which reads the packets in that file.     *)
(*                                                                         *)
(* A read is the position it leaves the cursor at, Nowhere after an error; *)
(* what it read is an operator of its own.  A position counts the bytes    *)
(* before it.                                                              *)
(***************************************************************************)
EXTENDS BitReader

VARIABLE file     \* a sequence of bytes

(* A varint holds every u32. *)
ASSUME FileAssumption ==
  /\ ByteBits >= 2 /\ HalfBits >= 1
  /\ HalfBits <= Varint32Bytes * (ByteBits - 1)
  /\ Varint32Bytes * (ByteBits - 1) <= WordBits

Byte == PowerOf2[ByteBits]
More == PowerOf2[ByteBits - 1]    \* the bit that says that a varint goes on
U32  == PowerOf2[HalfBits]

Nowhere   == -1
FileLen   == Len(file)
Positions == Nowhere .. FileLen

(* check_remaining, and the skip or the read behind it *)
Take(at, n) == IF at # Nowhere /\ n <= FileLen - at THEN at + n ELSE Nowhere
Taken(at, n) == SubSeq(file, at + 1, at + n)

(* A byte without its top bit ends a varint, and so does the last byte the *)
(* width allows; what is shifted out of a u32 is lost.                     *)
VarintEnds(at) ==
  {k \in 1 .. Varint32Bytes : at + k <= FileLen /\ (k = Varint32Bytes \/ file[at + k] < More)}
TakeVarint[at \in Positions] ==
  IF at = Nowhere \/ VarintEnds(at) = {} THEN Nowhere ELSE at + Min(VarintEnds(at))
VarintAt[at \in Positions] ==
  Composed([k \in 1 .. Min(VarintEnds(at)) |-> file[at + k] % More], More) % U32

(* from_le_bytes *)
LittleEndian(at, n) == Composed([k \in 1 .. n |-> file[at + k]], Byte)
=============================================================================
