----------------------------- MODULE BitReader -----------------------------
(***************************************************************************)
(* The bit cursor of src/src/io/bitreader.rs over a byte buffer.           *)
(*                                                                         *)
(* A read is what it gives and where it leaves the cursor: a bit offset,   *)
(* or Failed after an error, when the caller gives the buffer up.  Widths  *)
(* are constants, so that buffers of a few bits reach every branch.        *)
(***************************************************************************)
EXTENDS Integers, Sequences, FiniteSetsExt

CONSTANTS
  ByteBits,       \* 8
  WordBytes,      \* bytes of the widest read, 8
  Varint32Bytes,  \* most bytes of a 32-bit varint, 5
  Varint64Bytes,  \* and of a 64-bit one, 10
  HalfBits,       \* bits of a u32
  UBitVarBits,    \* read_ubitvar: its first read, 6, and the bits that follow
  UBitVarMore,    \*   by selector: 0, 4, 8 and 28
  PathOperand,    \* read_ubitvarfp: the payload by selector: 2, 4, 10, 17, 31
  CoordIntegerBits, CoordFractionalBits, NormalFractionalBits

ASSUME ByteAssumption == ByteBits \in Nat \ {0} /\ WordBytes \in Nat \ {0}
WordBits       == WordBytes * ByteBits
LongestOperand == 4 + PathOperand[4]

ASSUME VarintAssumption ==
  /\ Varint32Bytes \in Nat \ {0} /\ Varint64Bytes \in Nat \ {0}
  /\ HalfBits \in 0 .. WordBits
(* One look takes in every operand. *)
ASSUME OperandAssumption ==
  /\ UBitVarBits \in 2 .. WordBits /\ UBitVarMore \in [0 .. 3 -> 0 .. WordBits]
  /\ PathOperand \in [0 .. 4 -> Nat] /\ LongestOperand <= WordBits
  /\ \A s \in 0 .. 3 : s + 1 + PathOperand[s] <= LongestOperand
ASSUME CoordAssumption ==
  CoordIntegerBits \in Nat /\ CoordFractionalBits \in Nat /\ NormalFractionalBits \in Nat

VARIABLE data     \* the buffer, a sequence of bytes

TotalBits == Len(data) * ByteBits
Failed    == -1
Cursors   == Failed .. TotalBits

(* skip_bits, and the bounds check of read_bits.                           *)
MutantAdvance(at, n) == IF at # Failed THEN at + n ELSE Failed
Advance(at, n) == IF at # Failed /\ n <= TotalBits - at THEN at + n ELSE Failed
ReadBits(at, n) == IF n <= WordBits THEN Advance(at, n) ELSE Failed

(* Powers of two, as far as the widest number goes. *)
PowerOf2[n \in 0 .. WordBits] == IF n = 0 THEN 1 ELSE 2 * PowerOf2[n - 1]

(* Numbers and their digits, the lowest first: what is left of a number    *)
(* after the k-th digit, its lowest digits, and the number digits make.    *)
Quotients(n, base, count) ==
  LET rest[k \in 0 .. count] == IF k = 0 THEN n ELSE rest[k - 1] \div base
  IN  rest
Digits(n, base, count) ==
  LET rest == Quotients(n, base, count) IN [k \in 1 .. count |-> rest[k - 1] % base]
Composed(digits, base) ==
  LET upper[k \in 0 .. Len(digits)] ==
        IF k = 0 THEN 0 ELSE digits[Len(digits) + 1 - k] + base * upper[k - 1]
  IN  upper[Len(digits)]

(* n bits of the number x from bit `low` on. *)
Cut(x, low, n) == (x \div PowerOf2[low]) % PowerOf2[n]

(* read_bool *)
Bit(at) == Cut(data[at \div ByteBits + 1], at % ByteBits, 1)

----------------------------------------------------------------------------
(* Numbers.                                                                *)

(* The i-th byte after the one the cursor is in, nothing past the end.     *)
ByteAfter(at, i) ==
  LET k == at \div ByteBits + i + 1 IN IF k <= Len(data) THEN data[k] ELSE 0

(* peek_bits_unchecked: a word shifted by the offset in its first byte,    *)
(* and from the byte behind it the bits for which the shift left no room.  *)
Window(at) ==
  Composed([i \in 1 .. WordBytes |-> ByteAfter(at, i - 1)], PowerOf2[ByteBits])
MutantPeek(at, n) == Cut(Window(at), at % ByteBits, n)
Peek(at, n) ==
  LET offset == at % ByteBits
      taken  == WordBits - offset
      low    == Window(at) \div PowerOf2[offset]
  IN  IF offset + n <= WordBits THEN low % PowerOf2[n]
      ELSE low + Cut(ByteAfter(at, WordBytes), 0, n - taken) * PowerOf2[taken]

(* read_u8 *)
PeekU8(at) ==
  IF at % ByteBits = 0 THEN ByteAfter(at, 0)
  ELSE Cut(ByteAfter(at, 0) + ByteAfter(at, 1) * PowerOf2[ByteBits], at % ByteBits, ByteBits)

(* read_bytes: the k-th byte, from 0, of an unaligned copy.                *)
PeekBytes(at, k) ==
  LET shift == at % ByteBits
  IN  IF shift = 0 THEN ByteAfter(at, k)
      ELSE Cut(ByteAfter(at, k), shift, ByteBits - shift)
           + Cut(ByteAfter(at, k + 1), 0, shift) * PowerOf2[ByteBits - shift]

(* The definition these readers have to meet: bits, the lowest first.      *)
Number(at, n) == Composed([i \in 1 .. n |-> Bit(at + i - 1)], 2)

----------------------------------------------------------------------------
(* Encodings of variable length.                                           *)

(* The bytes from the cursor on that satisfy a condition are numbered from *)
(* 1; a byte that does not fit in the buffer is none of them.              *)
BytesLeft(at) == (TotalBits - at) \div ByteBits
ByteNo(at, k) == PeekU8(at + (k - 1) * ByteBits)
EndOfByte(at, k) == at + k * ByteBits

(* read_uvarint32 and read_uvarint64: a byte without its top bit ends the  *)
(* number, and so does the last byte the width allows, whatever it says.   *)
LastBytes(at, most) ==
  {k \in 1 .. BytesLeft(at) : k = most \/ ByteNo(at, k) < PowerOf2[ByteBits - 1]}
ReadVarint(at, most) ==
  IF at = Failed \/ LastBytes(at, most) = {} THEN Failed
  ELSE EndOfByte(at, Min(LastBytes(at, most)))

(* The value of a 32-bit varint: what is shifted out of a u32 is lost.     *)
Varint32(at) ==
  LET top   == PowerOf2[ByteBits - 1]
      bytes == Min(LastBytes(at, Varint32Bytes))
  IN  Composed([k \in 1 .. bytes |-> ByteNo(at, k) % top], top) % PowerOf2[HalfBits]

(* read_ubitvar: the two top bits of the first read tell how many follow.  *)
UBitVarSelector(at) ==
  (IF Bit(at + UBitVarBits - 2) = 1 THEN 1 ELSE 0) + (IF Bit(at + UBitVarBits - 1) = 1 THEN 2 ELSE 0)
ReadUBitVar(at) ==
  LET first == ReadBits(at, UBitVarBits)
  IN  IF first = Failed THEN Failed ELSE ReadBits(first, UBitVarMore[UBitVarSelector(at)])

(* read_ubitvarfp: up to four selector bits, the first that is set tells   *)
(* the width of the payload; stepwise, and in one look when it must fit.   *)
OperandIn(at, selector) ==
  LET payload == PathOperand[selector]
      start   == Advance(at, IF selector < 4 THEN selector + 1 ELSE 4)
      end     == Advance(start, payload)
  IN  [end |-> end, value |-> IF end = Failed THEN 0 ELSE Peek(start, payload)]
OperandStepwise(at) ==
  OperandIn(at, Min({i \in 0 .. 3 : at + i < TotalBits /\ Bit(at + i) = 1} \cup {4}))
OperandAtOnce(at) ==
  LET word     == Peek(at, LongestOperand)
      selector == Min({i \in 0 .. 3 : Cut(word, i, 1) = 1} \cup {4})
      prefix   == IF selector < 4 THEN selector + 1 ELSE 4
  IN  [end   |-> at + prefix + PathOperand[selector],
       value |-> Cut(word, prefix, PathOperand[selector])]
UBitVarFP(at) ==
  IF TotalBits - at >= LongestOperand THEN OperandAtOnce(at) ELSE OperandStepwise(at)

(* read_bytes and its skip. *)
ReadBytes(at, n) == IF at # Failed /\ n <= BytesLeft(at) THEN EndOfByte(at, n) ELSE Failed
=============================================================================
