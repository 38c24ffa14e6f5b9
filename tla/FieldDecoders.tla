--------------------------- MODULE FieldDecoders ---------------------------
(***************************************************************************)
(* Reading the fields of a delta and passing over them: Decoder::decode    *)
(* and Decoder::skip of src/src/entity/field_decoder.rs with the readers   *)
(* they use.                                                               *)
(*                                                                         *)
(* An unfiltered playback decodes every field, a filtered one skips those  *)
(* it has no use for; nothing marks where a field ends, so the two have to *)
(* leave the cursor at the same bit.  Values are left out unless a length  *)
(* depends on them.                                                        *)
(***************************************************************************)
EXTENDS FieldOpCode

CONSTANTS
  Buffers,         \* the buffers that are explored
  Decoders,        \* the decoders of the fields that are read
  PreciseBits,     \* bits of a precise angle, 20
  MaxFieldString   \* max_field_string_bytes

ASSUME BuffersAssumption == Buffers \subseteq Seq(0 .. PowerOf2[ByteBits] - 1)
ASSUME WidthsAssumption ==
  /\ {PreciseBits, HalfBits, CoordIntegerBits, CoordFractionalBits, NormalFractionalBits}
       \subseteq 0 .. WordBits
  /\ MaxFieldString \in Nat

VARIABLES
  decoded,   \* the cursor of a reader that decodes every field
  skipped,   \* the cursor of one that skips every field
  oversize   \* one of the fields was an angle wider than a read may be

vars == <<data, decoded, skipped, oversize>>

(* The decoders, by the shape of what they read.  Vectors are made of      *)
(* floats only (build_f32_decoder), and FloatVecN of four or six of them.  *)
(* The bits of a quantized float are checked when its decoder is built     *)
(* (QuantizedFloat::new), those of an angle are what the demo announces.   *)
Widths == 0 .. WordBits
FloatDecoders ==
  [kind : {"F32NoScale", "F32SimulationTime", "F32Coord", "F32Normal"}]
  \cup [kind : {"F32Quantized"}, flags : 0 .. 3, bits : Widths]
ScalarDecoders ==
  FloatDecoders
  \cup [kind : {"Bool", "I64", "U64", "Default", "I64Fixed8", "U64Fixed8", "U64Fixed64",
                "Ammo", "String", "BinaryBlock", "Poly", "Vector3Normal",
                "QAnglePrecise", "QAngleCoord"}]
  \cup [kind : {"QAnglePitchYaw", "QAngleBitCount"}, bits : Nat]
VectorDecoders ==
  [kind : {"Vector2", "Vector3", "Vector4", "FloatVec6"}, inner : FloatDecoders]

ASSUME DecodersAssumption == Decoders \subseteq ScalarDecoders \cup VectorDecoders

----------------------------------------------------------------------------
(* Reading.                                                                *)

IsSet(at) == Bit(at) = 1

ReadBitCoord(at) ==
  LET flags == Advance(at, 2)
      sign  == IF IsSet(at) \/ IsSet(at + 1) THEN ReadBits(flags, 1) ELSE flags
      whole == IF IsSet(at) THEN ReadBits(sign, CoordIntegerBits) ELSE sign
  IN  IF flags = Failed THEN Failed
      ELSE IF IsSet(at + 1) THEN ReadBits(whole, CoordFractionalBits) ELSE whole

ReadBitNormal(at) == ReadBits(Advance(at, 1), NormalFractionalBits)

(* A flag for each component, then the components that are there.          *)
ReadBitVec3Coord(at) ==
  LET flags == Advance(at, 3)
      x     == IF IsSet(at) THEN ReadBitCoord(flags) ELSE flags
      y     == IF IsSet(at + 1) THEN ReadBitCoord(x) ELSE x
  IN  IF flags = Failed THEN Failed ELSE IF IsSet(at + 2) THEN ReadBitCoord(y) ELSE y

ReadBitVec3Normal(at) ==
  LET flags == Advance(at, 2)
      x     == IF IsSet(at) THEN ReadBitNormal(flags) ELSE flags
      y     == IF IsSet(at + 1) THEN ReadBitNormal(x) ELSE x
  IN  IF flags = Failed THEN Failed ELSE Advance(y, 1)

ReadPreciseAngles(at) ==
  LET flags == Advance(at, 3)
      x     == IF IsSet(at) THEN ReadBits(flags, PreciseBits) ELSE flags
      y     == IF IsSet(at + 1) THEN ReadBits(x, PreciseBits) ELSE x
  IN  IF flags = Failed THEN Failed ELSE IF IsSet(at + 2) THEN ReadBits(y, PreciseBits) ELSE y

(* QuantizedFloat::decode: each flag that was kept is a bit, which ends    *)
(* the value when it is set.                                               *)
Shortcuts(at, flags) == {i \in 1 .. flags : at + i <= TotalBits /\ IsSet(at + i - 1)}
ReadQuantized(at, flags, bits) ==
  IF at = Failed THEN Failed
  ELSE IF Shortcuts(at, flags) # {} THEN at + Min(Shortcuts(at, flags))
  ELSE ReadBits(Advance(at, flags), bits)

(* read_string_raw_limited: the bytes up to the first zero, if not too     *)
(* many; the last of Terminators is where the string ends.                 *)
Terminators(at) == {k \in 1 .. BytesLeft(at) : ByteNo(at, k) = 0}
ReadString(at) ==
  IF at = Failed \/ Terminators(at) = {} THEN Failed
  ELSE LET end == Min(Terminators(at))
       IN  IF end - 1 <= MaxFieldString THEN EndOfByte(at, end) ELSE Failed

(* A length in bytes, then the bytes. *)
BlockLength(at) == Varint32(at)
BlockFits(at) ==
  ReadVarint(at, Varint32Bytes) # Failed /\ BlockLength(at) \in 0 .. MaxFieldString
ReadBinaryBlock(at) ==
  IF at = Failed \/ ~BlockFits(at) THEN Failed
  ELSE ReadBytes(ReadVarint(at, Varint32Bytes), BlockLength(at))

----------------------------------------------------------------------------
(* Skipping.                                                               *)

SkipVarint(at) == ReadVarint(at, Varint64Bytes)

SkipBitCoord(at) ==
  LET flags == Advance(at, 2)
      sign  == Advance(flags, 1)
      whole == IF IsSet(at) THEN Advance(sign, CoordIntegerBits) ELSE sign
  IN  IF flags = Failed THEN Failed
      ELSE IF ~IsSet(at) /\ ~IsSet(at + 1) THEN flags
      ELSE IF IsSet(at + 1) THEN Advance(whole, CoordFractionalBits) ELSE whole

SkipBitNormal(at) == Advance(at, 1 + NormalFractionalBits)

SkipBitVec3Coord(at) ==
  LET flags == Advance(at, 3)
      x     == IF IsSet(at) THEN SkipBitCoord(flags) ELSE flags
      y     == IF IsSet(at + 1) THEN SkipBitCoord(x) ELSE x
  IN  IF flags = Failed THEN Failed ELSE IF IsSet(at + 2) THEN SkipBitCoord(y) ELSE y

SkipBitVec3Normal(at) ==
  LET flags == Advance(at, 2)
      x     == IF IsSet(at) THEN SkipBitNormal(flags) ELSE flags
      y     == IF IsSet(at + 1) THEN SkipBitNormal(x) ELSE x
  IN  IF flags = Failed THEN Failed ELSE Advance(y, 1)

SkipPreciseAngles(at) ==
  LET flags == Advance(at, 3)
      x     == IF IsSet(at) THEN Advance(flags, PreciseBits) ELSE flags
      y     == IF IsSet(at + 1) THEN Advance(x, PreciseBits) ELSE x
  IN  IF flags = Failed THEN Failed ELSE IF IsSet(at + 2) THEN Advance(y, PreciseBits) ELSE y

SkipQuantized(at, flags, bits) ==
  IF at = Failed THEN Failed
  ELSE IF Shortcuts(at, flags) # {} THEN at + Min(Shortcuts(at, flags))
  ELSE Advance(Advance(at, flags), bits)

(* skip_string_limited: once the first byte is no zero, the limit is left  *)
(* out of the loop when what remains is too short to exceed it.            *)
MutantSkipString(at) ==
  IF at = Failed \/ Terminators(at) = {} THEN Failed
  ELSE LET end == Min(Terminators(at))
       IN  IF end = 1 \/ BytesLeft(EndOfByte(at, 1)) <= MaxFieldString + 1 THEN EndOfByte(at, end)
           ELSE IF end - 1 <= MaxFieldString THEN EndOfByte(at, end) ELSE Failed
SkipString(at) ==
  IF at = Failed \/ Terminators(at) = {} THEN Failed
  ELSE LET end == Min(Terminators(at))
       IN  IF end = 1 \/ BytesLeft(EndOfByte(at, 1)) < MaxFieldString THEN EndOfByte(at, end)
           ELSE IF MaxFieldString # 0 /\ end - 1 <= MaxFieldString THEN EndOfByte(at, end)
           ELSE Failed

SkipBinaryBlock(at) ==
  IF at = Failed \/ ~BlockFits(at) THEN Failed
  ELSE Advance(ReadVarint(at, Varint32Bytes), BlockLength(at) * ByteBits)

----------------------------------------------------------------------------
(* The two dispatchers.                                                    *)

DecodeScalar(d, at) ==
  CASE d.kind = "Bool" -> Advance(at, 1)
    [] d.kind \in {"I64", "U64", "Default"} -> ReadVarint(at, Varint64Bytes)
    [] d.kind \in {"I64Fixed8", "U64Fixed8"} -> ReadBits(at, ByteBits)
    [] d.kind = "U64Fixed64" -> ReadBytes(at, WordBytes)
    [] d.kind = "F32NoScale" -> ReadBits(at, HalfBits)
    [] d.kind \in {"F32SimulationTime", "Ammo"} -> ReadVarint(at, Varint32Bytes)
    [] d.kind = "F32Coord" -> ReadBitCoord(at)
    [] d.kind = "F32Normal" -> ReadBitNormal(at)
    [] d.kind = "F32Quantized" -> ReadQuantized(at, d.flags, d.bits)
    [] d.kind = "String" -> ReadString(at)
    [] d.kind = "BinaryBlock" -> ReadBinaryBlock(at)
    [] d.kind = "Poly" -> ReadUBitVar(Advance(at, 1))
    [] d.kind = "Vector3Normal" -> ReadBitVec3Normal(at)
    [] d.kind = "QAnglePrecise" -> ReadPreciseAngles(at)
    [] d.kind = "QAngleCoord" -> ReadBitVec3Coord(at)
    [] d.kind = "QAnglePitchYaw" -> ReadBits(ReadBits(at, d.bits), d.bits)
    [] d.kind = "QAngleBitCount" -> ReadBits(ReadBits(ReadBits(at, d.bits), d.bits), d.bits)

SkipScalar(d, at) ==
  CASE d.kind = "Bool" -> Advance(at, 1)
    [] d.kind \in {"I64", "U64", "Default"} -> SkipVarint(at)
    [] d.kind \in {"I64Fixed8", "U64Fixed8"} -> Advance(at, ByteBits)
    [] d.kind = "U64Fixed64" -> Advance(at, WordBits)
    [] d.kind = "F32NoScale" -> Advance(at, HalfBits)
    [] d.kind \in {"F32SimulationTime", "Ammo"} -> ReadVarint(at, Varint32Bytes)
    [] d.kind = "F32Coord" -> SkipBitCoord(at)
    [] d.kind = "F32Normal" -> SkipBitNormal(at)
    [] d.kind = "F32Quantized" -> SkipQuantized(at, d.flags, d.bits)
    [] d.kind = "String" -> SkipString(at)
    [] d.kind = "BinaryBlock" -> SkipBinaryBlock(at)
    [] d.kind = "Poly" -> ReadUBitVar(Advance(at, 1))
    [] d.kind = "Vector3Normal" -> SkipBitVec3Normal(at)
    [] d.kind = "QAnglePrecise" -> SkipPreciseAngles(at)
    [] d.kind = "QAngleCoord" -> SkipBitVec3Coord(at)
    [] d.kind = "QAnglePitchYaw" -> Advance(at, d.bits * 2)
    [] d.kind = "QAngleBitCount" -> Advance(at, d.bits * 3)

DecodeTwo(d, at) == DecodeScalar(d, DecodeScalar(d, at))
SkipTwo(d, at)   == SkipScalar(d, SkipScalar(d, at))

Decode(d, at) ==
  CASE d.kind = "Vector2" -> DecodeTwo(d.inner, at)
    [] d.kind = "Vector3" -> DecodeScalar(d.inner, DecodeTwo(d.inner, at))
    [] d.kind = "Vector4" -> DecodeTwo(d.inner, DecodeTwo(d.inner, at))
    [] d.kind = "FloatVec6" -> DecodeTwo(d.inner, DecodeTwo(d.inner, DecodeTwo(d.inner, at)))
    [] OTHER -> DecodeScalar(d, at)

(* Three whole floats are skipped at once if they are all there.           *)
Skip(d, at) ==
  CASE d.kind = "Vector2" -> SkipTwo(d.inner, at)
    [] d.kind = "Vector3" ->
         IF d.inner.kind = "F32NoScale" /\ TotalBits - at >= 3 * HalfBits
           THEN Advance(at, 3 * HalfBits) ELSE SkipScalar(d.inner, SkipTwo(d.inner, at))
    [] d.kind = "Vector4" -> SkipTwo(d.inner, SkipTwo(d.inner, at))
    [] d.kind = "FloatVec6" -> SkipTwo(d.inner, SkipTwo(d.inner, SkipTwo(d.inner, at)))
    [] OTHER -> SkipScalar(d, at)

----------------------------------------------------------------------------
(* Deltas.                                                                 *)

(* The paths of the delta are read, alike by both, up to some bit.         *)
Init ==
  /\ data \in Buffers
  /\ decoded \in 0 .. TotalBits
  /\ skipped = decoded
  /\ oversize = FALSE

TooWide(d) == d.kind \in {"QAnglePitchYaw", "QAngleBitCount"} /\ d.bits > WordBits

ReadField(d) ==
  /\ Failed \notin {decoded, skipped}
  /\ decoded' = Decode(d, decoded)
  /\ skipped' = Skip(d, skipped)
  /\ oversize' = (oversize \/ TooWide(d))
  /\ UNCHANGED data

Next == \E d \in Decoders : ReadField(d)

Spec == Init /\ [][Next]_vars

----------------------------------------------------------------------------
(* Properties.                                                             *)

TypeOK == data \in Buffers /\ decoded \in Cursors /\ skipped \in Cursors /\ oversize \in BOOLEAN

(* Passing over fields ends where decoding them does, and fails where it   *)
(* fails, whatever the fields and the buffer: nothing would tell a later   *)
(* read that it started at the wrong bit.  The one exception is an angle   *)
(* wider than a read may be, which is passed over but never decoded: then  *)
(* a filtered playback goes on where an unfiltered one reports an error.   *)
SkipAgrees == IF oversize THEN decoded = Failed ELSE skipped = decoded

(* Every way to read a number gives the bits from the cursor on, lowest    *)
(* first: a word and the byte behind it, two bytes, a shifted copy; and an *)
(* operand read in one look is the operand read step by step.              *)
ReadsAreBits ==
  decoded # Failed =>
    /\ \A n \in 0 .. WordBits : decoded + n <= TotalBits => Peek(decoded, n) = Number(decoded, n)
    /\ BytesLeft(decoded) > 0 => PeekU8(decoded) = Number(decoded, ByteBits)
    /\ \A k \in 1 .. BytesLeft(decoded) :
         PeekBytes(decoded, k - 1) = Number(decoded + (k - 1) * ByteBits, ByteBits)
    /\ TotalBits - decoded >= LongestOperand => OperandAtOnce(decoded) = OperandStepwise(decoded)

(* Looking an operation up by the next bits finds the operation and the    *)
(* length that walking the tree does, also close to the end of the buffer. *)
CodesAgree == decoded # Failed => FieldOp(decoded) = FieldOpByTree(decoded)
=============================================================================
