------------------------ MODULE FieldDecodersProofs ------------------------
(***************************************************************************)
(* Skipping a field ends where decoding it does, for every decoder, buffer *)
(* and width; every reader of numbers gives the bits at the cursor; and a  *)
(* path operation is the same looked up in the table or walked to.         *)
(* The field map of an entity, which those fields are decoded into, holds  *)
(* what the updates of its kept fields leave in it (FieldUpdates).         *)
(***************************************************************************)
EXTENDS FieldDecoders, FieldUpdates, BitReaderProofs, TLAPS

----------------------------------------------------------------------------
(* Numbers.                                                                *)

LEMMA Units ==
  ASSUME data \in Buffers
  PROVE  TotalBits \in Nat /\ WordBits \in Nat
<1>1. Len(data) \in Nat /\ ByteBits \in Nat /\ WordBytes \in Nat
  BY ByteAssumption, BuffersAssumption
<1> QED BY <1>1, ProductIn DEF TotalBits, WordBits

----------------------------------------------------------------------------
(* The cursor.                                                             *)

(* Skipping bits stays inside the buffer, and n more bits after m are      *)
(* n + m bits, also when they do not fit.                                  *)
LEMMA AdvanceTyped ==
  ASSUME TotalBits \in Nat, NEW at \in Cursors, NEW n \in Nat
  PROVE  Advance(at, n) \in Cursors
BY DEF Advance, Cursors, Failed

LEMMA AdvanceAdds ==
  ASSUME TotalBits \in Nat, NEW at \in Cursors, NEW m \in Nat, NEW n \in Nat
  PROVE  Advance(Advance(at, m), n) = Advance(at, m + n)
BY DEF Advance, Cursors, Failed

LEMMA ReadBitsAdvances ==
  ASSUME NEW at, NEW n \in Widths
  PROVE  ReadBits(at, n) = Advance(at, n)
BY DEF ReadBits, Widths

(* The end of a byte that is left is inside the buffer. *)
LEMMA EndOfByteTyped ==
  ASSUME data \in Buffers, NEW at \in 0 .. TotalBits, NEW k \in 1 .. BytesLeft(at)
  PROVE  EndOfByte(at, k) \in 0 .. TotalBits
<1>1. TotalBits \in Nat /\ TotalBits - at \in Nat /\ k \in Nat /\ ByteBits \in Nat
  BY Units, ByteAssumption
<1>2. (TotalBits - at) \div ByteBits \in Int
  BY <1>1, ByteAssumption
<1>3. k * ByteBits <= TotalBits - at
  BY <1>1, <1>2, BytesFit DEF BytesLeft
<1>4. k * ByteBits \in Nat
  BY <1>1, ProductIn
<1> QED BY <1>1, <1>3, <1>4 DEF EndOfByte

(* Reading bytes is skipping their bits. *)
LEMMA ReadBytesAdvances ==
  ASSUME data \in Buffers, NEW at \in Cursors, NEW n \in Nat
  PROVE  ReadBytes(at, n) = Advance(at, n * ByteBits)
<1>1. CASE at = Failed
  BY <1>1 DEF ReadBytes, Advance
<1>2. CASE at # Failed
  <2>1. TotalBits - at \in Nat
    BY <1>2, Units DEF Cursors, Failed
  <2> QED BY <2>1, BytesFit DEF ReadBytes, Advance, BytesLeft, EndOfByte
<1> QED BY <1>1, <1>2

LEMMA VarintTyped ==
  ASSUME data \in Buffers, NEW at \in Cursors, NEW most
  PROVE  ReadVarint(at, most) \in Cursors
<1>1. Failed \in Cursors
  BY Units DEF Cursors, Failed
<1>2. ASSUME at # Failed, LastBytes(at, most) # {}
      PROVE  EndOfByte(at, Min(LastBytes(at, most))) \in Cursors
  <2>1. LastBytes(at, most) \subseteq 1 .. BytesLeft(at)
    BY DEF LastBytes
  <2>2. LastBytes(at, most) \subseteq Nat
    BY <2>1
  <2>3. Min(LastBytes(at, most)) \in 1 .. BytesLeft(at)
    BY <1>2, <2>1, <2>2, MinIsLeast
  <2>4. at \in 0 .. TotalBits
    BY <1>2, Units DEF Cursors, Failed
  <2> QED BY <2>3, <2>4, EndOfByteTyped DEF Cursors, Failed
<1> QED BY <1>1, <1>2 DEF ReadVarint

----------------------------------------------------------------------------
(* What a field is made of: each part is skipped to where it is read to,   *)
(* which is in the buffer.                                                 *)

LEMMA WidthsFit ==
  /\ {1, ByteBits, HalfBits, PreciseBits} \subseteq Widths
  /\ {CoordIntegerBits, CoordFractionalBits, NormalFractionalBits} \subseteq Widths
  /\ Widths \subseteq Nat
<1>1. ByteBits \in Nat /\ ByteBits >= 1 /\ WordBytes \in Nat /\ WordBytes >= 1
  BY ByteAssumption
<1>2. 1 * ByteBits <= WordBytes * ByteBits
  BY <1>1, ProductOrder
<1>3. WordBytes * ByteBits \in Nat
  BY <1>1, ProductIn
<1> QED BY <1>1, <1>2, <1>3, WidthsAssumption DEF Widths, WordBits

LEMMA ReadBitsTyped ==
  ASSUME TotalBits \in Nat, NEW at \in Cursors, NEW n \in Nat
  PROVE  ReadBits(at, n) \in Cursors
<1>1. Failed \in Cursors
  BY DEF Cursors, Failed
<1> QED BY <1>1, AdvanceTyped DEF ReadBits

LEMMA BitCoord ==
  ASSUME TotalBits \in Nat, NEW at \in Cursors
  PROVE  ReadBitCoord(at) \in Cursors /\ SkipBitCoord(at) = ReadBitCoord(at)
<1> DEFINE flags == Advance(at, 2)
           sign  == Advance(flags, 1)
           whole == IF IsSet(at) THEN Advance(sign, CoordIntegerBits) ELSE sign
<1>1. 1 \in Widths /\ CoordIntegerBits \in Widths /\ CoordFractionalBits \in Widths
  BY WidthsFit
<1>2. CoordIntegerBits \in Nat /\ CoordFractionalBits \in Nat
  BY CoordAssumption
<1>3. flags \in Cursors
  BY AdvanceTyped
<1>4. sign \in Cursors
  BY <1>3, AdvanceTyped
<1>5. whole \in Cursors
  BY <1>2, <1>4, AdvanceTyped
<1>6. Advance(whole, CoordFractionalBits) \in Cursors
  BY <1>2, <1>5, AdvanceTyped
<1>7. /\ ReadBits(flags, 1) = sign
      /\ ReadBits(sign, CoordIntegerBits) = Advance(sign, CoordIntegerBits)
      /\ ReadBits(flags, CoordIntegerBits) = Advance(flags, CoordIntegerBits)
      /\ ReadBits(whole, CoordFractionalBits) = Advance(whole, CoordFractionalBits)
  BY <1>1, ReadBitsAdvances
<1> QED BY <1>3, <1>5, <1>6, <1>7 DEF ReadBitCoord, SkipBitCoord

LEMMA BitNormal ==
  ASSUME TotalBits \in Nat, NEW at \in Cursors
  PROVE  ReadBitNormal(at) \in Cursors /\ SkipBitNormal(at) = ReadBitNormal(at)
<1>1. NormalFractionalBits \in Widths /\ NormalFractionalBits \in Nat
  BY WidthsFit, CoordAssumption
<1>2. ReadBitNormal(at) = Advance(Advance(at, 1), NormalFractionalBits)
  BY <1>1, ReadBitsAdvances DEF ReadBitNormal
<1>3. ReadBitNormal(at) = SkipBitNormal(at)
  BY <1>1, <1>2, AdvanceAdds DEF SkipBitNormal
<1>4. 1 + NormalFractionalBits \in Nat
  BY <1>1
<1> QED BY <1>3, <1>4, AdvanceTyped DEF SkipBitNormal

LEMMA BitVec3Coord ==
  ASSUME TotalBits \in Nat, NEW at \in Cursors
  PROVE  ReadBitVec3Coord(at) \in Cursors /\ SkipBitVec3Coord(at) = ReadBitVec3Coord(at)
<1> DEFINE flags == Advance(at, 3)
           x == IF IsSet(at) THEN ReadBitCoord(flags) ELSE flags
           y == IF IsSet(at + 1) THEN ReadBitCoord(x) ELSE x
<1>1. flags \in Cursors
  BY AdvanceTyped
<1>2. x \in Cursors /\ SkipBitCoord(flags) = ReadBitCoord(flags)
  BY <1>1, BitCoord
<1>3. y \in Cursors /\ SkipBitCoord(x) = ReadBitCoord(x)
  BY <1>2, BitCoord
<1>4. ReadBitCoord(y) \in Cursors /\ SkipBitCoord(y) = ReadBitCoord(y)
  BY <1>3, BitCoord
<1> QED BY <1>1, <1>2, <1>3, <1>4 DEF ReadBitVec3Coord, SkipBitVec3Coord

LEMMA BitVec3Normal ==
  ASSUME TotalBits \in Nat, NEW at \in Cursors
  PROVE  ReadBitVec3Normal(at) \in Cursors /\ SkipBitVec3Normal(at) = ReadBitVec3Normal(at)
<1> DEFINE flags == Advance(at, 2)
           x == IF IsSet(at) THEN ReadBitNormal(flags) ELSE flags
           y == IF IsSet(at + 1) THEN ReadBitNormal(x) ELSE x
<1>1. flags \in Cursors
  BY AdvanceTyped
<1>2. x \in Cursors /\ SkipBitNormal(flags) = ReadBitNormal(flags)
  BY <1>1, BitNormal
<1>3. y \in Cursors /\ SkipBitNormal(x) = ReadBitNormal(x)
  BY <1>2, BitNormal
<1>4. Advance(y, 1) \in Cursors
  BY <1>3, AdvanceTyped
<1> QED BY <1>1, <1>2, <1>3, <1>4 DEF ReadBitVec3Normal, SkipBitVec3Normal

LEMMA PreciseAngles ==
  ASSUME TotalBits \in Nat, NEW at \in Cursors
  PROVE  ReadPreciseAngles(at) \in Cursors /\ SkipPreciseAngles(at) = ReadPreciseAngles(at)
<1> DEFINE flags == Advance(at, 3)
           x == IF IsSet(at) THEN Advance(flags, PreciseBits) ELSE flags
           y == IF IsSet(at + 1) THEN Advance(x, PreciseBits) ELSE x
<1>1. PreciseBits \in Widths /\ PreciseBits \in Nat
  BY WidthsFit
<1>2. flags \in Cursors
  BY AdvanceTyped
<1>3. x \in Cursors
  BY <1>1, <1>2, AdvanceTyped
<1>4. y \in Cursors
  BY <1>1, <1>3, AdvanceTyped
<1>5. Advance(y, PreciseBits) \in Cursors
  BY <1>1, <1>4, AdvanceTyped
<1>6. \A c \in {flags, x, y} : ReadBits(c, PreciseBits) = Advance(c, PreciseBits)
  BY <1>1, ReadBitsAdvances
<1> QED BY <1>2, <1>4, <1>5, <1>6 DEF ReadPreciseAngles, SkipPreciseAngles

LEMMA Quantized ==
  ASSUME TotalBits \in Nat, NEW at \in Cursors, NEW flags \in 0 .. 3, NEW bits \in Widths
  PROVE  /\ ReadQuantized(at, flags, bits) \in Cursors
         /\ SkipQuantized(at, flags, bits) = ReadQuantized(at, flags, bits)
<1>1. Advance(at, flags) \in Cursors /\ bits \in Nat
  BY AdvanceTyped, WidthsFit
<1>2. Advance(Advance(at, flags), bits) \in Cursors
  BY <1>1, AdvanceTyped
<1>3. ReadBits(Advance(at, flags), bits) = Advance(Advance(at, flags), bits)
  BY ReadBitsAdvances
<1>4. ASSUME at # Failed, Shortcuts(at, flags) # {}
      PROVE  at + Min(Shortcuts(at, flags)) \in Cursors
  <2>1. Shortcuts(at, flags) \subseteq Nat
    BY DEF Shortcuts
  <2>2. Min(Shortcuts(at, flags)) \in Shortcuts(at, flags)
    BY <1>4, <2>1, MinIsLeast
  <2>3. Min(Shortcuts(at, flags)) \in Nat /\ at + Min(Shortcuts(at, flags)) <= TotalBits
    BY <2>1, <2>2 DEF Shortcuts
  <2> QED BY <1>4, <2>3 DEF Cursors, Failed
<1>5. Failed \in Cursors
  BY DEF Cursors, Failed
<1> QED BY <1>2, <1>3, <1>4, <1>5 DEF ReadQuantized, SkipQuantized

(* The limit is checked by neither, or by both: a string that ends in the  *)
(* buffer is too long only if more than the limit was left.                *)
LEMMA Strings ==
  ASSUME data \in Buffers, NEW at \in Cursors
  PROVE  ReadString(at) \in Cursors /\ SkipString(at) = ReadString(at)
<1>1. Failed \in Cursors
  BY Units DEF Cursors, Failed
<1>2. CASE at = Failed \/ Terminators(at) = {}
  BY <1>1, <1>2 DEF ReadString, SkipString
<1>3. CASE at # Failed /\ Terminators(at) # {}
  <2> DEFINE end == Min(Terminators(at))
  <2>1. Terminators(at) \subseteq 1 .. BytesLeft(at)
    BY DEF Terminators
  <2>2. Terminators(at) \subseteq Nat
    BY <2>1
  <2>3. end \in 1 .. BytesLeft(at)
    BY <1>3, <2>1, <2>2, MinIsLeast
  <2> HIDE DEF end
  <2>4. at \in 0 .. TotalBits
    BY <1>3, Units DEF Cursors, Failed
  <2>5. EndOfByte(at, end) \in Cursors
    BY <2>3, <2>4, EndOfByteTyped DEF Cursors, Failed
  <2>6. BytesLeft(at) \in Int /\ BytesLeft(EndOfByte(at, 1)) = BytesLeft(at) - 1
    BY <2>4, Units, ByteAssumption DEF BytesLeft, EndOfByte
  <2>7. MaxFieldString \in Nat
    BY WidthsAssumption
  <2> QED BY <1>1, <1>3, <2>3, <2>5, <2>6, <2>7 DEF ReadString, SkipString, end
<1> QED BY <1>2, <1>3

LEMMA BinaryBlocks ==
  ASSUME data \in Buffers, NEW at \in Cursors
  PROVE  ReadBinaryBlock(at) \in Cursors /\ SkipBinaryBlock(at) = ReadBinaryBlock(at)
<1> DEFINE bytes == ReadVarint(at, Varint32Bytes)
           n     == BlockLength(at)
<1>1. Failed \in Cursors /\ bytes \in Cursors /\ TotalBits \in Nat
  BY Units, VarintTyped DEF Cursors, Failed
<1>2. ASSUME BlockFits(at)
      PROVE  Advance(bytes, n * ByteBits) \in Cursors /\ ReadBytes(bytes, n) = Advance(bytes, n * ByteBits)
  <2>1. n \in Nat
    BY <1>2, WidthsAssumption DEF BlockFits
  <2>2. n * ByteBits \in Nat
    BY <2>1, ByteAssumption, ProductIn
  <2> QED BY <1>1, <2>1, <2>2, AdvanceTyped, ReadBytesAdvances
<1> QED BY <1>1, <1>2 DEF ReadBinaryBlock, SkipBinaryBlock

LEMMA UBitVarTyped ==
  ASSUME TotalBits \in Nat, NEW at \in Cursors
  PROVE  ReadUBitVar(at) \in Cursors
<1>1. Failed \in Cursors
  BY DEF Cursors, Failed
<1>2. ReadBits(at, UBitVarBits) \in Cursors
  BY OperandAssumption, ReadBitsTyped
<1>3. UBitVarSelector(at) \in 0 .. 3
  BY DEF UBitVarSelector
<1>4. UBitVarMore[UBitVarSelector(at)] \in Nat
  BY <1>3, OperandAssumption
<1> QED BY <1>1, <1>2, <1>4, ReadBitsTyped DEF ReadUBitVar

----------------------------------------------------------------------------
(* The dispatchers.                                                        *)

Agree(d, at) == DecodeScalar(d, at) \in Cursors /\ SkipScalar(d, at) = DecodeScalar(d, at)

(* A vector is made of floats, whose widths are checked. *)
LEMMA FloatsFit == \A d \in FloatDecoders : d \in ScalarDecoders /\ ~TooWide(d)
BY DEF FloatDecoders, ScalarDecoders, TooWide

(* An angle that is too wide is not decoded. *)
LEMMA TooWideFails ==
  ASSUME data \in Buffers, NEW d \in ScalarDecoders, TooWide(d), NEW at \in Cursors
  PROVE  Decode(d, at) = Failed /\ Skip(d, at) \in Cursors
<1> DEFINE n == d.bits
<1>1. TotalBits \in Nat /\ WordBits \in Nat
  BY Units
<1>2. n \in Nat /\ n > WordBits /\ d.kind \in {"QAnglePitchYaw", "QAngleBitCount"}
  BY DEF TooWide, ScalarDecoders, FloatDecoders
<1> HIDE DEF n
<1>3. \A c : ReadBits(c, n) = Failed
  BY <1>1, <1>2 DEF ReadBits
<1>4. n * 2 \in Nat /\ n * 3 \in Nat
  BY <1>2
<1>5. Advance(at, n * 2) \in Cursors /\ Advance(at, n * 3) \in Cursors
  BY <1>1, <1>4, AdvanceTyped
<1>6. Decode(d, at) = DecodeScalar(d, at) /\ Skip(d, at) = SkipScalar(d, at)
  BY <1>2 DEF Decode, Skip
<1> QED BY <1>2, <1>3, <1>5, <1>6 DEF DecodeScalar, SkipScalar, n

LEMMA ScalarsAgree ==
  ASSUME data \in Buffers, NEW d \in ScalarDecoders, ~TooWide(d), NEW at \in Cursors
  PROVE  Agree(d, at)
<1>1. TotalBits \in Nat /\ WordBits \in Nat
  BY Units
<1>2. \A n \in Widths : Advance(at, n) \in Cursors /\ ReadBits(at, n) = Advance(at, n)
  BY <1>1, WidthsFit, AdvanceTyped, ReadBitsAdvances
<1>3. {1, ByteBits, HalfBits} \subseteq Widths
  BY WidthsFit
<1>4. CASE d.kind = "Bool"
  BY <1>2, <1>3, <1>4 DEF Agree, DecodeScalar, SkipScalar
<1>5. CASE d.kind \in {"I64", "U64", "Default", "F32SimulationTime", "Ammo"}
  <2>1. ReadVarint(at, Varint64Bytes) \in Cursors /\ ReadVarint(at, Varint32Bytes) \in Cursors
    BY VarintTyped
  <2> QED BY <1>5, <2>1 DEF Agree, DecodeScalar, SkipScalar, SkipVarint
<1>6. CASE d.kind \in {"I64Fixed8", "U64Fixed8", "F32NoScale"}
  BY <1>2, <1>3, <1>6 DEF Agree, DecodeScalar, SkipScalar
<1>7. CASE d.kind = "U64Fixed64"
  <2>1. ReadBytes(at, WordBytes) = Advance(at, WordBits)
    BY ByteAssumption, ReadBytesAdvances DEF WordBits
  <2> QED BY <1>1, <1>7, <2>1, AdvanceTyped DEF Agree, DecodeScalar, SkipScalar
<1>8. CASE d.kind \in {"F32Coord", "F32Normal"}
  BY <1>1, <1>8, BitCoord, BitNormal DEF Agree, DecodeScalar, SkipScalar
<1>9. CASE d.kind = "F32Quantized"
  <2>1. d.flags \in 0 .. 3 /\ d.bits \in Widths
    BY <1>9 DEF ScalarDecoders, FloatDecoders
  <2> QED BY <1>1, <1>9, <2>1, Quantized DEF Agree, DecodeScalar, SkipScalar
<1>10. CASE d.kind \in {"String", "BinaryBlock"}
  BY <1>10, Strings, BinaryBlocks DEF Agree, DecodeScalar, SkipScalar
<1>11. CASE d.kind = "Poly"
  <2>1. ReadUBitVar(Advance(at, 1)) \in Cursors
    BY <1>1, AdvanceTyped, UBitVarTyped
  <2> QED BY <1>11, <2>1 DEF Agree, DecodeScalar, SkipScalar
<1>12. CASE d.kind \in {"Vector3Normal", "QAnglePrecise", "QAngleCoord"}
  BY <1>1, <1>12, BitVec3Normal, PreciseAngles, BitVec3Coord
  DEF Agree, DecodeScalar, SkipScalar
<1>13. CASE d.kind \in {"QAnglePitchYaw", "QAngleBitCount"}
  <2> DEFINE n == d.bits
             one == Advance(at, n)
             two == Advance(one, n)
             three == Advance(two, n)
  <2>1. n \in Widths /\ n \in Nat
    BY <1>1, <1>13 DEF ScalarDecoders, FloatDecoders, TooWide, Widths
  <2> HIDE DEF n
  <2>2. one \in Cursors
    BY <1>1, <2>1, AdvanceTyped
  <2>3. two \in Cursors
    BY <1>1, <2>1, <2>2, AdvanceTyped
  <2>4. three \in Cursors
    BY <1>1, <2>1, <2>3, AdvanceTyped
  <2>5. two = Advance(at, n * 2)
    BY <1>1, <2>1, AdvanceAdds
  <2>6. three = Advance(at, n * 3)
    <3>1. n * 2 \in Nat /\ n * 2 + n = n * 3
      BY <2>1
    <3> QED BY <1>1, <2>1, <2>5, <3>1, AdvanceAdds
  <2>7. \A c \in {at, one, two} : ReadBits(c, n) = Advance(c, n)
    BY <2>1, ReadBitsAdvances
  <2>8. /\ ReadBits(ReadBits(at, n), n) = two
        /\ ReadBits(ReadBits(ReadBits(at, n), n), n) = three
    BY <2>7
  <2> QED BY <1>13, <2>3, <2>4, <2>5, <2>6, <2>8 DEF Agree, DecodeScalar, SkipScalar, n
<1> QED
  BY <1>4, <1>5, <1>6, <1>7, <1>8, <1>9, <1>10, <1>11, <1>12, <1>13
  DEF ScalarDecoders, FloatDecoders

LEMMA Twice ==
  ASSUME data \in Buffers, NEW d \in FloatDecoders, NEW at \in Cursors
  PROVE  DecodeTwo(d, at) \in Cursors /\ SkipTwo(d, at) = DecodeTwo(d, at)
<1>1. Agree(d, at)
  BY ScalarsAgree, FloatsFit
<1>2. Agree(d, DecodeScalar(d, at))
  BY <1>1, ScalarsAgree, FloatsFit DEF Agree
<1> QED BY <1>1, <1>2 DEF Agree, DecodeTwo, SkipTwo

(* Three whole floats at once are three whole floats. *)
LEMMA FloatsAtOnce ==
  ASSUME data \in Buffers, NEW d \in ScalarDecoders, d.kind = "F32NoScale", NEW at \in Cursors
  PROVE  Advance(at, 3 * HalfBits) = DecodeScalar(d, DecodeTwo(d, at))
<1> DEFINE one == Advance(at, HalfBits)
           two == Advance(one, HalfBits)
<1>1. TotalBits \in Nat /\ HalfBits \in Widths /\ HalfBits \in Nat
  BY Units, WidthsFit
<1>2. one \in Cursors
  BY <1>1, AdvanceTyped
<1>3. \A c : DecodeScalar(d, c) = Advance(c, HalfBits)
  BY <1>1, ReadBitsAdvances DEF DecodeScalar
<1>4. DecodeScalar(d, DecodeTwo(d, at)) = Advance(two, HalfBits)
  BY <1>3 DEF DecodeTwo
<1>5. two = Advance(at, HalfBits + HalfBits)
  BY <1>1, AdvanceAdds
<1>6. HalfBits + HalfBits \in Nat /\ HalfBits + HalfBits + HalfBits = 3 * HalfBits
  BY <1>1
<1> QED BY <1>1, <1>4, <1>5, <1>6, AdvanceAdds

LEMMA FieldsAgree ==
  ASSUME data \in Buffers, NEW d \in ScalarDecoders \cup VectorDecoders, ~TooWide(d),
         NEW at \in Cursors
  PROVE  Decode(d, at) \in Cursors /\ Skip(d, at) = Decode(d, at)
<1>1. CASE d \in ScalarDecoders
  <2>1. d.kind \notin {"Vector2", "Vector3", "Vector4", "FloatVec6"}
    BY <1>1 DEF ScalarDecoders, FloatDecoders
  <2> QED BY <1>1, <2>1, ScalarsAgree DEF Agree, Decode, Skip
<1>2. CASE d \in VectorDecoders
  <2> DEFINE f == d.inner
             two == DecodeTwo(f, at)
             four == DecodeTwo(f, two)
  <2>1. f \in FloatDecoders /\ d.kind \in {"Vector2", "Vector3", "Vector4", "FloatVec6"}
    BY <1>2 DEF VectorDecoders
  <2> HIDE DEF f
  <2>2. two \in Cursors /\ SkipTwo(f, at) = two
    BY <2>1, Twice
  <2>3. four \in Cursors /\ SkipTwo(f, two) = four
    BY <2>1, <2>2, Twice
  <2>4. DecodeTwo(f, four) \in Cursors /\ SkipTwo(f, four) = DecodeTwo(f, four)
    BY <2>1, <2>3, Twice
  <2>5. DecodeScalar(f, two) \in Cursors /\ SkipScalar(f, two) = DecodeScalar(f, two)
    BY <2>1, <2>2, ScalarsAgree, FloatsFit DEF Agree
  <2>6. f.kind = "F32NoScale" => Advance(at, 3 * HalfBits) = DecodeScalar(f, two)
    BY <2>1, FloatsFit, FloatsAtOnce
  <2> HIDE DEF two, four
  <2>7. CASE d.kind \in {"Vector2", "Vector4", "FloatVec6"}
    BY <2>2, <2>3, <2>4, <2>7 DEF Decode, Skip, f, two, four
  <2>8. CASE d.kind = "Vector3"
    BY <2>2, <2>5, <2>6, <2>8 DEF Decode, Skip, f, two
  <2> QED BY <2>1, <2>7, <2>8
<1> QED BY <1>1, <1>2

----------------------------------------------------------------------------
(* Deltas.                                                                 *)

Inv == TypeOK /\ SkipAgrees

LEMMA InitInv ==
  ASSUME Init
  PROVE  Inv
<1>1. data \in Buffers /\ decoded \in 0 .. TotalBits /\ skipped = decoded /\ oversize = FALSE
  BY DEF Init
<1>2. 0 .. TotalBits \subseteq Cursors
  BY <1>1, Units DEF Cursors, Failed
<1> QED BY <1>1, <1>2 DEF Inv, TypeOK, SkipAgrees

LEMMA NextInv ==
  ASSUME Inv, [Next]_vars
  PROVE  Inv'
<1>1. CASE UNCHANGED vars
  BY <1>1 DEF vars, Inv, TypeOK, SkipAgrees, Cursors, TotalBits
<1>2. ASSUME NEW d \in Decoders, ReadField(d)
      PROVE  Inv'
  <2>1. data \in Buffers /\ decoded \in Cursors /\ oversize = FALSE /\ skipped = decoded
    BY <1>2 DEF Inv, TypeOK, SkipAgrees, ReadField
  <2>2. /\ data' = data /\ decoded' = Decode(d, decoded) /\ skipped' = Skip(d, decoded)
        /\ oversize' = TooWide(d)
    BY <1>2, <2>1 DEF ReadField, TooWide
  <2>3. Cursors' = Cursors
    BY <2>2 DEF Cursors, TotalBits
  <2>4. CASE ~TooWide(d)
    <3>1. Decode(d, decoded) \in Cursors /\ Skip(d, decoded) = Decode(d, decoded)
      BY <2>1, <2>4, FieldsAgree, DecodersAssumption
    <3>2. oversize' = FALSE /\ skipped' = decoded' /\ decoded' \in Cursors
      BY <2>2, <2>4, <3>1
    <3>3. TypeOK'
      BY <2>1, <2>2, <2>3, <3>2 DEF TypeOK
    <3> QED BY <3>2, <3>3 DEF Inv, SkipAgrees
  <2>5. CASE TooWide(d)
    <3>1. d \in ScalarDecoders
      BY <2>5, DecodersAssumption DEF TooWide, VectorDecoders
    <3>2. Decode(d, decoded) = Failed /\ Skip(d, decoded) \in Cursors
      BY <2>1, <2>5, <3>1, TooWideFails
    <3>3. Failed \in Cursors
      BY <2>1, Units DEF Cursors, Failed
    <3>4. oversize' = TRUE /\ decoded' = Failed
      BY <2>2, <2>5, <3>2
    <3>5. TypeOK'
      BY <2>1, <2>2, <2>3, <3>2, <3>3, <3>4 DEF TypeOK
    <3> QED BY <3>4, <3>5 DEF Inv, SkipAgrees
  <2> QED BY <2>4, <2>5
<1> QED BY <1>1, <1>2 DEF Next

(* The cursors stay inside the buffer they read.                           *)
THEOREM TypeCorrect == Spec => []TypeOK
<1>1. Inv => TypeOK
  BY DEF Inv
<1> QED BY InitInv, NextInv, <1>1, PTL DEF Spec

(* Whatever the buffer, the fields and the widths, Decoder::skip leaves    *)
(* the reader where Decoder::decode leaves it, and fails where it fails,   *)
(* until an angle is wider than a read may be, which is never decoded.     *)
THEOREM SkipIsDecode == Spec => []SkipAgrees
<1>1. Inv => SkipAgrees
  BY DEF Inv
<1> QED BY InitInv, NextInv, <1>1, PTL DEF Spec

----------------------------------------------------------------------------
(* The readers.                                                            *)

LEMMA CursorInBuffer ==
  ASSUME TypeOK, decoded # Failed
  PROVE  BufferTyped /\ decoded \in Nat /\ TotalBits \in Nat /\ decoded <= TotalBits
BY Units, BuffersAssumption DEF TypeOK, BufferTyped, Cursors, Failed

LEMMA ReadsFollow == TypeOK => ReadsAreBits
<1> SUFFICES ASSUME TypeOK, decoded # Failed
             PROVE  /\ \A n \in 0 .. WordBits : decoded + n <= TotalBits
                         => Peek(decoded, n) = Number(decoded, n)
                    /\ BytesLeft(decoded) > 0 => PeekU8(decoded) = Number(decoded, ByteBits)
                    /\ \A k \in 1 .. BytesLeft(decoded) :
                         PeekBytes(decoded, k - 1) = Number(decoded + (k - 1) * ByteBits, ByteBits)
                    /\ TotalBits - decoded >= LongestOperand
                         => OperandAtOnce(decoded) = OperandStepwise(decoded)
  BY DEF ReadsAreBits
<1>1. BufferTyped /\ decoded \in Nat /\ TotalBits \in Nat /\ decoded <= TotalBits /\ ByteBits \in Nat \ {0}
  BY CursorInBuffer, ByteIs
<1>2. ASSUME NEW n \in 0 .. WordBits, decoded + n <= TotalBits
      PROVE  Peek(decoded, n) = Number(decoded, n)
  <2>1. n \in Nat
    BY <1>2, WordIs
  <2>2. Number(decoded, n) = Value(BitAt, decoded, n)
    BY <1>1, <1>2, <2>1, NumberIsBits
  <2>3. Peek(decoded, n) = Value(BitAt, decoded, n)
    BY <1>1, <1>2, PeekIsBits
  <2> QED BY <2>2, <2>3
<1>3. ASSUME NEW k \in 1 .. BytesLeft(decoded)
      PROVE  /\ decoded + (k - 1) * ByteBits \in Nat
             /\ decoded + (k - 1) * ByteBits + ByteBits <= TotalBits
  <2>1. TotalBits - decoded \in Nat /\ BytesLeft(decoded) \in Nat
    BY <1>1, DivisionIs DEF BytesLeft
  <2>2. k \in Nat /\ k - 1 \in Nat /\ k * ByteBits <= TotalBits - decoded
    BY <1>3, <2>1, BytesFit DEF BytesLeft
  <2>3. (k - 1) * ByteBits + ByteBits = k * ByteBits /\ (k - 1) * ByteBits \in Nat /\ k * ByteBits \in Nat
    BY <1>1, <2>2, SMTT(20)
  <2> QED BY <1>1, <2>2, <2>3
<1>4. ASSUME NEW k \in 1 .. BytesLeft(decoded)
      PROVE  PeekBytes(decoded, k - 1) = Number(decoded + (k - 1) * ByteBits, ByteBits)
  <2> DEFINE at == decoded + (k - 1) * ByteBits
  <2>1. at \in Nat /\ at + ByteBits <= TotalBits
    BY <1>3
  <2>2. k - 1 \in Nat
    BY <1>4
  <2>3. PeekBytes(decoded, k - 1) = Value(BitAt, at, ByteBits)
    BY <1>1, <2>2, PeekBytesIsBits
  <2> HIDE DEF at
  <2>4. Number(at, ByteBits) = Value(BitAt, at, ByteBits)
    BY <1>1, <2>1, NumberIsBits
  <2> QED BY <2>3, <2>4 DEF at
<1>5. ASSUME BytesLeft(decoded) > 0
      PROVE  PeekU8(decoded) = Number(decoded, ByteBits)
  <2>1. decoded + ByteBits <= TotalBits
    <3>1. TotalBits - decoded \in Nat /\ 1 <= BytesLeft(decoded)
      <4>1. TotalBits - decoded \in Nat
        BY <1>1
      <4>2. BytesLeft(decoded) \in Nat
        BY <1>1, <4>1, DivisionIs DEF BytesLeft
      <4> QED BY <1>5, <4>1, <4>2
    <3>2. 1 * ByteBits <= TotalBits - decoded
      BY <3>1, BytesFit DEF BytesLeft
    <3> QED BY <1>1, <3>2
  <2>2. Number(decoded, ByteBits) = Value(BitAt, decoded, ByteBits)
    BY <1>1, <2>1, NumberIsBits
  <2>3. PeekU8(decoded) = Value(BitAt, decoded, ByteBits)
    BY <1>1, PeekU8IsBits
  <2> QED BY <2>2, <2>3
<1>6. TotalBits - decoded >= LongestOperand => OperandAtOnce(decoded) = OperandStepwise(decoded)
  BY <1>1, OperandsAgree
<1> QED BY <1>2, <1>4, <1>5, <1>6

(* Wherever a field is read, every reader of numbers gives the bits from   *)
(* the cursor on, for all widths of bytes, words and operands: the word    *)
(* with the byte behind it (peek_bits_unchecked), the two bytes of read_u8,*)
(* the shifted copy of read_bytes, and read_ubitvarfp in one look.         *)
THEOREM ReadersGiveTheBits == Spec => []ReadsAreBits
<1>1. TypeOK => ReadsAreBits
  BY ReadsFollow
<1> QED BY TypeCorrect, <1>1, PTL

----------------------------------------------------------------------------
(* The tree of the path operations.                                        *)

(* One turn of the loop in build_fieldop_hierarchy, what it starts from,   *)
(* and the number of turns.                                                *)
Merged(heap, k) ==
  LET left  == First(heap)
      right == First(heap \ {left})
  IN  (heap \ {left, right}) \cup {Branch(Len(Weights) + k - 1, left, right)}
Leaves == {Leaf(op) : op \in Ops}
Merges == Len(Weights) - 1

LEMMA MergesAre == Merges \in Nat \ {0} /\ Len(Weights) = Merges + 1 /\ Ops = 0 .. Merges
<1>1. Len(Weights) \in Nat /\ Len(Weights) > 1
  BY WeightsAssumption
<1>2. Ops = 0 .. Merges
  BY DEF Ops, Merges
<1> QED BY <1>1, <1>2 DEF Merges

(* The heaps are there, one after each turn. *)
LEMMA HeapsAre ==
  /\ HeapAfter[0] = Leaves
  /\ \A k \in 1 .. Merges : HeapAfter[k] = Merged(HeapAfter[k - 1], k)
<1> DEFINE R(g) == g = [merges \in Ops |->
                          IF merges = 0 THEN Leaves ELSE Merged(g[merges - 1], merges)]
           Upto(m, g) == g = [k \in 0 .. m |-> IF k = 0 THEN Leaves ELSE Merged(g[k - 1], k)]
           S == {m \in 0 .. Merges : \E g : Upto(m, g)}
<1>1. HeapAfter = CHOOSE g : R(g)
  BY DEF HeapAfter, Merged, Leaves
<1>2. 0 \in S
  <2> DEFINE g == [k \in 0 .. 0 |-> Leaves]
  <2>1. Upto(0, g)
    OBVIOUS
  <2>2. 0 \in 0 .. Merges
    BY MergesAre
  <2> QED BY <2>1, <2>2
<1>3. ASSUME NEW m \in 0 .. Merges - 1, m \in S PROVE m + 1 \in S
  <2>1. PICK f : Upto(m, f)
    BY <1>3
  <2>2. m \in Nat /\ m \in 0 .. m /\ m + 1 \in 0 .. Merges
    BY MergesAre
  <2> DEFINE g == [k \in 0 .. m + 1 |-> IF k <= m THEN f[k] ELSE Merged(f[m], m + 1)]
  <2>3. ASSUME NEW k \in 0 .. m + 1
        PROVE  g[k] = IF k = 0 THEN Leaves ELSE Merged(g[k - 1], k)
    <3>1. CASE k = 0
      <4>1. 0 \in 0 .. m /\ 0 <= m
        BY <2>2
      <4>2. g[k] = f[0]
        BY <3>1, <4>1
      <4>3. f[0] = Leaves
        BY <2>1, <4>1
      <4> QED BY <3>1, <4>2, <4>3
    <3>2. CASE k # 0 /\ k <= m
      <4>1. k \in 0 .. m /\ k - 1 \in 0 .. m + 1 /\ k - 1 <= m
        BY <2>2, <3>2
      <4>2. g[k] = f[k] /\ g[k - 1] = f[k - 1]
        BY <3>2, <4>1
      <4>3. f[k] = Merged(f[k - 1], k)
        <5> HIDE DEF g
        <5> QED BY <2>1, <3>2, <4>1
      <4> HIDE DEF g
      <4> QED BY <3>2, <4>2, <4>3
    <3>3. CASE ~(k <= m)
      <4>1. k = m + 1 /\ k - 1 = m /\ m \in 0 .. m + 1 /\ m <= m /\ k # 0
        BY <2>2, <3>3
      <4>2. g[k] = Merged(f[m], m + 1) /\ g[m] = f[m]
        BY <2>2, <3>3, <4>1
      <4> HIDE DEF g
      <4> QED BY <4>1, <4>2
    <3> QED BY <3>1, <3>2, <3>3
  <2>4. g = [k \in 0 .. m + 1 |-> g[k]]
    OBVIOUS
  <2> HIDE DEF g
  <2>5. Upto(m + 1, g)
    BY <2>3, <2>4
  <2> QED BY <2>2, <2>5
<1>4. PICK f : Upto(Merges, f)
  <2> HIDE DEF S
  <2>1. \A k \in 0 .. Merges : k \in S
    BY <1>2, <1>3, MergesAre, Stepwise
  <2>2. Merges \in S
    BY <2>1, MergesAre
  <2> QED BY <2>2 DEF S
<1>5. R(f)
  BY <1>4, MergesAre
<1>6. R(HeapAfter)
  <2> HIDE DEF R
  <2> QED BY <1>1, <1>5
<1>7. 0 \in Ops /\ \A k \in 1 .. Merges : k \in Ops /\ k # 0
  BY MergesAre
<1> QED BY <1>6, <1>7

(* The heap after k turns: every turn leaves one node less, no two nodes   *)
(* have a number in common, so there is always a first one.                *)
HeapOk(heap, k) ==
  /\ IsFiniteSet(heap) /\ Cardinality(heap) = Len(Weights) - k
  /\ \A a \in heap : a.weight \in Nat /\ a.num \in 0 .. Merges + k
  /\ \A a, b \in heap : a.num = b.num => a = b

LEMMA FirstIn ==
  ASSUME NEW heap, heap # {}, NEW bound \in Nat,
         \A a \in heap : a.weight \in Nat /\ a.num \in 0 .. bound,
         \A a, b \in heap : a.num = b.num => a = b
  PROVE  First(heap) \in heap
<1> DEFINE W == {a.weight : a \in heap}
<1>1. PICK w \in W : \A v \in W : w <= v
  <2>1. W \subseteq Nat /\ W # {}
    OBVIOUS
  <2> HIDE DEF W
  <2> QED BY <2>1, LeastElement
<1> DEFINE N == {bound - a.num : a \in {b \in heap : b.weight = w}}
<1>2. PICK n \in N : \A v \in N : n <= v
  <2>1. N \subseteq Nat /\ N # {}
    OBVIOUS
  <2> HIDE DEF N
  <2> QED BY <2>1, LeastElement
<1>3. PICK a \in heap : a.weight = w /\ n = bound - a.num
  BY <1>2
<1>4. ASSUME NEW b \in heap \ {a} PROVE Before(a, b)
  <2>1. b.weight \in Nat /\ b.num \in Nat /\ a.weight \in Nat /\ a.num \in Nat /\ a.num # b.num
    BY <1>3
  <2>2. a.weight <= b.weight
    BY <1>1, <1>3
  <2>3. b.weight = w => bound - a.num <= bound - b.num
    BY <1>2, <1>3
  <2> QED BY <1>3, <2>1, <2>2, <2>3 DEF Before
<1>5. \E x \in heap : \A b \in heap \ {x} : Before(x, b)
  BY <1>4
<1> QED BY <1>5 DEF First

LEMMA LeavesOk == HeapOk(Leaves, 0)
<1> DEFINE f == [op \in Ops |-> Leaf(op)]
<1>1. IsFiniteSet(Ops) /\ Cardinality(Ops) = Len(Weights)
  <2>1. IsFiniteSet(0 .. Merges) /\ Cardinality(0 .. Merges) = IF 0 > Merges THEN 0 ELSE Merges - 0 + 1
    BY MergesAre, FS_Interval
  <2> QED BY <2>1, MergesAre
<1>2. ASSUME NEW op \in Ops
      PROVE  Leaf(op).num = op /\ Leaf(op).weight \in Nat /\ op \in 0 .. Merges
  <2>1. op \in 0 .. Merges /\ op + 1 \in 1 .. Len(Weights)
    BY MergesAre
  <2>2. Weights[op + 1] \in Nat
    BY <2>1, WeightsAssumption
  <2> QED BY <2>1, <2>2 DEF Leaf
<1>3. \A x, y \in Ops : f[x] = f[y] => x = y
  BY <1>2
<1>4. f \in Surjection(Ops, Leaves)
  BY DEF Leaves, Surjection
<1>5. f \in Injection(Ops, Leaves)
  <2>1. f \in [Ops -> Leaves]
    BY DEF Leaves
  <2> HIDE DEF f
  <2> QED BY <1>3, <2>1 DEF Injection, IsInjective
<1>6. IsFiniteSet(Leaves) /\ Cardinality(Leaves) = Cardinality(Ops)
  <2> HIDE DEF f
  <2> QED BY <1>1, <1>4, <1>5, FS_Surjection
<1>7. \A a \in Leaves : \E op \in Ops : a = Leaf(op)
  BY DEF Leaves
<1>8. \A a \in Leaves : a.weight \in Nat /\ a.num \in 0 .. Merges + 0
  BY <1>2, <1>7, MergesAre
<1>9. \A a, b \in Leaves : a.num = b.num => a = b
  BY <1>2, <1>7
<1>10. Len(Weights) - 0 = Len(Weights)
  BY MergesAre
<1> QED BY <1>1, <1>6, <1>8, <1>9, <1>10 DEF HeapOk

(* A turn takes two nodes from the heap and puts a branch to them in.      *)
LEMMA MergeOk ==
  ASSUME NEW heap, NEW k \in 1 .. Merges, HeapOk(heap, k - 1)
  PROVE  /\ HeapOk(Merged(heap, k), k)
         /\ \A node \in Merged(heap, k) :
              node \in heap \/ \E a, b \in heap : node.children = <<a, b>>
<1> DEFINE left  == First(heap)
           rest  == heap \ {left}
           right == First(rest)
           kept  == rest \ {right}
           node  == Branch(Len(Weights) + k - 1, left, right)
<1>1. k \in Nat /\ Merges \in Nat /\ k <= Merges /\ Len(Weights) = Merges + 1 /\ k - 1 \in Nat
  BY MergesAre
<1>2. /\ IsFiniteSet(heap) /\ Cardinality(heap) = Merges + 2 - k
      /\ \A a \in heap : a.weight \in Nat /\ a.num \in 0 .. Merges + (k - 1)
      /\ \A a, b \in heap : a.num = b.num => a = b
  BY <1>1 DEF HeapOk
<1>3. Merges + (k - 1) \in Nat
  BY <1>1
<1>4. left \in heap
  <2>1. heap # {}
    BY <1>1, <1>2, FS_EmptySet
  <2> QED BY <1>2, <1>3, <2>1, FirstIn
<1>5. IsFiniteSet(rest) /\ Cardinality(rest) = Merges + 1 - k
  <2>1. IsFiniteSet(rest) /\ Cardinality(rest) = Cardinality(heap) - 1
    <3> HIDE DEF left
    <3> QED BY <1>2, <1>4, FS_RemoveElement
  <2> HIDE DEF rest
  <2> QED BY <1>1, <1>2, <2>1
<1>6. right \in rest
  <2>1. rest # {}
    <3> HIDE DEF rest
    <3> QED BY <1>1, <1>5, FS_EmptySet
  <2>2. /\ \A a \in rest : a.weight \in Nat /\ a.num \in 0 .. Merges + (k - 1)
        /\ \A a, b \in rest : a.num = b.num => a = b
    <3> HIDE DEF left
    <3> QED BY <1>2
  <2> HIDE DEF rest
  <2> QED BY <1>3, <2>1, <2>2, FirstIn
<1>7. IsFiniteSet(kept) /\ Cardinality(kept) = Merges - k
  <2>1. IsFiniteSet(kept) /\ Cardinality(kept) = Cardinality(rest) - 1
    <3> HIDE DEF rest, right
    <3> QED BY <1>5, <1>6, FS_RemoveElement
  <2> HIDE DEF rest, kept
  <2> QED BY <1>1, <1>5, <2>1
<1>8. /\ node.num = Merges + k /\ node.weight = left.weight + right.weight
      /\ node.children = <<left, right>>
  <2>1. Len(Weights) + k - 1 = Merges + k
    BY <1>1
  <2> HIDE DEF left, right
  <2> QED BY <2>1 DEF Branch
<1>9. Merged(heap, k) = kept \cup {node}
  <2>1. kept = heap \ {left, right}
    <3> HIDE DEF left, right
    <3> QED OBVIOUS
  <2> QED BY <2>1 DEF Merged
<1>10. kept \subseteq heap /\ right \in heap
  <2> HIDE DEF left, right
  <2> QED BY <1>6
<1> HIDE DEF left, rest, right, kept, node
<1>11. \A a \in kept : a.num # node.num
  <2> SUFFICES ASSUME NEW a \in kept, a.num = node.num PROVE FALSE
    OBVIOUS
  <2>1. a.num \in 0 .. Merges + (k - 1)
    BY <1>2, <1>10
  <2>2. a.num = Merges + k
    BY <1>8
  <2> QED BY <1>1, <2>1, <2>2
<1>12. IsFiniteSet(Merged(heap, k)) /\ Cardinality(Merged(heap, k)) = Len(Weights) - k
  <2>1. node \notin kept
    BY <1>11
  <2>2. IsFiniteSet(kept \cup {node}) /\ Cardinality(kept \cup {node}) = Cardinality(kept) + 1
    BY <1>7, <2>1, FS_AddElement
  <2>3. (Merges - k) + 1 = Len(Weights) - k
    BY <1>1
  <2> QED BY <1>7, <1>9, <2>2, <2>3
<1>13. node.weight \in Nat /\ node.num \in 0 .. Merges + k
  <2>1. left.weight \in Nat /\ right.weight \in Nat
    BY <1>2, <1>4, <1>10
  <2>2. left.weight + right.weight \in Nat /\ Merges + k \in 0 .. Merges + k
    BY <1>1, <2>1
  <2> QED BY <1>8, <2>2
<1>14. \A a \in kept : a.weight \in Nat /\ a.num \in 0 .. Merges + k
  <2>1. \A n \in 0 .. Merges + (k - 1) : n \in 0 .. Merges + k
    BY <1>1
  <2> QED BY <1>2, <1>10, <2>1
<1>15. \A a \in Merged(heap, k) : a.weight \in Nat /\ a.num \in 0 .. Merges + k
  BY <1>9, <1>13, <1>14
<1>16. \A a, b \in Merged(heap, k) : a.num = b.num => a = b
  BY <1>2, <1>9, <1>10, <1>11
<1>17. HeapOk(Merged(heap, k), k)
  BY <1>12, <1>15, <1>16 DEF HeapOk
<1>18. \A a \in Merged(heap, k) : a \in heap \/ a.children = <<left, right>>
  BY <1>8, <1>9, <1>10
<1> QED BY <1>4, <1>10, <1>17, <1>18

(* All nodes are made by the turns; the tree is the one left by the last.  *)
Nodes == UNION {HeapAfter[k] : k \in Ops}

LEMMA HeapsOk == \A k \in 0 .. Merges : HeapOk(HeapAfter[k], k)
<1> DEFINE S == {k \in 0 .. Merges : HeapOk(HeapAfter[k], k)}
<1>1. 0 \in S
  BY LeavesOk, HeapsAre, MergesAre
<1>2. ASSUME NEW k \in 0 .. Merges - 1, k \in S PROVE k + 1 \in S
  <2>1. k + 1 \in 1 .. Merges /\ (k + 1) - 1 = k /\ k + 1 \in 0 .. Merges
    BY MergesAre
  <2>2. HeapAfter[k + 1] = Merged(HeapAfter[k], k + 1)
    BY <2>1, HeapsAre
  <2>3. HeapOk(HeapAfter[k], (k + 1) - 1)
    BY <1>2, <2>1
  <2>4. HeapOk(Merged(HeapAfter[k], k + 1), k + 1)
    BY <2>1, <2>3, MergeOk
  <2> QED BY <2>1, <2>2, <2>4
<1>3. \A k \in 0 .. Merges : k \in S
  <2> HIDE DEF S
  <2> QED BY <1>1, <1>2, MergesAre, Stepwise
<1> QED BY <1>3

LEMMA HierarchyIn == Hierarchy \in HeapAfter[Merges]
<1>1. Merges \in 0 .. Merges /\ Merges \in Nat /\ Len(Weights) - Merges = 1
  BY MergesAre
<1>2. HeapOk(HeapAfter[Merges], Merges)
  BY <1>1, HeapsOk
<1> DEFINE heap == HeapAfter[Merges]
           bound == Merges + Merges
<1>3. /\ IsFiniteSet(heap) /\ Cardinality(heap) = 1
      /\ \A a \in heap : a.weight \in Nat /\ a.num \in 0 .. bound
      /\ \A a, b \in heap : a.num = b.num => a = b
  BY <1>1, <1>2 DEF HeapOk
<1>4. bound \in Nat
  BY <1>1
<1>5. Hierarchy = First(heap)
  BY DEF Hierarchy, Merges
<1> HIDE DEF heap, bound
<1>6. heap # {}
  BY <1>3, FS_EmptySet
<1>7. First(heap) \in heap
  BY <1>3, <1>4, <1>6, FirstIn
<1> QED BY <1>5, <1>7 DEF heap

(* A node is a leaf or has two nodes under it. *)
LEMMA NodesAre ==
  /\ Hierarchy \in Nodes
  /\ \A node \in Nodes : IsLeaf(node) \/ \E a, b \in Nodes : node.children = <<a, b>>
<1>1. ASSUME NEW k \in Ops, NEW node \in HeapAfter[k] PROVE node \in Nodes
  BY DEF Nodes
<1> DEFINE Made(node) == IsLeaf(node) \/ \E a, b \in Nodes : node.children = <<a, b>>
           S == {k \in 0 .. Merges : \A node \in HeapAfter[k] : Made(node)}
<1>2. 0 \in S
  <2>1. \A node \in Leaves : IsLeaf(node)
    BY DEF Leaves, Leaf, IsLeaf
  <2> QED BY <2>1, HeapsAre, MergesAre
<1>3. ASSUME NEW k \in 0 .. Merges - 1, k \in S PROVE k + 1 \in S
  <2>1. k + 1 \in 1 .. Merges /\ (k + 1) - 1 = k /\ k + 1 \in 0 .. Merges /\ k \in 0 .. Merges
        /\ k \in Ops
    BY MergesAre
  <2>2. HeapAfter[k + 1] = Merged(HeapAfter[k], k + 1)
    BY <2>1, HeapsAre
  <2>3. HeapOk(HeapAfter[k], (k + 1) - 1)
    BY <2>1, HeapsOk
  <2>4. \A node \in Merged(HeapAfter[k], k + 1) :
          node \in HeapAfter[k] \/ \E a, b \in HeapAfter[k] : node.children = <<a, b>>
    BY <2>1, <2>3, MergeOk
  <2>5. ASSUME NEW node \in HeapAfter[k + 1] PROVE Made(node)
    <3>1. node \in HeapAfter[k] \/ \E a, b \in HeapAfter[k] : node.children = <<a, b>>
      BY <2>2, <2>4
    <3>2. ASSUME NEW a \in HeapAfter[k], NEW b \in HeapAfter[k], node.children = <<a, b>>
          PROVE  Made(node)
      <4>1. a \in Nodes /\ b \in Nodes
        BY <1>1, <2>1
      <4> QED BY <3>2, <4>1
    <3>3. node \in HeapAfter[k] => Made(node)
      BY <1>3
    <3> HIDE DEF Made
    <3> QED BY <3>1, <3>2, <3>3
  <2> HIDE DEF Made
  <2> QED BY <2>1, <2>5
<1>4. \A k \in 0 .. Merges : k \in S
  <2> HIDE DEF S
  <2> QED BY <1>2, <1>3, MergesAre, Stepwise
<1>5. \A node \in Nodes : Made(node)
  <2> SUFFICES ASSUME NEW node \in Nodes PROVE Made(node)
    OBVIOUS
  <2>1. PICK k \in Ops : node \in HeapAfter[k]
    BY DEF Nodes
  <2>2. k \in S
    BY <1>4, MergesAre
  <2> HIDE DEF Made
  <2> QED BY <2>1, <2>2
<1>6. Hierarchy \in Nodes
  <2>1. Merges \in Ops
    BY MergesAre
  <2> QED BY <1>1, <2>1, HierarchyIn
<1> QED BY <1>5, <1>6

(* The nodes under which every way down ends within k bits. *)
Deeper(nodes) ==
  {node \in Nodes : IsLeaf(node) \/ \E a, b \in nodes : node.children = <<a, b>>}
Within[k \in 0 .. Merges] == IF k = 0 THEN Deeper({}) ELSE Deeper(Within[k - 1])

LEMMA WithinAre ==
  /\ Within[0] = Deeper({})
  /\ \A k \in 1 .. Merges : Within[k] = Deeper(Within[k - 1])
<1> DEFINE V == SUBSET Nodes
           start == Deeper({})
           step == [k \in 1 .. Merges |-> [v \in V |-> Deeper(v)]]
           R(g) == g = [k \in 0 .. Merges |-> IF k = 0 THEN start ELSE Deeper(g[k - 1])]
<1>1. start \in V /\ step \in [1 .. Merges -> [V -> V]]
  BY DEF Deeper
<1>2. PICK f : Recurses(f, Merges, V, start, step)
  <2> HIDE DEF start, step, V
  <2> QED BY <1>1, MergesAre, Recursion
<1>3. f \in [0 .. Merges -> V] /\ f[0] = start
  BY <1>2 DEF Recurses
<1>4. ASSUME NEW k \in 0 .. Merges, k # 0 PROVE f[k] = Deeper(f[k - 1])
  <2>1. k \in 1 .. Merges /\ k - 1 \in 0 .. Merges
    BY <1>4, MergesAre
  <2>2. f[k - 1] \in V
    BY <1>3, <2>1
  <2>3. step[k][f[k - 1]] = Deeper(f[k - 1])
    BY <2>1, <2>2
  <2> HIDE DEF step
  <2> QED BY <1>2, <2>1, <2>3 DEF Recurses
<1>5. R(f)
  <2> HIDE DEF start, V
  <2> QED BY <1>3, <1>4
<1>6. Within = CHOOSE g : R(g)
  BY DEF Within
<1>7. R(Within)
  <2> HIDE DEF R
  <2> QED BY <1>5, <1>6
<1>8. 0 \in 0 .. Merges /\ \A k \in 1 .. Merges : k \in 0 .. Merges /\ k # 0
  BY MergesAre
<1> HIDE DEF start
<1>9. Within[0] = start /\ \A k \in 1 .. Merges : Within[k] = Deeper(Within[k - 1])
  BY <1>7, <1>8
<1> QED BY <1>9 DEF start

LEMMA WithinGrows == \A k \in 0 .. Merges - 1 : Within[k] \subseteq Within[k + 1]
<1> DEFINE S == {k \in 0 .. Merges - 1 : Within[k] \subseteq Within[k + 1]}
<1>1. \A k \in 0 .. Merges - 1 : /\ k + 1 \in 1 .. Merges /\ (k + 1) - 1 = k
                                 /\ Within[k + 1] = Deeper(Within[k])
  BY MergesAre, WithinAre
<1>2. 0 \in S
  <2>1. 0 \in 0 .. Merges - 1
    BY MergesAre
  <2>2. Within[0 + 1] = Deeper(Within[0]) /\ Within[0] = Deeper({})
    BY <1>1, <2>1, WithinAre
  <2>3. Deeper({}) \subseteq Deeper(Within[0])
    BY DEF Deeper
  <2> QED BY <2>1, <2>2, <2>3
<1>3. ASSUME NEW k \in 0 .. (Merges - 1) - 1, k \in S PROVE k + 1 \in S
  <2>1. k \in 0 .. Merges - 1 /\ k + 1 \in 0 .. Merges - 1
    BY MergesAre
  <2>2. Within[k + 1] = Deeper(Within[k]) /\ Within[(k + 1) + 1] = Deeper(Within[k + 1])
    BY <1>1, <2>1
  <2>3. Within[k] \subseteq Within[k + 1]
    BY <1>3
  <2>4. Deeper(Within[k]) \subseteq Deeper(Within[k + 1])
    BY <2>3 DEF Deeper
  <2>5. Within[k + 1] \subseteq Within[(k + 1) + 1]
    BY <2>2, <2>4
  <2> QED BY <2>1, <2>5
<1>4. Merges - 1 \in Nat
  BY MergesAre
<1>5. \A k \in 0 .. Merges - 1 : k \in S
  <2> DEFINE last == Merges - 1
  <2> HIDE DEF S, last
  <2>1. last \in Nat /\ \A k \in 0 .. last - 1 : k \in S => k + 1 \in S
    BY <1>3, <1>4 DEF last
  <2>2. \A k \in 0 .. last : k \in S
    BY <1>2, <2>1, Stepwise
  <2> QED BY <2>2 DEF last
<1> QED BY <1>5

(* Every turn makes the tree one bit deeper at most. *)
LEMMA HeapsWithin == \A k \in 0 .. Merges : HeapAfter[k] \subseteq Within[k]
<1> DEFINE S == {k \in 0 .. Merges : HeapAfter[k] \subseteq Within[k]}
<1>1. \A k \in 0 .. Merges : HeapAfter[k] \subseteq Nodes
  BY MergesAre DEF Nodes
<1>2. 0 \in S
  <2>1. 0 \in 0 .. Merges /\ HeapAfter[0] = Leaves
    BY HeapsAre, MergesAre
  <2>2. \A node \in Leaves : IsLeaf(node)
    BY DEF Leaves, Leaf, IsLeaf
  <2>3. HeapAfter[0] \subseteq Deeper({})
    BY <1>1, <2>1, <2>2 DEF Deeper
  <2> QED BY <2>1, <2>3, WithinAre
<1>3. ASSUME NEW k \in 0 .. Merges - 1, k \in S PROVE k + 1 \in S
  <2>1. k + 1 \in 1 .. Merges /\ (k + 1) - 1 = k /\ k + 1 \in 0 .. Merges /\ k \in 0 .. Merges
    BY MergesAre
  <2>2. HeapAfter[k + 1] = Merged(HeapAfter[k], k + 1) /\ Within[k + 1] = Deeper(Within[k])
    BY <2>1, HeapsAre, WithinAre
  <2>3. HeapOk(HeapAfter[k], (k + 1) - 1)
    BY <2>1, HeapsOk
  <2>4. \A node \in Merged(HeapAfter[k], k + 1) :
          node \in HeapAfter[k] \/ \E a, b \in HeapAfter[k] : node.children = <<a, b>>
    BY <2>1, <2>3, MergeOk
  <2>5. HeapAfter[k] \subseteq Within[k] /\ Within[k] \subseteq Within[k + 1]
    BY <1>3, WithinGrows
  <2>6. ASSUME NEW node \in HeapAfter[k + 1] PROVE node \in Within[k + 1]
    <3>1. node \in Nodes
      BY <1>1, <2>1
    <3>2. node \in HeapAfter[k] \/ \E a, b \in HeapAfter[k] : node.children = <<a, b>>
      BY <2>2, <2>4
    <3>3. CASE node \in HeapAfter[k]
      BY <2>5, <3>3
    <3>4. CASE \E a, b \in HeapAfter[k] : node.children = <<a, b>>
      <4>1. \E a, b \in Within[k] : node.children = <<a, b>>
        BY <2>5, <3>4
      <4>2. node \in Deeper(Within[k])
        BY <3>1, <4>1 DEF Deeper
      <4> QED BY <2>2, <4>2
    <3> QED BY <3>2, <3>3, <3>4
  <2> QED BY <2>1, <2>6
<1>4. \A k \in 0 .. Merges : k \in S
  <2> HIDE DEF S
  <2> QED BY <1>2, <1>3, MergesAre, Stepwise
<1> QED BY <1>4

(* The way down: every bit that is spelled goes to the node it says, until *)
(* a leaf is reached, where the rest stay.                                 *)
NodeBelow(node, bit) == IF IsLeaf(node) THEN node ELSE node.children[bit + 1]

LEMMA NodeBelowIn == \A node \in Nodes, bit \in Bits : NodeBelow(node, bit) \in Nodes
<1> SUFFICES ASSUME NEW node \in Nodes, NEW bit \in Bits, ~IsLeaf(node)
             PROVE  node.children[bit + 1] \in Nodes
  BY DEF NodeBelow
<1>1. PICK a \in Nodes, b \in Nodes : node.children = <<a, b>>
  BY NodesAre
<1>2. bit = 0 \/ bit = 1
  BY DEF Bits
<1>3. <<a, b>>[0 + 1] = a /\ <<a, b>>[1 + 1] = b
  OBVIOUS
<1> QED BY <1>1, <1>2, <1>3

LEMMA DownIs ==
  ASSUME NEW bits \in Seq(Bits)
  PROVE  /\ PathDown(bits) \in [0 .. Len(bits) -> Nodes]
         /\ PathDown(bits)[0] = Hierarchy
         /\ \A d \in 1 .. Len(bits) : PathDown(bits)[d] = NodeBelow(PathDown(bits)[d - 1], bits[d])
<1> DEFINE n == Len(bits)
           step == [d \in 1 .. n |-> [node \in Nodes |-> NodeBelow(node, bits[d])]]
           R(g) == g = [d \in 0 .. n |-> IF d = 0 THEN Hierarchy ELSE NodeBelow(g[d - 1], bits[d])]
<1>1. n \in Nat /\ \A d \in 1 .. n : bits[d] \in Bits
  OBVIOUS
<1>2. step \in [1 .. n -> [Nodes -> Nodes]]
  <2> HIDE DEF n
  <2> QED BY <1>1, NodeBelowIn
<1>3. PICK f : Recurses(f, n, Nodes, Hierarchy, step)
  <2> HIDE DEF n, step
  <2> QED BY <1>1, <1>2, NodesAre, Recursion
<1>4. f \in [0 .. n -> Nodes] /\ f[0] = Hierarchy
  BY <1>3 DEF Recurses
<1>5. ASSUME NEW d \in 1 .. n PROVE f[d] = NodeBelow(f[d - 1], bits[d])
  <2> HIDE DEF n
  <2>1. d - 1 \in 0 .. n
    BY <1>1
  <2>2. f[d - 1] \in Nodes
    BY <1>4, <2>1
  <2>3. step[d][f[d - 1]] = NodeBelow(f[d - 1], bits[d])
    BY <2>2
  <2> HIDE DEF step
  <2> QED BY <1>3, <2>3 DEF Recurses
<1> HIDE DEF n
<1>6. R(f)
  <2>1. \A d \in 0 .. n : d # 0 => d \in 1 .. n
    BY <1>1
  <2>2. f = [d \in 0 .. n |-> f[d]]
    BY <1>4
  <2> QED BY <1>4, <1>5, <2>1, <2>2
<1>7. PathDown(bits) = CHOOSE g : R(g)
  BY DEF PathDown, NodeBelow, n
<1>8. R(PathDown(bits))
  <2> HIDE DEF R
  <2> QED BY <1>6, <1>7
<1> DEFINE down == PathDown(bits)
<1> HIDE DEF down
<1>9. R(down)
  BY <1>8 DEF down
<1>10. down[0] = Hierarchy /\ \A d \in 1 .. n : down[d] = NodeBelow(down[d - 1], bits[d])
  <2>1. 0 \in 0 .. n /\ \A d \in 1 .. n : d \in 0 .. n /\ d # 0
    BY <1>1
  <2> QED BY <1>9, <2>1
<1> DEFINE S == {d \in 0 .. n : down[d] \in Nodes}
<1>11. 0 \in S
  BY <1>1, <1>10, NodesAre
<1>12. ASSUME NEW d \in 0 .. n - 1, d \in S PROVE d + 1 \in S
  <2>1. d + 1 \in 1 .. n /\ (d + 1) - 1 = d /\ d + 1 \in 0 .. n
    BY <1>1
  <2>2. down[d + 1] = NodeBelow(down[d], bits[d + 1])
    BY <1>10, <2>1
  <2>3. down[d] \in Nodes /\ bits[d + 1] \in Bits
    BY <1>1, <1>12, <2>1
  <2> QED BY <2>1, <2>2, <2>3, NodeBelowIn
<1>13. \A d \in 0 .. n : d \in S
  <2> HIDE DEF S
  <2> QED BY <1>1, <1>11, <1>12, Stepwise
<1>14. down = [d \in 0 .. n |-> down[d]]
  BY <1>9
<1>15. down \in [0 .. n -> Nodes]
  BY <1>13, <1>14
<1> QED BY <1>10, <1>15 DEF down, n

LEMMA LeafStays ==
  ASSUME NEW bits \in Seq(Bits), NEW d \in 0 .. Len(bits), IsLeaf(PathDown(bits)[d])
  PROVE  \A e \in d .. Len(bits) : PathDown(bits)[e] = PathDown(bits)[d]
<1> DEFINE n == Len(bits)
           down == PathDown(bits)
           more == n - d
           S == {k \in 0 .. more : down[d + k] = down[d]}
<1>1. n \in Nat /\ d \in Nat /\ more \in Nat /\ more = n - d
  OBVIOUS
<1>2. \A i \in 1 .. n : down[i] = NodeBelow(down[i - 1], bits[i])
  BY DownIs
<1> HIDE DEF n, down, more
<1>3. 0 \in S
  <2>1. d + 0 = d
    BY <1>1
  <2> QED BY <1>1, <2>1
<1>4. ASSUME NEW k \in 0 .. more - 1, k \in S PROVE k + 1 \in S
  <2> DEFINE i == d + (k + 1)
  <2>1. i \in 1 .. n /\ i - 1 = d + k /\ k + 1 \in 0 .. more
    BY <1>1
  <2>2. down[i] = NodeBelow(down[i - 1], bits[i])
    BY <1>2, <2>1
  <2>3. down[d + k] = down[d]
    BY <1>4
  <2>4. NodeBelow(down[d], bits[i]) = down[d]
    BY DEF NodeBelow, down
  <2> HIDE DEF i
  <2>5. down[i] = down[d]
    BY <2>1, <2>2, <2>3, <2>4
  <2> QED BY <2>1, <2>5 DEF i
<1>5. \A k \in 0 .. more : k \in S
  <2> HIDE DEF S
  <2> QED BY <1>1, <1>3, <1>4, Stepwise
<1>6. ASSUME NEW e \in d .. n PROVE down[e] = down[d]
  <2>1. e - d \in 0 .. more /\ d + (e - d) = e
    BY <1>1
  <2>2. down[d + (e - d)] = down[d]
    BY <1>5, <2>1
  <2> QED BY <2>1, <2>2
<1> QED BY <1>6 DEF n, down

(* As many bits as there are turns end in a leaf. *)
LEMMA LeafReached ==
  ASSUME NEW bits \in Seq(Bits), Merges <= Len(bits)
  PROVE  IsLeaf(PathDown(bits)[Merges])
<1> DEFINE down == PathDown(bits)
           n == Len(bits)
           S == {d \in 0 .. Merges : down[d] \in Within[Merges - d]}
<1>1. n \in Nat /\ Merges \in Nat /\ Merges <= n /\ \A d \in 1 .. n : bits[d] \in Bits
  BY MergesAre
<1>2. down[0] = Hierarchy /\ \A d \in 1 .. n : down[d] = NodeBelow(down[d - 1], bits[d])
  BY DownIs
<1>3. \A d \in 0 .. n : down[d] \in Nodes
  BY DownIs
<1> HIDE DEF down, n
<1>4. 0 \in S
  <2>1. 0 \in 0 .. Merges /\ Merges - 0 = Merges /\ Merges \in 0 .. Merges
    BY <1>1
  <2>2. Hierarchy \in Within[Merges]
    BY <2>1, HierarchyIn, HeapsWithin
  <2> QED BY <1>2, <2>1, <2>2
<1>5. ASSUME NEW d \in 0 .. Merges - 1, d \in S PROVE d + 1 \in S
  <2> DEFINE k == Merges - d
  <2>1. /\ d + 1 \in 1 .. n /\ (d + 1) - 1 = d /\ d + 1 \in 0 .. Merges /\ d \in 0 .. n
        /\ k \in 1 .. Merges /\ k - 1 = Merges - (d + 1) /\ k - 1 \in 0 .. Merges - 1
        /\ (k - 1) + 1 = k
    BY <1>1
  <2>2. down[d + 1] = NodeBelow(down[d], bits[d + 1])
    BY <1>2, <2>1
  <2>3. down[d] \in Within[k]
    BY <1>5
  <2> HIDE DEF k
  <2>4. Within[k] = Deeper(Within[k - 1])
    BY <2>1, WithinAre
  <2>5. down[d + 1] \in Within[k - 1]
    <3>1. CASE IsLeaf(down[d])
      <4>1. down[d] \in Nodes
        BY <1>3, <2>1
      <4>2. \A j \in 0 .. Merges : down[d] \in Within[j]
        <5>1. ASSUME NEW j \in 0 .. Merges PROVE down[d] \in Within[j]
          <6>1. Within[j] = Deeper({}) \/ Within[j] = Deeper(Within[j - 1])
            <7>1. j = 0 \/ j \in 1 .. Merges
              BY <1>1
            <7> QED BY <7>1, WithinAre
          <6> QED BY <3>1, <4>1, <6>1 DEF Deeper
        <5> QED BY <5>1
      <4>3. k - 1 \in 0 .. Merges
        BY <1>1, <2>1
      <4>4. down[d + 1] = down[d]
        BY <2>2, <3>1 DEF NodeBelow
      <4> QED BY <4>2, <4>3, <4>4
    <3>2. CASE ~IsLeaf(down[d])
      <4>1. PICK a \in Within[k - 1], b \in Within[k - 1] : down[d].children = <<a, b>>
        BY <2>3, <2>4, <3>2 DEF Deeper
      <4>2. down[d + 1] = <<a, b>>[bits[d + 1] + 1]
        BY <2>2, <3>2, <4>1 DEF NodeBelow
      <4>3. bits[d + 1] = 0 \/ bits[d + 1] = 1
        BY <1>1, <2>1 DEF Bits
      <4>4. <<a, b>>[0 + 1] = a /\ <<a, b>>[1 + 1] = b
        OBVIOUS
      <4> QED BY <4>2, <4>3, <4>4
    <3> QED BY <3>1, <3>2
  <2> QED BY <2>1, <2>5
<1>6. \A d \in 0 .. Merges : d \in S
  <2> HIDE DEF S
  <2> QED BY <1>1, <1>4, <1>5, Stepwise
<1>7. down[Merges] \in Within[0]
  <2>1. Merges \in 0 .. Merges /\ Merges - Merges = 0
    BY <1>1
  <2> QED BY <1>6, <2>1
<1>8. IsLeaf(down[Merges])
  BY <1>7, WithinAre DEF Deeper
<1> QED BY <1>8 DEF down

(* Bits that go on after a leaf spell what the bits up to it do. *)
LEMMA SpelledAlike ==
  ASSUME NEW s \in Seq(Bits), NEW t \in Seq(Bits), Len(s) <= Len(t),
         \A i \in 1 .. Len(s) : s[i] = t[i], IsLeaf(PathDown(s)[Len(s)])
  PROVE  Spelled(t) = Spelled(s)
<1> DEFINE m == Len(s)
           n == Len(t)
           p == PathDown(s)
           q == PathDown(t)
           S == {d \in 0 .. m : q[d] = p[d]}
<1>1. m \in Nat /\ n \in Nat /\ m <= n /\ m \in 0 .. m /\ m \in 0 .. n /\ n \in m .. n
  OBVIOUS
<1>2. /\ DOMAIN p = 0 .. m /\ DOMAIN q = 0 .. n /\ p[0] = Hierarchy /\ q[0] = Hierarchy
      /\ \A d \in 1 .. m : p[d] = NodeBelow(p[d - 1], s[d])
      /\ \A d \in 1 .. n : q[d] = NodeBelow(q[d - 1], t[d])
  BY DownIs
<1>3. \A d \in 0 .. n : IsLeaf(q[d]) => \A e \in d .. n : q[e] = q[d]
  BY LeafStays
<1>4. \A i \in 1 .. m : s[i] = t[i]
  OBVIOUS
<1>5. IsLeaf(p[m])
  OBVIOUS
<1>6. /\ Spelled(s) = IF ~IsLeaf(p[m]) THEN NoOp
                      ELSE [bits |-> Min({d \in DOMAIN p : IsLeaf(p[d])}), op |-> p[m].num]
      /\ Spelled(t) = IF ~IsLeaf(q[n]) THEN NoOp
                      ELSE [bits |-> Min({d \in DOMAIN q : IsLeaf(q[d])}), op |-> q[n].num]
  BY DEF Spelled
<1> HIDE DEF m, n, p, q
<1>7. 0 \in S
  BY <1>1, <1>2
<1>8. ASSUME NEW d \in 0 .. m - 1, d \in S PROVE d + 1 \in S
  <2>1. d + 1 \in 1 .. m /\ d + 1 \in 1 .. n /\ (d + 1) - 1 = d /\ d + 1 \in 0 .. m
    BY <1>1
  <2>2. q[d + 1] = NodeBelow(q[d], t[d + 1]) /\ p[d + 1] = NodeBelow(p[d], s[d + 1])
    BY <1>2, <2>1
  <2>3. q[d] = p[d] /\ s[d + 1] = t[d + 1]
    BY <1>4, <1>8, <2>1
  <2>4. q[d + 1] = p[d + 1]
    BY <2>2, <2>3
  <2> QED BY <2>1, <2>4
<1>9. \A d \in 0 .. m : q[d] = p[d]
  <2>1. \A d \in 0 .. m : d \in S
    <3> HIDE DEF S
    <3> QED BY <1>1, <1>7, <1>8, Stepwise
  <2> QED BY <2>1
<1>10. q[n] = p[m]
  <2>1. q[m] = p[m]
    BY <1>1, <1>9
  <2>2. q[n] = q[m]
    BY <1>1, <1>3, <1>5, <2>1
  <2> QED BY <2>1, <2>2
<1> DEFINE A == {d \in DOMAIN p : IsLeaf(p[d])}
           B == {d \in DOMAIN q : IsLeaf(q[d])}
<1>11. /\ A \subseteq Nat /\ A # {} /\ \A d \in A : d <= m /\ d \in B
       /\ B \subseteq Nat /\ B # {} /\ \A d \in B : d <= m => d \in A
  <2>1. m \in A /\ A \subseteq Nat /\ B \subseteq Nat
    BY <1>1, <1>2, <1>5
  <2>2. \A d \in A : d <= m /\ d \in B
    BY <1>1, <1>2, <1>9
  <2>3. \A d \in B : d <= m => d \in A
    BY <1>1, <1>2, <1>9
  <2> QED BY <2>1, <2>2, <2>3
<1>12. Min(A) = Min(B)
  <2> HIDE DEF A, B
  <2>1. Min(A) \in A /\ \A d \in A : Min(A) <= d
    BY <1>11, MinIsLeast
  <2>2. Min(B) \in B /\ \A d \in B : Min(B) <= d
    BY <1>11, MinIsLeast
  <2>3. Min(A) \in Nat /\ Min(B) \in Nat /\ Min(A) <= m /\ Min(A) \in B
    BY <1>11, <2>1, <2>2
  <2>4. Min(B) <= Min(A)
    BY <2>2, <2>3
  <2>5. Min(B) \in A
    BY <1>1, <1>11, <2>2, <2>3, <2>4
  <2>6. Min(A) <= Min(B)
    BY <2>1, <2>5
  <2> QED BY <2>3, <2>4, <2>6
<1> HIDE DEF A, B
<1>13. /\ Spelled(s) = [bits |-> Min(A), op |-> p[m].num]
       /\ Spelled(t) = [bits |-> Min(B), op |-> q[n].num]
  BY <1>5, <1>6, <1>10 DEF A, B
<1> QED BY <1>10, <1>12, <1>13

(* The bits that are left of the buffer, n of them. *)
Ahead(at, n) == [i \in 1 .. n |-> Bit(at + i - 1)]

LEMMA AheadIs ==
  ASSUME BufferTyped, NEW at \in Nat, NEW n \in Nat, at + n <= TotalBits
  PROVE  /\ Ahead(at, n) \in Seq(Bits) /\ Len(Ahead(at, n)) = n
         /\ \A i \in 1 .. n : Ahead(at, n)[i] = Bit(at + i - 1)
<1>1. TotalBits \in Nat
  <2>1. Len(data) \in Nat
    BY DEF BufferTyped
  <2> QED BY <2>1, ByteIs, ProductIn DEF TotalBits
<1>2. ASSUME NEW i \in 1 .. n PROVE Bit(at + i - 1) \in Bits
  <2>1. at + i - 1 \in Nat /\ at + i - 1 < TotalBits
    BY <1>1
  <2>2. BitAt[at + i - 1] \in Bits
    BY <2>1, BufferIs
  <2>3. BitAt[at + i - 1] = Bit(at + i - 1)
    BY <2>1 DEF BitAt
  <2> QED BY <2>2, <2>3
<1>3. Ahead(at, n) \in [1 .. n -> Bits]
  BY <1>2 DEF Ahead
<1>4. Ahead(at, n) \in Seq(Bits) /\ Len(Ahead(at, n)) = n
  <2> DEFINE bits == Ahead(at, n)
  <2>1. bits \in [1 .. n -> Bits]
    BY <1>3
  <2> HIDE DEF bits
  <2>2. bits \in Seq(Bits) /\ Len(bits) = n
    BY <2>1
  <2> QED BY <2>2 DEF bits
<1> QED BY <1>4 DEF Ahead

(* The table says what the tree says, and the tree what the table says. *)
LEMMA OpsAgree ==
  ASSUME BufferTyped, NEW at \in Nat, at <= TotalBits
  PROVE  FieldOp(at) = FieldOpByTree(at)
<1> DEFINE left == TotalBits - at
           m == Min({left, Merges})
           s == Ahead(at, PrefixBits)
           t == Ahead(at, m)
<1>1. left \in Nat /\ TotalBits \in Nat /\ left = TotalBits - at
  <2>1. Len(data) \in Nat
    BY DEF BufferTyped
  <2>2. TotalBits \in Nat
    BY <2>1, ByteIs, ProductIn DEF TotalBits
  <2> QED BY <2>2
<1>2. m \in {left, Merges} /\ m <= left /\ m <= Merges /\ m \in Nat
  <2> DEFINE T == {left, Merges}
  <2> HIDE DEF left
  <2>1. T \subseteq Nat /\ T # {} /\ left \in T /\ Merges \in T
    BY <1>1, MergesAre
  <2> HIDE DEF T
  <2>2. Min(T) \in T /\ \A k \in T : Min(T) <= k
    BY <2>1, MinIsLeast
  <2>3. Min(T) \in T /\ Min(T) <= left /\ Min(T) <= Merges /\ Min(T) \in Nat
    BY <2>1, <2>2
  <2> QED BY <2>3 DEF T
<1>3. FieldOpByTree(at) = Spelled(t)
  BY DEF FieldOpByTree, Ahead, Merges
<1> HIDE DEF m
<1>4. at + m <= TotalBits
  BY <1>1, <1>2
<1>5. t \in Seq(Bits) /\ Len(t) = m /\ \A i \in 1 .. m : t[i] = Bit(at + i - 1)
  BY <1>2, <1>4, AheadIs
<1>6. CASE ~(left >= PrefixBits)
  BY <1>6 DEF FieldOp
<1>7. CASE left >= PrefixBits
  <2> DEFINE word == Peek(at, PrefixBits)
             spelled == [i \in 1 .. PrefixBits |-> Cut(word, i - 1, 1)]
  <2>1. PrefixBits \in Nat /\ PrefixBits \in 0 .. WordBits /\ at + PrefixBits <= TotalBits
    BY <1>1, <1>7, PrefixAssumption, WordIs
  <2>2. s \in Seq(Bits) /\ Len(s) = PrefixBits /\ \A i \in 1 .. PrefixBits : s[i] = Bit(at + i - 1)
    BY <2>1, AheadIs
  <2>3. word \in 0 .. PowerOf2[PrefixBits] - 1
    <3>1. word = Value(BitAt, at, PrefixBits)
      BY <2>1, PeekIsBits
    <3> HIDE DEF word
    <3> QED BY <2>1, <3>1, BufferIs, ValueBelow
  <2>4. spelled = s
    <3>1. ASSUME NEW i \in 1 .. PrefixBits PROVE Cut(word, i - 1, 1) = Bit(at + i - 1)
      <4>1. i - 1 \in 0 .. PrefixBits - 1 /\ at + (i - 1) = at + i - 1
        BY <2>1
      <4>2. Cut(Peek(at, PrefixBits), i - 1, 1) = Bit(at + (i - 1))
        BY <2>1, <4>1, BitOfWord
      <4> QED BY <4>1, <4>2
    <3> HIDE DEF word
    <3> QED BY <3>1 DEF Ahead
  <2> DEFINE entry == FieldOpPrefix[word]
  <2>5. entry = Spelled(s)
    <3>1. entry = Spelled(spelled)
      <4> HIDE DEF word
      <4> QED BY <2>3 DEF FieldOpPrefix
    <3> HIDE DEF entry, spelled
    <3> QED BY <2>4, <3>1
  <2>6. FieldOp(at) = IF entry.bits # 0 THEN entry ELSE FieldOpByTree(at)
    BY <1>7 DEF FieldOp
  <2> HIDE DEF entry, word, spelled, s, t, left
  <2>7. ASSUME entry.bits # 0 PROVE entry = Spelled(t)
    <3>1. IsLeaf(PathDown(s)[PrefixBits])
      <4>1. ~IsLeaf(PathDown(s)[Len(s)]) => Spelled(s) = NoOp
        BY DEF Spelled
      <4>2. NoOp.bits = 0
        BY DEF NoOp
      <4>3. Spelled(s) # NoOp
        BY <2>5, <2>7, <4>2
      <4> QED BY <2>2, <4>1, <4>3
    <3>2. CASE PrefixBits <= m
      <4>1. \A i \in 1 .. PrefixBits : i \in 1 .. m
        BY <1>2, <2>1, <3>2
      <4>2. \A i \in 1 .. Len(s) : s[i] = t[i]
        BY <1>5, <2>2, <4>1
      <4>3. Len(s) <= Len(t) /\ IsLeaf(PathDown(s)[Len(s)])
        BY <1>5, <2>2, <3>1, <3>2
      <4>4. Spelled(t) = Spelled(s)
        BY <1>5, <2>2, <4>2, <4>3, SpelledAlike
      <4> QED BY <2>5, <4>4
    <3>3. CASE ~(PrefixBits <= m)
      <4>1. m = Merges /\ m <= PrefixBits
        BY <1>1, <1>2, <1>7, <2>1, <3>3, MergesAre
      <4>2. \A i \in 1 .. m : i \in 1 .. PrefixBits
        BY <1>2, <2>1, <4>1
      <4>3. \A i \in 1 .. Len(t) : t[i] = s[i]
        BY <1>5, <2>2, <4>2
      <4>4. Len(t) = Merges /\ Merges <= Len(t)
        BY <1>5, <4>1, MergesAre
      <4>5. IsLeaf(PathDown(t)[Len(t)]) /\ Len(t) <= Len(s)
        BY <1>5, <2>2, <4>1, <4>4, LeafReached
      <4>6. Spelled(s) = Spelled(t)
        BY <1>5, <2>2, <4>3, <4>5, SpelledAlike
      <4> QED BY <2>5, <4>6
    <3> QED BY <3>2, <3>3
  <2> QED BY <1>3, <2>6, <2>7
<1> QED BY <1>6, <1>7

(* Wherever a path operation is read, the table of the next bits           *)
(* (FIELDOP_PREFIX) and the walk down the tree (read_field_op_tree) give   *)
(* the same operation and length, for all weights, any width of the table  *)
(* and any number of bits that are left: a code the table has is one the   *)
(* tree spells, and no branch is deeper than the number of merges.         *)
THEOREM CodesReadAlike == Spec => []CodesAgree
<1>1. TypeOK => CodesAgree
  BY CursorInBuffer, OpsAgree DEF CodesAgree
<1> QED BY TypeCorrect, <1>1, PTL

----------------------------------------------------------------------------
(* The field map of an entity.                                             *)

LEMMA UpdatesInitTyped == UpdatesInit => MapsTyped
  BY DEF UpdatesInit, MapsTyped, Map

(* Storing a value of the field keeps a map well typed. *)
LEMMA StoredTyped ==
  ASSUME NEW fields \in Map, NEW p \in Addresses, NEW value \in ValuesOf(FieldAt[p])
  PROVE  Stored(fields, p, FieldAt[p], value) \in Map
<1> DEFINE after == Stored(fields, p, FieldAt[p], value)
<1>1. value \in Counts \cup Scalars \cup {Present, Missing}
  BY DEF ValuesOf
<1>2. \A q \in Addresses : after[q] \in {value, NoValue, fields[q]} /\ (q # p => after[q] # value \/ after[q] \in {NoValue, fields[q]})
  BY DEF Stored
<1>3. after \in [Addresses -> Counts \cup Scalars \cup {Present, Missing, NoValue}]
  BY <1>1 DEF Stored, Map
<1>4. \A q \in Addresses : after[q] \in ValuesOf(FieldAt[q]) \cup {NoValue}
  BY <1>2 DEF Map
<1> QED BY <1>3, <1>4 DEF Map

LEMMA UpdatesNextTyped == MapsTyped /\ [UpdatesNext]_entity => MapsTyped'
<1>1. ASSUME MapsTyped, NEW p \in Addresses, NEW value \in ValuesOf(FieldAt[p]), ApplyField(p, value)
      PROVE  MapsTyped'
  <2>1. Stored(full, p, FieldAt[p], value) \in Map /\ Stored(projected, p, FieldAt[p], value) \in Map
    BY <1>1, StoredTyped DEF MapsTyped
  <2>2. orderly' \in BOOLEAN /\ selecting' \in BOOLEAN
    BY <1>1 DEF ApplyField, MapsTyped
  <2> QED BY <1>1, <2>1, <2>2 DEF ApplyField, MapsTyped
<1>2. ASSUME MapsTyped, UNCHANGED entity PROVE MapsTyped'
  BY <1>2 DEF entity, MapsTyped
<1>3. ASSUME MapsTyped, ProjectProperties PROVE MapsTyped'
  <2>1. RetainEntity(projected) \in Map
    BY <1>3 DEF MapsTyped, RetainEntity, Map
  <2> QED BY <1>3, <2>1 DEF ProjectProperties, MapsTyped
<1> QED BY <1>1, <1>2, <1>3 DEF UpdatesNext

(* Both maps always hold, under every address, no value or one of the kind *)
(* that the decoder of the addressed field gives.                          *)
THEOREM MapsTypeCorrect == UpdatesSpec => []MapsTyped
  BY UpdatesInitTyped, UpdatesNextTyped, PTL DEF UpdatesSpec

----------------------------------------------------------------------------
(* The projection.                                                         *)

LEMMA StepProjects ==
  ASSUME MapsTyped, ProjectionAgrees, NEW p \in Addresses, NEW value \in ValuesOf(FieldAt[p]),
         ApplyField(p, value)
  PROVE  ProjectionAgrees'
<1> DEFINE field == FieldAt[p]
<1>0. selecting' = selecting
  BY DEF ApplyField
<1>1. ASSUME ~selecting \/ Retains(p, field) PROVE ProjectionAgrees'
  (* The field itself is in both maps, so both are cut alike. *)
  <2>1. projected[p] = full[p]
    BY <1>1 DEF ProjectionAgrees
  <2>2. Cuts(projected, p, field, value) <=> Cuts(full, p, field, value)
    BY <2>1 DEF Cuts
  <2>3. full' = Stored(full, p, field, value) /\ projected' = Stored(projected, p, field, value)
    BY <1>1 DEF ApplyField
  <2> HIDE DEF field
  <2>4. ASSUME NEW q \in Addresses
        PROVE  projected'[q] = IF selecting /\ ~Retains(q, FieldAt[q]) THEN NoValue ELSE full'[q]
    <3>1. CASE q = p
      BY <1>1, <2>3, <3>1 DEF Stored, field
    <3>2. CASE q # p
      BY <2>2, <2>3, <3>2 DEF Stored, ProjectionAgrees
    <3> QED BY <3>1, <3>2
  <2> QED BY <1>0, <2>4 DEF ProjectionAgrees, Retains
<1>2. ASSUME selecting /\ ~Retains(p, field) PROVE ProjectionAgrees'
  (* No shape is omitted, so an omitted field cuts nothing. *)
  <2>1. ~Cuts(full, p, field, value)
    BY <1>2 DEF Retains, Cuts
  <2>2. full' = Stored(full, p, field, value) /\ projected' = projected
    BY <1>2 DEF ApplyField
  <2> HIDE DEF field
  <2>3. ASSUME NEW q \in Addresses
        PROVE  projected'[q] = IF selecting /\ ~Retains(q, FieldAt[q]) THEN NoValue ELSE full'[q]
    <3>1. CASE q = p
      BY <1>2, <2>2, <3>1 DEF ProjectionAgrees, field
    <3>2. CASE q # p
      BY <2>1, <2>2, <3>2 DEF Stored, ProjectionAgrees
    <3> QED BY <3>1, <3>2
  <2> QED BY <1>0, <2>3 DEF ProjectionAgrees, Retains
<1> QED BY <1>1, <1>2

(* A projected entity is the restriction of the unfiltered one to the      *)
(* retained addresses, after any number of deltas, complete or not.        *)
THEOREM ProjectionCorrect == UpdatesSpec => []ProjectionAgrees
<1>1. UpdatesInit => ProjectionAgrees
  BY DEF UpdatesInit, ProjectionAgrees
<1>2. MapsTyped /\ ProjectionAgrees /\ [UpdatesNext]_entity => ProjectionAgrees'
  <2>1. ASSUME ProjectionAgrees, UNCHANGED entity PROVE ProjectionAgrees'
    BY <2>1 DEF entity, ProjectionAgrees
  <2>2. ASSUME ProjectionAgrees, ProjectProperties PROVE ProjectionAgrees'
    BY <2>2 DEF ProjectProperties, RetainEntity, ProjectionAgrees, Retains
  <2> QED BY <2>1, <2>2, StepProjects DEF UpdatesNext
<1> QED BY <1>1, <1>2, MapsTypeCorrect, PTL DEF UpdatesSpec

----------------------------------------------------------------------------
(* Orphans.                                                                *)

(* The component below p of a path that goes on below p is an index. *)
LEMMA NextComponent ==
  ASSUME NEW p \in Addresses, NEW r \in Addresses, Below(r, p)
  PROVE  r.data[p.last + 1] \in Nat
<1>1. p.last \in Depths /\ r.last \in Depths
  BY DEF Addresses, Paths
<1>2. p.last + 1 \in Depths
  BY <1>1, TopAssumption DEF Below, Depths
<1>3. Canonical(r)
  BY DEF Addresses, Paths
<1>4. \A d \in Depths : r.data[d] \in Component(d)
  BY <1>3 DEF Canonical, TryPack
<1>5. \A d \in Depths : Component(d) \subseteq Nat
  BY LimitAssumption DEF Component
<1> QED BY <1>2, <1>4, <1>5

LEMMA StepLeavesNoOrphan ==
  ASSUME MapsTyped, NoOrphans, NEW p \in Addresses, NEW value \in ValuesOf(FieldAt[p]),
         ApplyField(p, value), orderly'
  PROVE  \A q, r \in Addresses : Nowhere(full', q, r) => full'[r] = NoValue
<1> DEFINE field == FieldAt[p]
<1>1. orderly /\ \A q \in Addresses : ~Nowhere(full, q, p)
  BY DEF ApplyField, MapsTyped
<1>2. \A q, r \in Addresses : Nowhere(full, q, r) => full[r] = NoValue
  BY <1>1 DEF NoOrphans
<1>3. full' = Stored(full, p, field, value)
  BY DEF ApplyField
<1>4. full'[p] = value
  BY <1>3 DEF Stored
<1>5. \A q \in Addresses : q # p => full'[q] \in {full[q], NoValue}
  BY <1>3 DEF Stored
<1>6. ASSUME NEW q \in Addresses, NEW r \in Addresses, q # p, Nowhere(full', q, r)
      PROVE  full'[r] = NoValue
  <2>1. full'[q] # NoValue
    BY <1>6, NoValueAssumption DEF Nowhere
  <2>2. Nowhere(full, q, r)
    BY <1>5, <1>6, <2>1 DEF Nowhere
  <2>3. r # p
    BY <1>1, <2>2
  <2> QED BY <1>2, <1>5, <2>2, <2>3
<1>7. ASSUME NEW r \in Addresses, Nowhere(full', p, r)
      PROVE  full'[r] = NoValue
  <2>1. r # p /\ Below(r, p) /\ r.data[p.last + 1] \in Nat
    <3>1. Below(r, p)
      BY <1>7 DEF Nowhere, Past
    <3>2. p.last \in Int
      BY DEF Addresses, Paths, Depths
    <3>3. r # p
      BY <3>1, <3>2 DEF Below
    <3> QED BY <3>1, <3>3, NextComponent
  <2>2. CASE PointerField(field)
    (* A pointer that is missing cuts off everything below it. *)
    <3>1. value = Missing
      BY <1>4, <1>7, <2>2, ScalarsAssumption DEF ValuesOf, Nowhere
    <3>2. r.data[p.last + 1] >= 0
      BY <2>1
    <3> QED BY <1>3, <2>1, <2>2, <3>1, <3>2 DEF Stored, Cuts, Cutoff, Past
  <2>3. CASE ~PointerField(field) /\ ArrayField(field)
    <3>1. value \in Counts /\ Past(r, p, value)
      BY <1>4, <1>7, <2>3, ScalarsAssumption DEF ValuesOf, Nowhere
    <3>2. CASE Cuts(full, p, field, value)
      BY <1>3, <2>1, <2>3, <3>1, <3>2 DEF Stored, Cutoff
    <3>3. CASE ~Cuts(full, p, field, value)
      (* The array did not shrink: nothing was past its old end either. *)
      <4>1. full[p] \in Counts /\ ~(value < full[p])
        BY <2>3, <3>3 DEF Cuts, MapsTyped, Map, ValuesOf
      <4>2. value \in Nat /\ full[p] \in Nat
        BY <3>1, <4>1, CountsAssumption
      <4>3. r.data[p.last + 1] \in Int
        BY <2>1
      <4>4. Past(r, p, full[p])
        BY <3>1, <4>1, <4>2, <4>3 DEF Past
      <4>5. full[r] = NoValue
        BY <1>2, <4>1, <4>4 DEF Nowhere
      <4> QED BY <1>5, <2>1, <4>5
    <3> QED BY <3>2, <3>3
  <2>4. CASE ~PointerField(field) /\ ~ArrayField(field)
    <3>1. value \in Scalars
      BY <2>4 DEF ValuesOf
    <3> QED BY <1>4, <1>7, <3>1, ScalarsAssumption DEF Nowhere
  <2> QED BY <2>2, <2>3, <2>4
<1> QED BY <1>6, <1>7

(* As long as the stream writes to places that exist, the map holds no     *)
(* field of a missing pointer and no element past the end of an array.     *)
THEOREM OrphansRemoved == UpdatesSpec => []NoOrphans
<1>1. UpdatesInit => NoOrphans
  BY NoValueAssumption DEF UpdatesInit, NoOrphans
<1>2. MapsTyped /\ NoOrphans /\ [UpdatesNext]_entity => NoOrphans'
  <2>1. ASSUME NoOrphans, UNCHANGED entity PROVE NoOrphans'
    BY <2>1 DEF entity, NoOrphans, Nowhere
  <2>2. ASSUME MapsTyped, NoOrphans, NEW p \in Addresses, NEW value \in ValuesOf(FieldAt[p]),
               ApplyField(p, value)
        PROVE  NoOrphans'
    <3>1. orderly' => \A q, r \in Addresses : Nowhere(full', q, r) => full'[r] = NoValue
      BY <2>2, StepLeavesNoOrphan
    <3> QED BY <3>1 DEF NoOrphans, Nowhere
  <2>3. ASSUME NoOrphans, ProjectProperties PROVE NoOrphans'
    BY <2>3 DEF ProjectProperties, NoOrphans, Nowhere
  <2> QED BY <2>1, <2>2, <2>3 DEF UpdatesNext
<1> QED BY <1>1, <1>2, MapsTypeCorrect, PTL DEF UpdatesSpec
=============================================================================
