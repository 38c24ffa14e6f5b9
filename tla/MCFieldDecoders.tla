-------------------------- MODULE MCFieldDecoders --------------------------
(* Small instance of FieldDecoders for TLC: bytes of two bits. *)
EXTENDS FieldDecoders

MCUBitVarMore == [s \in 0 .. 3 |-> s]
MCPathOperand == [s \in 0 .. 4 |-> IF s = 4 THEN 2 ELSE 1]
(* Two operations with one-byte codes or shorter, and three longer ones.   *)
MCWeights == <<8, 3, 1, 1, 1>>

(* All the short buffers, and some in which two angles of seven bits fit.  *)
MCBuffers == UNION {[1 .. n -> 0 .. 3] : n \in 0 .. 5} \cup {[k \in 1 .. 8 |-> byte] : byte \in 0 .. 3}

Quantized == [kind |-> "F32Quantized", flags |-> 2, bits |-> 2]
Floats == {Quantized} \cup [kind : {"F32NoScale", "F32SimulationTime", "F32Coord", "F32Normal"}]
MCDecoders ==
  Floats
  \cup [kind : {"Bool", "I64", "U64", "Default", "I64Fixed8", "U64Fixed8", "U64Fixed64",
                "Ammo", "String", "BinaryBlock", "Poly", "Vector3Normal",
                "QAnglePrecise", "QAngleCoord"}]
  \cup [kind : {"QAnglePitchYaw", "QAngleBitCount"}, bits : {2, 7}]
  \cup [kind : {"Vector2", "Vector3", "Vector4", "FloatVec6"}, inner : Floats]
=============================================================================
