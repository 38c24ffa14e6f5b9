SPECIFICATION Spec
CONSTANTS
  ByteBits = 2
  WordBytes = 3
  HalfBits = 2
  Varint32Bytes = 2
  Varint64Bytes = 3
  UBitVarBits = 3
  UBitVarMore <- MCUBitVarMore
  PathOperand <- MCPathOperand
  CoordIntegerBits = 2
  CoordFractionalBits = 1
  NormalFractionalBits = 1
  Weights <- MCWeights
  PrefixBits = 2
  Buffers <- MCBuffers
  Decoders <- MCDecoders
  PreciseBits = 2
  MaxFieldString = 1
INVARIANTS
  TypeOK
  SkipAgrees
  ReadsAreBits
  CodesAgree
CHECK_DEADLOCK FALSE
