SPECIFICATION Spec
CONSTANTS
  ByteBits = 2
  WordBytes = 4
  HalfBits = 4
  Varint32Bytes = 4
  Varint64Bytes = 4
  UBitVarBits = 3
  UBitVarMore <- MCUBitVarMore
  PathOperand <- MCPathOperand
  CoordIntegerBits = 1
  CoordFractionalBits = 1
  NormalFractionalBits = 1
  Magic <- MCMagic
  OffsetBytes = 3
  CompressedFlag = 8
  STOP = 0
  SYNC_TICK = 1
  SEND_TABLES = 2
  CLASS_INFO = 3
  PACKET = 4
  FULL_PACKET = 5
  MaxBody = 12
  MaxDecompressed = 9
  MaxMessage = 2
  Recordings <- MCRecordings
INVARIANTS
  CommandsAsWritten
  MessagesAsWritten
  IndexMatchesHeaders
  InspectionAccounts
PROPERTY LoopsEnd
CHECK_DEADLOCK FALSE
