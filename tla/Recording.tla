------------------------------ MODULE Recording ------------------------------
(***************************************************************************)
(* The writer of demo files the benchmarks use: push_command and           *)
(* packet_messages of src/crates/pbdems2-bench/src/workloads.rs over the   *)
(* BitWriter of its lib.rs.  It is what the readers are held against.      *)
(*                                                                         *)
(* A recorded command is [cmd, tick, compressed, messages, drop, lie]: its *)
(* body is the packet of the messages, each [type, payload], without its   *)
(* last `drop` bytes; a compressed body states a length `lie` too large.   *)
(***************************************************************************)
EXTENDS CommandFrames

(* The first k pieces, put together. *)
Joined(pieces) ==
  LET upto[k \in 0 .. Len(pieces)] == IF k = 0 THEN <<>> ELSE upto[k - 1] \o pieces[k]
  IN  upto

(* push_varint: seven bits a round, until nothing is left. *)
Varint(n) ==
  LET rest   == Quotients(n, More, Varint32Bytes)
      rounds == CHOOSE k \in 1 .. Varint32Bytes :
                  rest[k] = 0 /\ \A j \in 1 .. k - 1 : rest[j] # 0
  IN  [k \in 1 .. rounds |-> (rest[k - 1] % More) + IF k < rounds THEN More ELSE 0]

BitsOf(n, width) == Digits(n, 2, width)
BitsOfBytes(bytes) ==
  Joined([k \in DOMAIN bytes |-> BitsOf(bytes[k], ByteBits)])[Len(bytes)]

(* push_ubitvar: the narrowest form that holds the number, its selector    *)
(* between the bits every form has and the others.                         *)
LowBits   == UBitVarBits - 2
Forms(n)  == {s \in 0 .. 3 : n < PowerOf2[LowBits + UBitVarMore[s]]}
UBitVarBitsOf(n) ==
  LET form == Min(Forms(n))
      bits == BitsOf(n, LowBits + UBitVarMore[form])
  IN  SubSeq(bits, 1, LowBits) \o BitsOf(form, 2) \o SubSeq(bits, LowBits + 1, Len(bits))

(* packet_messages, and the bits of its messages before the i-th.          *)
MessageBits(m) ==
  UBitVarBitsOf(m.type) \o BitsOfBytes(Varint(Len(m.payload)) \o m.payload)
PacketBits(messages) == Joined([i \in DOMAIN messages |-> MessageBits(messages[i])])
StartBit(messages, i) == Len(PacketBits(messages)[i - 1])
Packet(messages) ==
  LET bits   == PacketBits(messages)[Len(messages)]
      length == (Len(bits) + ByteBits - 1) \div ByteBits
      bit(i) == IF i <= Len(bits) THEN bits[i] ELSE 0
  IN  [k \in 1 .. length |->
         Composed([i \in 1 .. ByteBits |-> bit((k - 1) * ByteBits + i)], 2)]

Body(c) == LET packet == Packet(c.messages)
           IN  SubSeq(packet, 1, Len(packet) - c.drop)
Stored(c) == IF c.compressed THEN Varint(Len(Body(c)) + c.lie) \o Body(c) ELSE Body(c)

(* push_command *)
Unsigned(n) == IF n < 0 THEN n + U32 ELSE n
CommandBytes(c) ==
  Varint(c.cmd + IF c.compressed THEN CompressedFlag ELSE 0)
  \o Varint(Unsigned(c.tick)) \o Varint(Len(Stored(c))) \o Stored(c)

(* demo_header, with the offsets of two commands in it, and the commands.  *)
OffsetBytesOf(n) == Digits(n, Byte, OffsetBytes)
Written(commands) == Joined([k \in DOMAIN commands |-> CommandBytes(commands[k])])
Demo(offsets, commands) ==
  Magic \o OffsetBytesOf(offsets[1]) \o OffsetBytesOf(offsets[2])
  \o Written(commands)[Len(commands)]

(* Where the k-th command begins, and the end of the file after the last.  *)
StartOf(commands, k) == HEADER_SIZE + Len(Written(commands)[k - 1])

(* What can be recorded: the bytes of payloads, types that have a form,    *)
(* bodies with a length of 32 bits, and offsets that the header can hold.  *)
RecordedMessages == [type : Nat, payload : Seq(0 .. Byte - 1)]
RecordedCommands ==
  [cmd : 0 .. CompressedFlag - 1, tick : -PowerOf2[HalfBits - 1] .. PowerOf2[HalfBits - 1] - 1,
   compressed : BOOLEAN, messages : Seq(RecordedMessages), drop : Nat, lie : Nat]
Recordable(commands) ==
  /\ commands \in Seq(RecordedCommands) /\ commands # <<>>
  /\ \A k \in DOMAIN commands :
       LET c == commands[k]
       IN  /\ \A i \in DOMAIN c.messages :
                Forms(c.messages[i].type) # {} /\ Len(c.messages[i].payload) < U32
           /\ c.drop <= Len(Packet(c.messages))
           /\ Len(Body(c)) + c.lie < U32 /\ Len(Stored(c)) < U32
  /\ StartOf(commands, Len(commands)) < PowerOf2[OffsetBytes * ByteBits]
=============================================================================
