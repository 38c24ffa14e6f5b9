---------------------------- MODULE PacketFrames ----------------------------
(***************************************************************************)
(* The messages inside a packet (src/src/packet.rs): a ubitvar type, a     *)
(* varint of the size and as many bytes, bit after bit without alignment.  *)
(***************************************************************************)
EXTENDS BitReader

CONSTANT MaxMessage     \* DecodeLimits::max_packet_message_bytes

(* What read_ubitvar gives is a u32. *)
ASSUME TypeAssumption == \A s \in 0 .. 3 : UBitVarBits - 2 + UBitVarMore[s] <= HalfBits

(* The value of read_ubitvar. *)
UBitVar(at) ==
  LET low == UBitVarBits - 2
  IN  Number(at, low) + Number(at + UBitVarBits, UBitVarMore[UBitVarSelector(at)]) * PowerOf2[low]

MessageIter == [at |-> 0, index |-> 0, failed |-> FALSE]

NoMessage     == [kind |-> "none"]
BrokenMessage == [kind |-> "error"]

(* The header of a message: its type, and the size behind that.            *)
SizeAt[at \in Cursors]    == ReadUBitVar(at)
PayloadAt[at \in Cursors] == ReadVarint(at, Varint32Bytes)
BytesAt[at \in Cursors]   == Varint32(at)

(* One byte or less is padding. *)
MutantPadding(it) == TotalBits - it.at < ByteBits
Padding(it) == TotalBits - it.at <= ByteBits

(* PacketMessageIter::next.  Nothing reads the cursor of an iterator that  *)
(* failed.                                                                 *)
NextMessage(it) ==
  LET size    == SizeAt[it.at]
      payload == PayloadAt[size]
      bytes   == BytesAt[size]
      end     == IF payload = Failed THEN Failed ELSE Advance(payload, bytes * ByteBits)
  IN  IF it.failed \/ Padding(it) THEN [iter |-> it, item |-> NoMessage]
      ELSE IF end = Failed \/ bytes > MaxMessage
           THEN [iter |-> [it EXCEPT !.failed = TRUE], item |-> BrokenMessage]
      ELSE [iter |-> [it EXCEPT !.at = end, !.index = @ + 1],
            item |-> [kind |-> "frame", index |-> it.index, type |-> UBitVar(it.at),
                      payload |-> payload, size |-> bytes]]

(* payload, of a frame whose payload is aligned, and copy_payload          *)
Borrowed(frame) ==
  SubSeq(data, frame.payload \div ByteBits + 1, frame.payload \div ByteBits + frame.size)
Copied(frame) == [k \in 1 .. frame.size |-> PeekBytes(frame.payload, k - 1)]

(* payload_or_copy *)
Payload(frame) == IF frame.payload % ByteBits = 0 THEN Borrowed(frame) ELSE Copied(frame)
=============================================================================
