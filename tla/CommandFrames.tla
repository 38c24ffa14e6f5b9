---------------------------- MODULE CommandFrames ----------------------------
(***************************************************************************)
(* The framing of a demo file: its fixed header and the commands behind it *)
(* (src/src/demo.rs, src/src/demo/stream.rs).                              *)
(*                                                                         *)
(* An iterator is a value; NextCommand gives the iterator after a call of  *)
(* next() and the item it returned.  Snappy is outside the repository: a   *)
(* compressed body states the length it decompresses to in a varint, and   *)
(* it is damaged unless as many bytes follow.                              *)
(***************************************************************************)
EXTENDS ByteReader

CONSTANTS
  Magic,           \* the bytes every demo begins with
  OffsetBytes,     \* bytes of the two offsets behind them, 4
  CompressedFlag,  \* the bit of a raw command that tells a compressed body, 64
  STOP, SYNC_TICK, SEND_TABLES, CLASS_INFO, PACKET, FULL_PACKET,
  MaxBody, MaxDecompressed      \* DecodeLimits

(* The offsets fit a word, the flag leaves the numbers of the commands     *)
(* alone, and no two commands have the same number.                        *)
ASSUME FramesAssumption ==
  /\ Magic \in Seq(Nat) /\ OffsetBytes \in Nat \ {0} /\ OffsetBytes * ByteBits <= WordBits
  /\ CompressedFlag \in Nat \ {0} /\ 2 * CompressedFlag <= U32
  /\ MaxBody \in Nat /\ MaxDecompressed \in Nat
ASSUME CommandsAssumption ==
  /\ STOP \notin {SYNC_TICK, SEND_TABLES, CLASS_INFO, PACKET, FULL_PACKET}
  /\ SYNC_TICK \notin {SEND_TABLES, CLASS_INFO, PACKET, FULL_PACKET}
  /\ FULL_PACKET \notin {SEND_TABLES, CLASS_INFO, PACKET}
  /\ PACKET \notin {SEND_TABLES, CLASS_INFO}

HEADER_SIZE == Len(Magic) + 2 * OffsetBytes

----------------------------------------------------------------------------
(* The file header.                                                        *)

(* read_optional_header_offset; zero is Option::None.                      *)
HeaderOffset(i) == LittleEndian(Len(Magic) + i * OffsetBytes, OffsetBytes)
InStream(offset) == offset = 0 \/ offset \in HEADER_SIZE .. FileLen - 1

(* DemoHeader::parse *)
HeaderAccepted ==
  /\ FileLen >= HEADER_SIZE
  /\ Taken(0, Len(Magic)) = Magic
  /\ \A i \in 0 .. 1 : InStream(HeaderOffset(i))

----------------------------------------------------------------------------
(* A command.                                                              *)

Signed(n) == IF n < PowerOf2[HalfBits - 1] THEN n ELSE n - U32      \* as i32

(* read_cmd_header; its body begins at `body`, Nowhere after an error.     *)
HeaderOf(at, tick, size, body) ==
  LET raw  == VarintAt[at]
      flag == (raw \div CompressedFlag) % 2
  IN  [body |-> body, cmd |-> raw - flag * CompressedFlag, tick |-> Signed(VarintAt[tick]),
       compressed |-> flag = 1, size |-> VarintAt[size]]
CmdHeader[at \in Positions] ==
  LET tick == TakeVarint[at]
      size == TakeVarint[tick]
      body == TakeVarint[size]
  IN  IF body = Nowhere THEN [body |-> Nowhere] ELSE HeaderOf(at, tick, size, body)

(* CommandIter: `base` bytes of the file are cut off before its reader.    *)
CommandIter(offset) == [base |-> offset, position |-> 0, index |-> 0, failed |-> FALSE]

NoItem == [kind |-> "none"]
Broken == [kind |-> "error"]

(* fail: a reader that met the end of the file stays there, and one that   *)
(* read a header stays behind it.                                          *)
MutantRetry(iter, header) == [iter |-> iter, item |-> Broken]
MutantResume(iter, header) ==
  LET stays == IF header.body = Nowhere THEN FileLen ELSE header.body
  IN  [iter |-> [iter EXCEPT !.position = stays - iter.base], item |-> Broken]
Fail(iter, header) ==
  LET stays == IF header.body = Nowhere THEN FileLen ELSE header.body
  IN  [iter |-> [iter EXCEPT !.failed = TRUE, !.position = stays - iter.base], item |-> Broken]

CommandFrame(iter, header, end) ==
  [kind |-> "frame", index |-> iter.index, offset |-> iter.base + iter.position,
   end_offset |-> end, header |-> header]

(* CommandIter::next, behind the header it reads and from there on.        *)
Framed(iter, header) ==
  LET end == Take(header.body, header.size)
  IN  IF header.body = Nowhere THEN Fail(iter, header)
      ELSE IF header.size > MaxBody \/ end = Nowhere THEN Fail(iter, header)
      ELSE [iter |-> [iter EXCEPT !.position = end - iter.base, !.index = @ + 1],
            item |-> CommandFrame(iter, header, end)]
NextCommand(iter) ==
  LET offset == iter.base + iter.position
  IN  IF iter.failed \/ offset >= FileLen THEN [iter |-> iter, item |-> NoItem]
      ELSE CHOOSE next \in {Framed(iter, header) : header \in {CmdHeader[offset]}} : TRUE

(* commands, and the offsets commands_from accepts *)
CommandOffsets == HEADER_SIZE .. FileLen

----------------------------------------------------------------------------
(* CommandFrame::decode_body: what the output buffer holds after it, or    *)
(* Damaged.                                                                *)
Damaged == << -1 >>

EncodedBody(frame) == Taken(frame.header.body, frame.header.size)

Decompressed(header) ==
  LET start == TakeVarint[header.body]
      end   == header.body + header.size
      room  == VarintAt[header.body]
  IN  IF start = Nowhere \/ start > end THEN Damaged
      ELSE IF room > MaxDecompressed \/ end - start # room THEN Damaged
      ELSE Taken(start, room)

DecodedBody(frame) ==
  IF frame.header.compressed THEN Decompressed(frame.header) ELSE EncodedBody(frame)

----------------------------------------------------------------------------
(* Demo::index: the index a pass over the headers has built, and what one  *)
(* round of its loop does with a frame.  No tick is below every tick.      *)

NoTick   == -U32
NoStart  == 0
NewIndex ==
  [full_packets |-> <<>>, distinct_ticks |-> <<>>, stream_start |-> NoStart,
   schema_changes |-> FALSE, past_sync |-> FALSE, last_tick |-> NoTick]

MutantSynced(index, frame) ==
  [index EXCEPT !.past_sync = TRUE, !.stream_start = frame.end_offset]
Synced(index, frame) ==
  [index EXCEPT !.past_sync = TRUE,
                !.stream_start = IF index.past_sync THEN @ ELSE frame.end_offset]

Ticked(index, tick) ==
  IF tick >= 0 /\ index.last_tick # tick
  THEN [index EXCEPT !.distinct_ticks = Append(@, tick), !.last_tick = tick]
  ELSE index

IndexFrame(index, frame) ==
  LET cmd  == frame.header.cmd
      tick == frame.header.tick
      full == [offset |-> frame.offset, tick |-> tick]
  IN  IF cmd = SYNC_TICK THEN Synced(index, frame)
      ELSE IF ~index.past_sync THEN index
      ELSE Ticked([index EXCEPT !.schema_changes = @ \/ cmd \in {SEND_TABLES, CLASS_INFO},
                                !.full_packets = IF cmd = FULL_PACKET THEN Append(@, full) ELSE @],
                  tick)
=============================================================================
