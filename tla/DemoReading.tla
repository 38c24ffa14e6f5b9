----------------------------- MODULE DemoReading -----------------------------
(***************************************************************************)
(* A client of a demo file: it opens it, builds the seek index and then    *)
(* either inspects the whole file (inspect_demo of                         *)
(* src/crates/pbdems2-cli/src/lib.rs) or iterates the commands from an     *)
(* offset the library gave it, decodes their bodies into one buffer and    *)
(* iterates the messages of the packets.  A tolerant client goes on after  *)
(* an error, as the example of `Demo` does with filter_map(Result::ok).    *)
(*                                                                         *)
(* The file is what a recorder wrote, cut after any byte; its header       *)
(* points to no command or to the last one, as its file info.              *)
(***************************************************************************)
EXTENDS Recording, PacketFrames

CONSTANT Recordings     \* sequences of recorded commands

ASSUME RecordingsAssumption == \A commands \in Recordings : Recordable(commands)

VARIABLES
  recorded,       \* the commands written, and
  starts,         \*   where each begins, with the end of the last
  phase,
  index,          \* the DemoIndex
  commands,       \* a CommandIter and
  frame,          \* the item it gave last
  tolerant,
  messages,       \* a PacketMessageIter and
  message,        \* the item it gave last
  report          \* the Inspection

written == <<file, recorded, starts>>
vars == <<written, data, phase, index, commands, frame, tolerant, messages, message, report>>

Phases == {"closed", "rejected", "indexing", "indexed", "inspecting", "inspected",
           "reading", "body", "messages", "ended"}

NewReport ==
  [commands |-> <<>>, ticks |-> {}, syncs |-> <<>>, first_stop |-> 0, after_stop |-> 0,
   header_bytes |-> 0, encoded |-> 0, decoded |-> 0]

Init ==
  /\ recorded \in Recordings
  /\ starts = [k \in 1 .. Len(recorded) + 1 |-> StartOf(recorded, k)]
  /\ \E file_info \in {0, starts[Len(recorded)]} :
       \E whole \in {Demo(<<file_info, 0>>, recorded)} :
         \E length \in 0 .. Len(whole) : file = SubSeq(whole, 1, length)
  /\ phase = "closed" /\ index = NewIndex /\ tolerant = FALSE
  /\ commands = CommandIter(HEADER_SIZE) /\ frame = NoItem
  /\ messages = MessageIter /\ message = NoMessage /\ data = <<>>
  /\ report = NewReport

----------------------------------------------------------------------------

(* Demo::with_limits *)
Open ==
  /\ phase = "closed"
  /\ phase' = IF HeaderAccepted THEN "indexing" ELSE "rejected"
  /\ UNCHANGED <<written, data, index, commands, frame, tolerant, messages, message, report>>

(* Demo::index: the loop ends at a STOP, at the end of the file and at an  *)
(* error, which it returns.                                                *)
IndexNext ==
  /\ phase = "indexing"
  /\ \E next \in {NextCommand(commands)} :
       LET goes_on == next.item.kind = "frame" /\ next.item.header.cmd # STOP
       IN  /\ commands' = next.iter /\ frame' = next.item
           /\ index' = IF goes_on THEN IndexFrame(index, next.item) ELSE index
           /\ phase' = IF goes_on THEN "indexing" ELSE "indexed"
  /\ UNCHANGED <<written, data, tolerant, messages, message, report>>

IndexFailed == phase = "indexed" /\ frame.kind = "error"

(* inspect_demo after its index; a failed index is its result.             *)
Inspect ==
  /\ phase = "indexed" /\ ~IndexFailed
  /\ phase' = "inspecting"
  /\ commands' = CommandIter(HEADER_SIZE) /\ frame' = NoItem
  /\ UNCHANGED <<written, data, index, tolerant, messages, message, report>>

(* What a round of its loop adds to the report.                            *)
MutantReported(r, f, body) ==
  LET cmd == f.header.cmd IN
  [r EXCEPT !.commands = Append(@, f),
            !.ticks = IF f.header.tick >= 0 THEN @ \cup {f.header.tick} ELSE @,
            !.syncs = IF cmd = SYNC_TICK THEN Append(@, f.end_offset) ELSE @,
            !.first_stop = IF cmd = STOP THEN f.index + 1 ELSE @,
            !.after_stop = IF r.first_stop # 0 THEN @ + 1 ELSE @,
            !.header_bytes = @ + f.end_offset - f.offset - f.header.size,
            !.encoded = @ + f.header.size, !.decoded = @ + Len(body)]
Reported(r, f, body) ==
  LET cmd == f.header.cmd IN
  [r EXCEPT !.commands = Append(@, f),
            !.ticks = IF f.header.tick >= 0 THEN @ \cup {f.header.tick} ELSE @,
            !.syncs = IF cmd = SYNC_TICK THEN Append(@, f.end_offset) ELSE @,
            !.first_stop = IF cmd = STOP /\ @ = 0 THEN f.index + 1 ELSE @,
            !.after_stop = IF r.first_stop # 0 THEN @ + 1 ELSE @,
            !.header_bytes = @ + f.end_offset - f.offset - f.header.size,
            !.encoded = @ + f.header.size, !.decoded = @ + Len(body)]

InspectNext ==
  /\ phase = "inspecting"
  /\ \E next \in {NextCommand(commands)} :
       LET body == DecodedBody(next.item)
       IN  /\ commands' = next.iter /\ frame' = next.item
           /\ IF next.item.kind = "none"
              THEN phase' = "inspected" /\ UNCHANGED <<data, report>>
              ELSE IF next.item.kind = "error"
              THEN phase' = "ended" /\ UNCHANGED <<data, report>>
              ELSE IF body = Damaged
              THEN phase' = "ended" /\ data' = <<>> /\ UNCHANGED report
              ELSE data' = body /\ report' = Reported(report, next.item, body) /\ UNCHANGED phase
  /\ UNCHANGED <<written, index, tolerant, messages, message>>

(* The offsets a client may hold: of the index, of the header and of the   *)
(* first command.  commands_from accepts them all.                         *)
Known ==
  {HEADER_SIZE} \cup {o \in {HeaderOffset(0), HeaderOffset(1)} : o # 0}
  \cup (IF IndexFailed THEN {}
        ELSE {full.offset : full \in Range(index.full_packets)}
             \cup {o \in {index.stream_start} : o # NoStart})

Read ==
  /\ phase = "indexed"
  /\ \E offset \in Known \cap CommandOffsets : commands' = CommandIter(offset)
  /\ tolerant' \in BOOLEAN
  /\ phase' = "reading" /\ frame' = NoItem
  /\ UNCHANGED <<written, data, index, messages, message, report>>

(* One round of a loop over commands(). *)
ReadNext ==
  /\ phase = "reading"
  /\ \E next \in {NextCommand(commands)} :
       /\ commands' = next.iter /\ frame' = next.item
       /\ phase' = CASE next.item.kind = "none"  -> "ended"
                     [] next.item.kind = "error" -> IF tolerant THEN "reading" ELSE "ended"
                     [] next.item.kind = "frame" -> "body"
  /\ UNCHANGED <<written, data, index, tolerant, messages, message, report>>

(* decode_body, and the iterator over a packet; the buffer is reused, and  *)
(* what is in it after an error is not looked at.                          *)
DecodeBody ==
  /\ phase = "body"
  /\ \E body \in {DecodedBody(frame)} :
       /\ data' = IF body = Damaged THEN <<>> ELSE body
       /\ phase' = IF body = Damaged THEN (IF tolerant THEN "reading" ELSE "ended")
                   ELSE IF frame.header.cmd = PACKET THEN "messages" ELSE "reading"
  /\ messages' = MessageIter /\ message' = NoMessage
  /\ UNCHANGED <<written, index, commands, frame, tolerant, report>>

MessageNext ==
  /\ phase = "messages"
  /\ \E next \in {NextMessage(messages)} :
       /\ messages' = next.iter
       /\ message' = IF next.item.kind = "frame"
                     THEN [next.item EXCEPT !.payload = Payload(next.item)] ELSE next.item
       /\ phase' = CASE next.item.kind = "none"  -> "reading"
                     [] next.item.kind = "error" -> IF tolerant THEN "messages" ELSE "ended"
                     [] next.item.kind = "frame" -> "messages"
  /\ UNCHANGED <<written, data, index, commands, frame, tolerant, report>>

Step == Open \/ IndexNext \/ InspectNext \/ ReadNext \/ DecodeBody \/ MessageNext
Next == Step \/ Inspect \/ Read

(* A loop once entered runs on; whether the client enters one is its own.  *)
Spec == Init /\ [][Next]_vars /\ WF_vars(Step)

----------------------------------------------------------------------------
(* Properties.                                                             *)

Whole(k)    == k \in DOMAIN recorded /\ starts[k + 1] <= FileLen
Readable(k) == Whole(k) /\ Len(Stored(recorded[k])) <= MaxBody
Begun       == {k \in DOMAIN recorded : starts[k] < FileLen}
First       == CHOOSE k \in DOMAIN starts : starts[k] = commands.base
Current     == First + frame.index      \* the command of the frame given last
Following   == First + commands.index   \* the one behind those given

(* Iterated from any offset the library hands out, the commands are those  *)
(* the recorder wrote from there on, each with the offsets that lead back  *)
(* to it; an error comes exactly at a command that is cut short or too     *)
(* large, and the iteration ends only behind it or where the file ends     *)
(* (CommandIter::next).                                                    *)
CommandsAsWritten ==
  phase # "closed" =>
    CASE frame.kind = "frame" ->
           LET c == recorded[Current] IN
           /\ Readable(Current)
           /\ frame.offset = starts[Current]
           /\ frame.end_offset = starts[Current + 1]
           /\ frame.header.cmd = c.cmd /\ frame.header.tick = c.tick
           /\ EncodedBody(frame) = Stored(c)
      [] frame.kind = "error" -> Following \in Begun /\ ~Readable(Following)
      [] frame.kind = "none" /\ phase \in {"indexed", "inspected", "ended"} ->
           Following \in Begun => commands.failed /\ ~Readable(Following)
      [] OTHER -> TRUE

(* A body is what was recorded, whatever the reused buffer held before,    *)
(* and none is read that lies about its length or is too large             *)
(* (read_cmd_body_with_limits).  The messages of a packet are those the    *)
(* recorder wrote, payloads aligned or not; a packet that is cut short     *)
(* ends in an error, and silently only when a byte or less of the next     *)
(* message is left (PacketMessageIter::next).                              *)
Refused(c) == c.compressed /\ (c.lie # 0 \/ Len(Body(c)) > MaxDecompressed)

MessagesAsWritten ==
  phase = "messages" \/ (phase = "reading" /\ frame.kind = "frame") =>
    LET c    == recorded[Current]
        next == messages.index + 1
        left == TotalBits - StartBit(c.messages, next)
        lost == next \in DOMAIN c.messages /\ StartBit(c.messages, next + 1) > TotalBits
    IN  /\ IF Refused(c) THEN phase = "reading" ELSE data = Body(c)
        /\ CASE message.kind = "frame" ->
                  /\ message.type = c.messages[messages.index].type
                  /\ message.payload = c.messages[messages.index].payload
                  /\ messages.at = StartBit(c.messages, next)
             [] message.kind = "error" ->
                  left > ByteBits /\ (lost \/ Len(c.messages[next].payload) > MaxMessage)
             [] message.kind = "none" /\ phase = "reading" /\ c.cmd = PACKET ->
                  Refused(c) \/ messages.failed \/ left <= ByteBits
             [] OTHER -> TRUE

(* The index of the headers of the recorded commands, by the definitions   *)
(* the driver of the playback is checked with.                             *)
MinTick == -PowerOf2[HalfBits - 1]
MaxTick == PowerOf2[HalfBits - 1] - 1
Headers == INSTANCE DemoIndex

CommandName(cmd) ==
  CASE cmd = STOP -> "STOP" [] cmd = SYNC_TICK -> "SYNC" [] cmd = FULL_PACKET -> "FULL"
    [] cmd \in {SEND_TABLES, CLASS_INFO} -> "SCHEMA" [] OTHER -> "PACKET"
HeadersOf(r) == [k \in DOMAIN r |-> [cmd |-> CommandName(r[k].cmd), tick |-> r[k].tick]]

(* The pass over the bytes finds what the headers say, as offsets in the   *)
(* file, and fails exactly when a command before the first STOP cannot be  *)
(* read (Demo::index).                                                     *)
IndexMatchesHeaders ==
  phase = "indexed" =>
    \E d \in {HeadersOf(SubSeq(recorded, 1, Cardinality(Begun)))} :
    LET visited == {k \in DOMAIN d : \A j \in 1 .. k - 1 : d[j].cmd # "STOP"}
        full    == Headers!FullPackets(d)
        start   == Headers!StreamStart(d)
    IN  /\ IndexFailed <=> \E k \in visited : ~Readable(k)
        /\ ~IndexFailed =>
             /\ index.full_packets =
                  [i \in DOMAIN full |-> [offset |-> starts[full[i]],
                                         tick   |-> recorded[full[i]].tick]]
             /\ index.distinct_ticks = Headers!DistinctTicks(d)
             /\ index.schema_changes = Headers!HasSchemaChanges(d)
             /\ index.stream_start = IF start = Headers!NoOffset THEN NoStart
                                     ELSE starts[start]

(* A completed inspection accounts for every byte of the file and every    *)
(* command on either side of the first STOP, and its passes agree: the     *)
(* playback begins behind the first sync of those before the STOP, and the *)
(* seek points and playback ticks of the index are among what the second   *)
(* pass saw (inspect_demo).                                                *)
InspectionAccounts ==
  phase = "inspected" =>
    LET first == report.first_stop
        all   == Range(report.commands)
    IN  /\ HEADER_SIZE + report.header_bytes + report.encoded = FileLen
        /\ first # 0 => first + report.after_stop = Len(report.commands)
        /\ first = 0 => report.after_stop = 0
        /\ Range(index.distinct_ticks) \subseteq report.ticks
        /\ \A full \in Range(index.full_packets) :
             \E f \in all : /\ f.header.cmd = FULL_PACKET
                            /\ f.offset = full.offset /\ f.header.tick = full.tick
                            /\ f.offset >= index.stream_start /\ (first # 0 => f.index + 1 < first)
        /\ index.stream_start # NoStart => index.stream_start = Head(report.syncs)

(* Every loop over an iterator ends, even one that ignores the errors: an  *)
(* iterator that failed gives nothing more (CommandIter::next and          *)
(* PacketMessageIter::next).                                               *)
LoopsEnd ==
  phase \in Phases \ {"indexed"} ~> phase \in {"rejected", "indexed", "inspected", "ended"}
=============================================================================
