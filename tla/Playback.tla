----------------------------- MODULE Playback ------------------------------
(***************************************************************************)
(* The playback driver: sign-on, the per-tick replay loop, seeks, segments *)
(* and resumable checkpoints (src/src/playback.rs and                      *)
(* src/src/playback/prepared.rs).                                          *)
(*                                                                         *)
(* A parser state is a function of the commands applied to it, so the      *)
(* state of a session is the sequence `applied` of the commands handed to  *)
(* the adapter; `changed` and `updated` stand for the per-tick change      *)
(* lists and hold the commands whose records are still in them.            *)
(*                                                                         *)
(* Sessions are isolated clones, so one operation runs at a time here: a   *)
(* run to the end, a seek, the segments of a plan one after the other, or  *)
(* a chain of checkpoints.                                                 *)
(***************************************************************************)
EXTENDS DemoIndex

CONSTANTS
  Demos,      \* the demo files
  Targets,    \* ticks a caller asks for
  Budgets,    \* max_segments
  MaxChain,   \* bound on the checkpoints taken from one another (model only)
  NoTick      \* Option::None of a tick

ASSUME DemosAssumption    == Demos \subseteq Seq(Frame)
ASSUME TargetsAssumption  == Targets \subseteq MinTick .. MaxTick
ASSUME BudgetsAssumption  == Budgets \subseteq Nat
ASSUME MaxChainAssumption == MaxChain \in Nat
ASSUME NoTickAssumption   == NoTick \notin Int

VARIABLES
  demo,
  phase,      \* "signon", "idle", "replay", "done" or "failed"
  mode,       \* the operation: "none", "run", "seek", "segments" or "chain"
  cursor,     \* offset of the next command
  end_tick,   \* inclusive end of the replay, or NoTick
  last_tick,  \* tick of the previous command of this replay, or NoTick
  tick,       \* state.tick
  applied,    \* commands handed to the adapter since the state was new
  changed,    \* those whose entity-change records are pending
  updated,    \* those pending in updated_indices and the string-table lists
  delivered,  \* the callbacks made for this operation, in order
  segment,    \* the segment being decoded, and the plan
  plan,
  saved,      \* the prepared seed or the newest checkpoint
  started     \* history: offset at which the replay began

state  == <<tick, applied, changed, updated>>
replay == <<cursor, end_tick, last_tick, started>>
vars == <<demo, phase, mode, replay, state, delivered, segment, plan, saved>>

Init ==
  /\ demo \in Demos
  /\ phase = "signon"
  /\ mode = "none"
  /\ cursor = 1
  /\ end_tick = NoTick
  /\ last_tick = NoTick
  /\ tick = -1
  /\ applied = <<>>
  /\ changed = <<>>
  /\ updated = <<>>
  /\ delivered = <<>>
  /\ segment = 0
  /\ plan = <<>>
  /\ saved = [applied |-> <<>>, tick |-> -1, updated |-> <<>>,
              next_offset |-> NoOffset, delivered |-> <<>>, chain |-> 0]
  /\ started = NoOffset

AtEnd  == cursor = DataLen(demo)
Header == demo[cursor]
AtSync == IF AtEnd THEN FALSE ELSE Header.cmd = "SYNC"
AtStop == IF AtEnd THEN FALSE ELSE Header.cmd = "STOP"

(* Any error of framing, adapter or callback leaves through `?`.           *)
Fails ==
  /\ phase' = "failed"
  /\ UNCHANGED <<demo, mode, replay, state, delivered, segment, plan, saved>>

----------------------------------------------------------------------------
(* initialize                                                              *)

SignonOver == AtEnd \/ AtSync \/ AtStop
SyncOffset == IF AtSync THEN cursor + 1 ELSE NoOffset

(* One command before the synchronization point. *)
SignonCommand ==
  /\ phase = "signon"
  /\ ~SignonOver
  /\ applied' = Append(applied, cursor)
  /\ changed' = Append(changed, cursor)
  /\ updated' = Append(updated, cursor)
  /\ cursor' = cursor + 1
  /\ UNCHANGED <<demo, phase, mode, end_tick, last_tick, started, tick,
                 delivered, segment, plan, saved>>

Initialized == \E k \in DOMAIN applied : demo[applied[k]].cmd = "SCHEMA"

(* The sign-on records of entity_changes() are dropped, those of the other *)
(* lists are kept; prepare then checks the offset against the index.       *)
EndSignon ==
  /\ phase = "signon"
  /\ SignonOver
  /\ Initialized
  /\ SyncOffset = StreamStart(demo)
  /\ saved' = [saved EXCEPT !.applied = applied, !.updated = updated,
                            !.next_offset = SyncOffset]
  /\ changed' = <<>>
  /\ phase' = "idle"
  /\ UNCHANGED <<demo, mode, replay, tick, applied, updated, delivered, segment, plan>>

(* require_initialized, or prepare's comparison with the index. *)
RejectSignon ==
  /\ phase = "signon"
  /\ SignonOver
  /\ ~Initialized \/ SyncOffset # StreamStart(demo)
  /\ Fails

----------------------------------------------------------------------------
(* The operations: each clones the saved state and starts a replay.        *)

MutantRestored(from) ==
  /\ applied' = from.applied
  /\ tick' = from.tick
  /\ delivered' = from.delivered
  /\ UNCHANGED <<changed, updated>>
Restored(from) ==
  /\ applied' = from.applied
  /\ tick' = from.tick
  /\ updated' = from.updated
  /\ changed' = <<>>
  /\ delivered' = from.delivered

Replay(start, end) ==
  /\ cursor' = start
  /\ started' = start
  /\ end_tick' = end
  /\ last_tick' = NoTick

(* A demo without a synchronization point has nothing to replay. *)
ReplayOrReturn(start, end) ==
  IF start = NoOffset THEN phase' = "done" /\ UNCHANGED replay
                      ELSE phase' = "replay" /\ Replay(start, end)

StartOr(start, otherwise) == IF start = NoOffset THEN otherwise ELSE start

RunToEnd ==
  /\ phase = "idle" /\ mode = "none"
  /\ mode' = "run"
  /\ Restored(saved)
  /\ ReplayOrReturn(StreamStart(demo), NoTick)
  /\ UNCHANGED <<demo, segment, plan, saved>>

ParseToTick(target) ==
  /\ phase = "idle" /\ mode = "none"
  /\ mode' = "seek"
  /\ Restored(saved)
  /\ ReplayOrReturn(StartOr(FullPacketAtOrBefore(demo, target), StreamStart(demo)), target)
  /\ UNCHANGED <<demo, segment, plan, saved>>

(* segment_replay_end_tick: the subtraction saturates.                     *)
SegmentReplayEndTick(end) ==
  IF end = MaxTick THEN NoTick
  ELSE IF end = MinTick THEN MinTick ELSE end - 1

PlanSegments(budget) ==
  /\ phase = "idle" /\ mode = "none"
  /\ mode' = "segments"
  /\ plan' = SegmentPlan(demo, budget)
  /\ UNCHANGED <<demo, phase, replay, state, delivered, segment, saved>>

(* A fresh session decodes the next segment of the plan. *)
DecodeSegment ==
  /\ phase = "idle" /\ mode = "segments"
  /\ segment < Len(plan)
  /\ segment' = segment + 1
  /\ Restored([saved EXCEPT !.delivered = delivered])
  /\ ReplayOrReturn(StartOr(plan[segment + 1].start, StreamStart(demo)),
                    SegmentReplayEndTick(plan[segment + 1].end))
  /\ UNCHANGED <<demo, mode, plan, saved>>

CheckpointThrough(target) ==
  /\ phase = "idle" /\ mode = "none"
  /\ saved.chain < MaxChain
  /\ mode' = "chain"
  /\ Restored(saved)
  /\ phase' = "replay"
  /\ Replay(StartOr(StreamStart(demo), DataLen(demo)), target)
  /\ UNCHANGED <<demo, segment, plan, saved>>

(* replay_through: a checkpoint only moves forward. *)
ReplayThrough(target) ==
  /\ phase = "idle" /\ mode = "chain"
  /\ saved.chain > 0 /\ saved.chain < MaxChain
  /\ target >= saved.tick
  /\ Restored(saved)
  /\ phase' = "replay"
  /\ Replay(saved.next_offset, target)
  /\ UNCHANGED <<demo, mode, segment, plan, saved>>

----------------------------------------------------------------------------
(* replay_cursor                                                           *)

Callback(t) == [tick |-> t, changed |-> changed, updated |-> updated]

(* The data is exhausted or the next command lies past the end tick. *)
ReplayOver ==
  IF AtEnd THEN TRUE ELSE end_tick # NoTick /\ Header.tick > end_tick

(* on_tick and clear_tick_changes when the tick of the command differs from *)
(* the previous one.                                                       *)
TickChanges == last_tick # NoTick /\ last_tick # Header.tick
Flushed == IF TickChanges THEN Append(delivered, Callback(last_tick)) ELSE delivered
Kept(log) == IF TickChanges THEN <<>> ELSE log

MutantReplayCommand ==
  /\ phase = "replay" /\ ~ReplayOver /\ ~AtStop
  /\ delivered' = Flushed
  /\ applied' = Append(applied, cursor)
  /\ changed' = Kept(Append(changed, cursor))
  /\ updated' = Kept(Append(updated, cursor))
  /\ tick' = Header.tick
  /\ last_tick' = Header.tick
  /\ cursor' = cursor + 1
  /\ UNCHANGED <<demo, phase, mode, end_tick, started, segment, plan, saved>>
ReplayCommand ==
  /\ phase = "replay" /\ ~ReplayOver /\ ~AtStop
  /\ delivered' = Flushed
  /\ applied' = Append(applied, cursor)
  /\ changed' = Append(Kept(changed), cursor)
  /\ updated' = Append(Kept(updated), cursor)
  /\ tick' = Header.tick
  /\ last_tick' = Header.tick
  /\ cursor' = cursor + 1
  /\ UNCHANGED <<demo, phase, mode, end_tick, started, segment, plan, saved>>

(* The replay returns: a run or a seek hands its state to the caller, a    *)
(* capture clears the change lists and keeps the state, a segment's state  *)
(* is dropped.                                                             *)
MutantReturn(next_offset, log, now, callbacks, kept) ==
  /\ delivered' = callbacks
  /\ tick' = now
  /\ phase' = IF mode \in {"run", "seek"} THEN "done" ELSE "idle"
  /\ changed' = log
  /\ updated' = kept
  /\ saved' = IF mode # "chain" THEN saved
              ELSE [applied |-> applied, tick |-> now, updated |-> kept,
                    next_offset |-> next_offset, delivered |-> callbacks,
                    chain |-> saved.chain + 1]
  /\ cursor' = next_offset
  /\ UNCHANGED <<demo, mode, applied, end_tick, started, segment, plan>>
Return(next_offset, log, now, callbacks, kept) ==
  /\ delivered' = callbacks
  /\ tick' = now
  /\ phase' = IF mode \in {"run", "seek"} THEN "done" ELSE "idle"
  /\ IF mode = "chain"
       THEN /\ changed' = <<>>
            /\ updated' = <<>>
            /\ saved' = [applied |-> applied, tick |-> now, updated |-> <<>>,
                         next_offset |-> next_offset, delivered |-> callbacks,
                         chain |-> saved.chain + 1]
       ELSE /\ changed' = log
            /\ updated' = kept
            /\ UNCHANGED saved
  /\ cursor' = next_offset
  /\ UNCHANGED <<demo, mode, applied, end_tick, started, segment, plan>>

(* STOP closes its own tick, unless that is negative; what follows it is   *)
(* never read.                                                             *)
ReplayStop ==
  /\ phase = "replay" /\ ~ReplayOver /\ AtStop
  /\ LET final == [tick |-> Header.tick, changed |-> Kept(changed), updated |-> Kept(updated)]
     IN  Return(DataLen(demo), Kept(changed), Header.tick,
                IF Header.tick >= 0 THEN Append(Flushed, final) ELSE Flushed,
                Kept(updated))
  /\ last_tick' = Header.tick

(* The data ends, or the next command lies past the end tick: the tick in  *)
(* progress is complete, and reported unless it is negative.               *)
MutantReplayEnd ==
  /\ phase = "replay" /\ ReplayOver
  /\ Return(cursor, changed, tick,
            IF tick >= 0 THEN Append(delivered, Callback(tick)) ELSE delivered, updated)
  /\ UNCHANGED last_tick
ReplayEnd ==
  /\ phase = "replay" /\ ReplayOver
  /\ Return(cursor, changed, tick,
            IF last_tick # NoTick /\ last_tick >= 0
              THEN Append(delivered, Callback(last_tick)) ELSE delivered, updated)
  /\ UNCHANGED last_tick

(* An error while a checkpoint is being captured loses the session but not *)
(* the checkpoint it came from, which can be replayed again.               *)
FailReplay ==
  /\ phase = "replay"
  /\ IF mode = "chain" /\ saved.chain > 0
       THEN /\ phase' = "idle"
            /\ Restored(saved)
            /\ UNCHANGED <<demo, mode, replay, segment, plan, saved>>
       ELSE Fails

FailSignon == phase = "signon" /\ ~AtEnd /\ Fails

ReplayStep == ReplayCommand \/ ReplayStop \/ ReplayEnd
SignonStep == SignonCommand \/ EndSignon \/ RejectSignon

Next ==
  \/ SignonStep
  \/ RunToEnd
  \/ \E t \in Targets : ParseToTick(t)
  \/ \E n \in Budgets : PlanSegments(n)
  \/ DecodeSegment
  \/ \E t \in Targets : CheckpointThrough(t)
  \/ \E t \in Targets : ReplayThrough(t)
  \/ ReplayStep
  \/ FailSignon
  \/ FailReplay

Spec == Init /\ [][Next]_vars

----------------------------------------------------------------------------
(* Properties.  What a demo should tell is defined on its headers alone.   *)

(* The last command read among the offsets from .. to - 1: reading ends    *)
(* with the first STOP.                                                    *)
LastRead(d, from, to) ==
  LET stops == {k \in from .. to - 1 : d[k].cmd = "STOP"}
  IN  IF stops = {} THEN to - 1 ELSE CHOOSE k \in stops : \A j \in stops : k <= j

CommandsRead(d, from, to) ==
  InOrder({k \in from .. LastRead(d, from, to) : d[k].cmd # "STOP"})

(* The completed ticks of those commands: a maximal run of commands with   *)
(* one non-negative tick is one tick.                                      *)
Closes(d, from, last) ==
  {k \in from .. last : d[k].tick >= 0 /\ (k = last \/ d[k + 1].tick # d[k].tick)}
RunOf(d, from, k) ==
  {j \in from .. k : d[j].cmd # "STOP" /\ \A m \in j .. k : d[m].tick = d[k].tick}
TicksClosedBy(d, from, closing) ==
  LET sorted == InOrder(closing)
  IN  [i \in DOMAIN sorted |-> [tick    |-> d[sorted[i]].tick,
                                changed |-> InOrder(RunOf(d, from, sorted[i]))]]
TicksBetween(d, from, to) == TicksClosedBy(d, from, Closes(d, from, LastRead(d, from, to)))

(* What callbacks with a non-negative tick showed. *)
Timed(calls) == {i \in DOMAIN calls : calls[i].tick >= 0}
ToldBy(calls) ==
  LET timed == Picked(calls, Timed(calls))
  IN  [i \in DOMAIN timed |-> [tick |-> timed[i].tick, changed |-> timed[i].changed]]
Told == ToldBy(delivered)

TicksOf(told) == [i \in DOMAIN told |-> told[i].tick]

(* The commands before the SYNC. *)
SignonCommands == [k \in 1 .. StreamStart(demo) - 2 |-> k]

(* The ticks a replay may tell: a seek begins at its full packet, a run or *)
(* a chain of checkpoints at the synchronization point.                    *)
FeedStart == IF mode = "seek" THEN started ELSE StreamStart(demo)
Feeds == [d \in Demos |-> [from \in 1 .. DataLen(d) |-> TicksBetween(d, from, DataLen(d))]]

(* The segments of a plan are sessions of their own and tell ticks apart.  *)
Consumer == INSTANCE TickFeed WITH
  feed <- IF FeedStart = NoOffset THEN <<>> ELSE Feeds[demo][FeedStart],
  told <- IF mode = "segments" THEN <<>> ELSE Told,
  kept <- Cardinality(Timed(saved.delivered))

Returned(m) == mode = m /\ phase = "done" /\ started # NoOffset

(* run_to_end and the seek make one callback per completed tick, each with *)
(* the change records of all the commands of that tick and of no other:    *)
(* none is lost, repeated or reported under a neighbouring tick.  A STOP   *)
(* in a tick of its own closes an empty tick.                              *)
CallbacksAreTicks ==
  Returned("run") \/ Returned("seek") => Told = TicksBetween(demo, started, cursor)

(* At every step, and not only when it returns, the replay loop tells the  *)
(* next completed tick or nothing, and a chain of checkpoints that is cut, *)
(* fails and is resumed tells one feed: the loop implements TickFeed.      *)
TellsTheFeed == Consumer!Spec

(* A chain of checkpoints, however the targets cut the stream and however  *)
(* often a capture fails and is tried again, has told and applied exactly  *)
(* what one uninterrupted replay up to the newest cursor does, and the     *)
(* cursor never splits a tick.                                             *)
ResumeIsStraightThrough ==
  mode = "chain" /\ phase = "idle" /\ StreamStart(demo) # NoOffset =>
    LET from == StreamStart(demo)
        next == saved.next_offset
    IN  /\ saved.delivered = delivered
        /\ Told = TicksBetween(demo, from, next)
        /\ saved.applied = SignonCommands \o CommandsRead(demo, from, next)
        /\ next \in from + 1 .. Len(demo) => demo[next].tick # demo[next - 1].tick

(* updated_indices() and the string-table lists show the same commands as  *)
(* entity_changes(), except that the first callback of a session also      *)
(* shows those of sign-on: initialize clears only the entity changes.      *)
SignonLeaksOnce ==
  mode \in {"run", "seek", "chain"} =>
    \A i \in DOMAIN delivered :
      \/ delivered[i].updated = delivered[i].changed
      \/ i = 1 /\ delivered[i].updated = SignonCommands \o delivered[i].changed

AllSegmentsDecoded ==
  mode = "segments" /\ phase = "idle" /\ segment > 0 /\ segment = Len(plan)

(* Recorders write ticks in order, and the index, the seek and the segment *)
(* plan take it for granted; the replay loop does not.                     *)
TicksAscend ==
  \A i, j \in DOMAIN demo : StreamStart(demo) <= i /\ i < j => demo[i].tick <= demo[j].tick

(* i32::MAX as the end of a segment stands for the end of the demo, so a   *)
(* plan is only sound if no segment but the last ends there.               *)
EndsBelowMax == \A i \in 1 .. Len(plan) - 1 : plan[i].end # MaxTick

(* The segments of a plan, decoded by independent sessions, together make  *)
(* the callbacks of one run to the end: every tick once, in order.         *)
SegmentsVisitTicksOnce ==
  AllSegmentsDecoded /\ TicksAscend /\ EndsBelowMax =>
    TicksOf(Told) = TicksOf(TicksBetween(demo, StreamStart(demo), DataLen(demo)))

(* guide/playback.md:117: segment_plan "partitions the post-signon         *)
(* baseline, available full-packet intervals, and demo tail": every        *)
(* command is decoded by one of the segments.                              *)
SegmentsDecodeEveryCommand ==
  AllSegmentsDecoded /\ TicksAscend =>
    \A k \in Streamed(demo) : demo[k].tick >= 0 =>
      \E i \in DOMAIN delivered : \E j \in DOMAIN delivered[i].changed :
        delivered[i].changed[j] = k

(* A seek replays a tail of what an uninterrupted replay to the target     *)
(* applies: from its last full packet on, or all of it when it has none.   *)
SeekIsStraightSuffix ==
  Returned("seek") /\ TicksAscend =>
    LET from     == StreamStart(demo)
        past     == {k \in from .. Len(demo) : demo[k].tick > end_tick}
        to       == IF past = {} THEN DataLen(demo)
                                 ELSE CHOOSE k \in past : \A j \in past : k <= j
        straight == CommandsRead(demo, from, to)
        tail(i)  == SubSeq(straight, i, Len(straight))
        full(i)  == demo[straight[i]].cmd = "FULL"
        kept     == {i \in DOMAIN straight : full(i) /\ \A j \in i + 1 .. Len(straight) : ~full(j)}
    IN  applied = SignonCommands \o
                    (IF kept = {} THEN straight ELSE tail(CHOOSE i \in kept : TRUE))

(* distinct_ticks() predicts the callbacks of a run to the end: they are   *)
(* the same ticks in the same order, but for the ticks that hold nothing   *)
(* but a STOP or a later SYNC.                                             *)
IndexPredictsTicks ==
  Returned("run") /\ TicksAscend =>
    LET ticks   == TicksOf(Told)
        indexed == {i \in DOMAIN ticks : \E k \in Streamed(demo) : demo[k].tick = ticks[i]}
    IN  Picked(ticks, indexed) = DistinctTicks(demo)

(* Sign-on, which decodes, and the index, which reads headers only, find   *)
(* the same start of the stream: prepare's check never fails.              *)
SignonAgreesWithIndex ==
  phase = "signon" /\ SignonOver => SyncOffset = StreamStart(demo)
=============================================================================
