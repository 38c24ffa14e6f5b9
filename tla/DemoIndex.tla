----------------------------- MODULE DemoIndex -----------------------------
(***************************************************************************)
(* The header-only seek index of a demo (Demo::index in                    *)
(* src/src/demo/stream.rs) and the segment plan built on it                *)
(* (PreparedPlayback::segment_plan).                                       *)
(*                                                                         *)
(* A demo is the sequence of its command headers.  The byte offset of the  *)
(* k-th command is k, the end of that command is k + 1, and data.len() is  *)
(* one more than the number of commands; NoOffset is Option::None.         *)
(***************************************************************************)
EXTENDS Integers, Sequences, FiniteSets

CONSTANTS MinTick, MaxTick     \* i32::MIN and i32::MAX
ASSUME TickRangeAssumption == MinTick \in Int /\ MaxTick \in Int /\ MinTick < 0 /\ 0 < MaxTick

Commands == {"SCHEMA", "PACKET", "FULL", "SYNC", "STOP"}
Frame    == [cmd : Commands, tick : MinTick .. MaxTick]

NoOffset == 0

DataLen(d) == Len(d) + 1

(* Offsets in ascending order, and the elements of a sequence at offsets.  *)
AtRank(S, i) == {k \in S : Cardinality({j \in S : j <= k}) = i}
InOrder(S) == [i \in 1 .. Cardinality(S) |-> CHOOSE k \in AtRank(S, i) : TRUE]
Picked(s, S) == LET sorted == InOrder(S) IN [i \in DOMAIN sorted |-> s[sorted[i]]]

(* The commands that the pass looks at: up to the first STOP. *)
MutantIndexed(d) == DOMAIN d
Indexed(d) == {k \in DOMAIN d : \A j \in 1 .. k : d[j].cmd # "STOP"}

StreamStart(d) ==
  LET syncs == {k \in Indexed(d) : d[k].cmd = "SYNC"}
  IN  IF syncs = {} THEN NoOffset
                    ELSE (CHOOSE k \in syncs : \A j \in syncs : k <= j) + 1

(* Past the first SYNC; a later SYNC is skipped. *)
Streamed(d) ==
  {k \in Indexed(d) : StreamStart(d) # NoOffset /\ k >= StreamStart(d) /\ d[k].cmd # "SYNC"}

FullPackets(d) == InOrder({k \in Streamed(d) : d[k].cmd = "FULL"})

HasSchemaChanges(d) == \E k \in Streamed(d) : d[k].cmd = "SCHEMA"

(* A non-negative tick that is not the last one pushed. *)
MutantDistinctTicks(d) ==
  LET timed  == {k \in Streamed(d) : d[k].tick >= 0}
      sorted == InOrder(timed)
  IN  [i \in DOMAIN sorted |-> d[sorted[i]].tick]
DistinctTicks(d) ==
  LET timed    == {k \in Streamed(d) : d[k].tick >= 0}
      fresh(k) == \A j \in timed : j < k /\ (\A m \in timed : m <= j \/ m >= k)
                                     => d[j].tick # d[k].tick
      sorted   == InOrder({k \in timed : fresh(k)})
  IN  [i \in DOMAIN sorted |-> d[sorted[i]].tick]

(* The last full packet, in file order, at or before a tick. *)
MutantFullPacketAtOrBefore(d, target) ==
  LET at == {k \in Streamed(d) : d[k].cmd = "FULL" /\ d[k].tick < target}
  IN  IF at = {} THEN NoOffset ELSE CHOOSE k \in at : \A j \in at : j <= k
FullPacketAtOrBefore(d, target) ==
  LET at == {k \in Streamed(d) : d[k].cmd = "FULL" /\ d[k].tick <= target}
  IN  IF at = {} THEN NoOffset ELSE CHOOSE k \in at : \A j \in at : j <= k

(* Where the s-th of count segments starts among n intervals.  The code    *)
(* counts from 0 and subtracts one, a sequence here counts from 1.         *)
Boundary(n, count, s) == (s * n) \div count

SegmentCount(n, budget) ==
  LET wanted == IF budget = 0 THEN 1 ELSE budget
  IN  IF wanted < n THEN wanted ELSE n

(* segment_plan: segment i of the code is the element i + 1. *)
MutantSegmentPlan(d, budget) ==
  LET full  == FullPackets(d)
      n     == Len(full) + 1
      count == SegmentCount(n, budget)
      at(s) == full[Boundary(n, count, s)]
  IN  [i \in 1 .. count |->
         [start |-> IF i = 1 THEN NoOffset ELSE at(i - 1),
          end   |-> IF i = count THEN MaxTick ELSE d[at(i)].tick + 1]]
SegmentPlan(d, budget) ==
  LET full  == FullPackets(d)
      n     == Len(full) + 1
      count == SegmentCount(n, budget)
      at(s) == full[Boundary(n, count, s)]
  IN  [i \in 1 .. count |->
         [start |-> IF i = 1 THEN NoOffset ELSE at(i - 1),
          end   |-> IF i = count THEN MaxTick ELSE d[at(i)].tick]]
=============================================================================
