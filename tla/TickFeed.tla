------------------------------ MODULE TickFeed ------------------------------
(***************************************************************************)
(* What a consumer of a replay is promised, whatever the replay loop does: *)
(* a feed of completed ticks, told in order from its start, of which a     *)
(* checkpoint keeps a part that survives the replays made from it.         *)
(***************************************************************************)
EXTENDS Naturals, Sequences

VARIABLES
  feed,   \* the completed ticks there are, in order
  told,   \* those the consumer was told
  kept    \* how many of them the newest checkpoint has behind it

vars == <<feed, told, kept>>

Init == told = <<>> /\ kept = 0

(* A run, a seek or a chain begins: it settles which ticks there are.      *)
Open == told = <<>> /\ kept = 0 /\ told' = <<>> /\ kept' = 0

(* The next tick is told; a final STOP completes two at once.              *)
Tell(n) ==
  /\ Len(told') = Len(told) + n
  /\ Len(told') <= Len(feed)
  /\ told' = SubSeq(feed, 1, Len(told'))
  /\ UNCHANGED feed

(* A checkpoint is taken, with the last ticks it tells. *)
Keep == kept' = Len(told') /\ \E n \in 0 .. 2 : Tell(n)

(* A replay that failed is made again from the checkpoint. *)
FallBack == Len(told') = kept /\ told' = SubSeq(feed, 1, kept) /\ UNCHANGED <<feed, kept>>

Next ==
  \/ Open
  \/ \E n \in 1 .. 2 : Tell(n) /\ UNCHANGED kept
  \/ Keep
  \/ FallBack

Spec == Init /\ [][Next]_vars
=============================================================================
