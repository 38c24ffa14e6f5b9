---------------------------- MODULE MCPlayback -----------------------------
(* Small instances of Playback for TLC. *)
EXTENDS Playback

CONSTANTS
  StreamLength,   \* commands after the synchronization point
  StreamTicks     \* their ticks

FloorTick  == -9
CeilingTick == 9
FromMinusOne == -1 .. 2
SomeTargets == -1 .. 1

At(cmd, t) == [cmd |-> cmd, tick |-> t]
Signon == <<At("SCHEMA", -1), At("PACKET", -1), At("SYNC", -1)>>

Streams(cmds) == UNION {[1 .. n -> [cmd : cmds, tick : StreamTicks]] : n \in 0 .. StreamLength}
Ordered(s) == \A i, j \in DOMAIN s : 0 <= s[i].tick /\ (i < j => s[i].tick <= s[j].tick)

(* Demos whose sign-on is incomplete or that end before the stream. *)
OddDemos ==
  {<<>>, <<At("SYNC", 0)>>, <<At("SCHEMA", -1)>>,
   <<At("SCHEMA", -1), At("STOP", 0), At("SYNC", 0), At("PACKET", 1)>>,
   Signon \o <<At("PACKET", 0), At("STOP", -1)>>,
   Signon \o <<At("FULL", 0), At("SYNC", 1), At("PACKET", 2), At("STOP", 2), At("FULL", 2)>>,
   Signon \o <<At("FULL", FloorTick), At("PACKET", 0), At("FULL", 1)>>,
   Signon \o <<At("SCHEMA", 0), At("PACKET", 1), At("SYNC", 1), At("FULL", 1)>>,
   Signon \o <<At("PACKET", 0), At("FULL", CeilingTick), At("FULL", CeilingTick)>>}

OrderedDemos ==
  OddDemos \cup {Signon \o s : s \in {t \in Streams({"PACKET", "FULL", "STOP"}) : Ordered(t)}}

(* Ticks may fall, repeat or be negative. *)
AnyDemos == OddDemos \cup {Signon \o s : s \in Streams({"PACKET", "STOP"})}

AllDemos == OrderedDemos \cup AnyDemos
=============================================================================
