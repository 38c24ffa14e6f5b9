---------------------------- MODULE MCDemoReading ----------------------------
(***************************************************************************)
(* Bytes of two bits, the upper one the continuation of a varint, and      *)
(* numbers of four bits, so that commands have headers of three to eleven  *)
(* bytes and messages begin at either bit of a byte.                       *)
(***************************************************************************)
EXTENDS DemoReading

MCMagic == <<3>>
MCUBitVarMore == [s \in 0 .. 3 |-> s]
MCPathOperand == [s \in 0 .. 4 |-> s]

Command(cmd, tick, packet, compressed, drop, lie) ==
  [cmd |-> cmd, tick |-> tick, compressed |-> compressed, messages |-> packet,
   drop |-> drop, lie |-> lie]
Plain(cmd, tick) == Command(cmd, tick, <<>>, FALSE, 0, 0)

Message(type, payload) == [type |-> type, payload |-> payload]

(* Commands without a body, ticks before the first one and repeated ones. *)
Kinds   == {STOP, SYNC_TICK, SEND_TABLES, PACKET, FULL_PACKET}
Triples == {<<a, b, c>> : a \in {Plain(SYNC_TICK, 0), Plain(FULL_PACKET, 1)},
                          b \in {Plain(k, t) : k \in Kinds, t \in {-1, 1}},
                          c \in {Plain(k, t) : k \in Kinds, t \in {1, 2}}}

(* Packets of up to two messages, cut short or not, compressed or not,     *)
(* before another command.                                                 *)
Messages == {<<>>} \cup {<<Message(1, <<2>>)>>} \cup
            {<<Message(t, p), Message(u, q)>> :
               t \in {0, 3}, p \in {<<>>, <<1>>, <<3, 1>>}, u \in {9}, q \in {<<2>>, <<1, 3, 2>>}}
Packets  == {c \in {Command(PACKET, 1, m, z[1], d, z[2]) : m \in Messages, d \in 0 .. 3,
                      z \in {<<FALSE, 0>>, <<TRUE, 0>>, <<TRUE, 1>>}} :
               c.drop <= Len(Packet(c.messages)) /\ Len(Stored(c)) < 2^HalfBits}
MCRecordings ==
  Triples \cup {<<p, Plain(FULL_PACKET, 2)>> : p \in Packets}
          \cup {<<Command(PACKET, 0, <<Message(3, <<1>>)>>, FALSE, 0, 0), p>> :
                  p \in {q \in Packets : q.drop < 2}}
=============================================================================
