--------------------------- MODULE PlaybackProofs ---------------------------
(***************************************************************************)
(* Proofs about Playback, for any demos, targets, budgets and chains.      *)
(*                                                                         *)
(* The inductive invariant IInv says where the loop is in the feed that    *)
(* the headers of the demo describe: while a tick is in progress, what was *)
(* told is the feed up to that tick and the change lists hold the commands *)
(* read of it; a replay that has returned, and every checkpoint, stands at *)
(* a position that splits no tick, with the feed up to there told and the  *)
(* commands up to there applied.  The properties and the refinement of     *)
(* TickFeed follow.  SegmentInv adds that the segments decoded so far have *)
(* told the ticks before the keyframe that the next one begins with.       *)
(*                                                                         *)
(* What a demo tells is defined by the rank of offsets (InOrder), so that  *)
(* the effect of one more command is a lemma about one more element.       *)
(***************************************************************************)
EXTENDS Playback, FiniteSetTheorems, SequenceTheorems, TLAPS

----------------------------------------------------------------------------
(* Sets of offsets in ascending order.                                     *)

(* S is the lower part of T. *)
Below(S, T) == S \subseteq T /\ \A j \in S, k \in T \ S : j < k

LEMMA RankBelow ==
  ASSUME NEW T, T \subseteq Int, IsFiniteSet(T), NEW S, Below(S, T)
  PROVE  /\ IsFiniteSet(S) /\ Cardinality(S) \in Nat /\ Cardinality(T) \in Nat
         /\ Cardinality(S) <= Cardinality(T)
         /\ \A i \in 1 .. Cardinality(S) : AtRank(T, i) = AtRank(S, i)
<1>1. /\ IsFiniteSet(S) /\ Cardinality(S) \in Nat /\ Cardinality(T) \in Nat
      /\ Cardinality(S) <= Cardinality(T) /\ S \subseteq T
  BY FS_Subset, FS_CardinalityType DEF Below
<1>2. ASSUME NEW i \in 1 .. Cardinality(S)
      PROVE  AtRank(T, i) = AtRank(S, i)
  <2>1. ASSUME NEW k \in S
        PROVE  {j \in T : j <= k} = {j \in S : j <= k}
    <3>1. \A j \in T \ S : k < j /\ j \in Int /\ k \in Int
      BY <1>1 DEF Below
    <3>2. \A j \in T \ S : ~(j <= k)
      BY <3>1
    <3> QED BY <1>1, <3>2
  <2>2. ASSUME NEW k \in T \ S
        PROVE  Cardinality({j \in T : j <= k}) # i
    <3> DEFINE low == {j \in T : j <= k}
    <3>1. S \cup {k} \subseteq low /\ k \notin S
      BY <1>1 DEF Below
    <3>2. IsFiniteSet(low)
      BY FS_Subset
    <3>3. Cardinality(S \cup {k}) = Cardinality(S) + 1
      BY <1>1, <3>1, FS_AddElement
    <3>4. Cardinality(S \cup {k}) <= Cardinality(low) /\ Cardinality(low) \in Nat
      BY <3>1, <3>2, FS_Subset, FS_CardinalityType
    <3> HIDE DEF low
    <3> QED BY <1>1, <3>3, <3>4 DEF low
  <2> QED BY <1>1, <2>1, <2>2 DEF AtRank
<1> QED BY <1>1, <1>2

(* The lower part of a set comes first. *)
LEMMA InOrderBelow ==
  ASSUME NEW T, T \subseteq Int, IsFiniteSet(T), NEW S, Below(S, T)
  PROVE  /\ Cardinality(S) \in Nat /\ Cardinality(T) \in Nat
         /\ Cardinality(S) <= Cardinality(T)
         /\ DOMAIN InOrder(S) = 1 .. Cardinality(S)
         /\ DOMAIN InOrder(T) = 1 .. Cardinality(T)
         /\ \A i \in 1 .. Cardinality(S) : InOrder(T)[i] = InOrder(S)[i]
<1>1. \A i \in 1 .. Cardinality(S) : AtRank(T, i) = AtRank(S, i)
  BY RankBelow
<1>2. Cardinality(S) \in Nat /\ Cardinality(T) \in Nat /\ Cardinality(S) <= Cardinality(T)
  BY RankBelow
<1> QED BY <1>1, <1>2 DEF InOrder

(* A new greatest element comes last. *)
LEMMA InOrderAdd ==
  ASSUME NEW S, S \subseteq Int, IsFiniteSet(S), NEW m \in Int, \A j \in S : j < m
  PROVE  /\ Cardinality(S) \in Nat
         /\ IsFiniteSet(S \cup {m}) /\ Cardinality(S \cup {m}) = Cardinality(S) + 1
         /\ Below(S, S \cup {m})
         /\ InOrder(S \cup {m})[Cardinality(S) + 1] = m
<1> DEFINE T == S \cup {m}
           n == Cardinality(S)
<1>1. m \notin S /\ Below(S, T)
  BY DEF Below
<1>2. n \in Nat /\ IsFiniteSet(T) /\ Cardinality(T) = n + 1
  BY <1>1, FS_AddElement, FS_CardinalityType
<1>3. {j \in T : j <= m} = T
  <2>1. \A j \in T : j <= m
    OBVIOUS
  <2> QED BY <2>1
<1>4. ASSUME NEW k \in S
      PROVE  Cardinality({j \in T : j <= k}) # n + 1
  <2> DEFINE low == {j \in T : j <= k}
  <2>1. low \subseteq S
    OBVIOUS
  <2>2. Cardinality(low) <= n /\ Cardinality(low) \in Nat
    BY <2>1, FS_Subset, FS_CardinalityType
  <2> HIDE DEF low, T, n
  <2>3. Cardinality(low) # n + 1
    BY <1>2, <2>2
  <2> QED BY <2>3 DEF low
<1>5. AtRank(T, n + 1) = {m}
  BY <1>2, <1>3, <1>4 DEF AtRank
<1>6. n + 1 \in 1 .. Cardinality(T)
  BY <1>2
<1> HIDE DEF T, n
<1>7. InOrder(T)[n + 1] = CHOOSE k \in {m} : TRUE
  BY <1>5, <1>6 DEF InOrder
<1> QED BY <1>1, <1>2, <1>7 DEF T, n

(* Every element has its place. *)
LEMMA EveryRank ==
  ASSUME NEW S, S \subseteq Int, IsFiniteSet(S)
  PROVE  /\ Cardinality(S) \in Nat
         /\ \A i \in 1 .. Cardinality(S) : AtRank(S, i) # {} /\ AtRank(S, i) \subseteq S
<1> DEFINE n       == Cardinality(S)
           upto(k) == {j \in S : j <= k}
           rank    == [k \in S |-> Cardinality(upto(k))]
<1>1. n \in Nat /\ Cardinality(1 .. n) = n /\ IsFiniteSet(1 .. n)
  BY FS_CardinalityType, FS_Interval
<1>2. \A k \in S : k \in upto(k) /\ IsFiniteSet(upto(k)) /\ upto(k) \subseteq S
  BY FS_Subset
<1>3. \A k \in S : Cardinality(upto(k)) \in 1 .. n
  <2> SUFFICES ASSUME NEW k \in S PROVE Cardinality(upto(k)) \in 1 .. n
    OBVIOUS
  <2>1. /\ Cardinality(upto(k)) \in Nat /\ Cardinality(upto(k)) # 0
        /\ Cardinality(upto(k)) <= n
    BY <1>2, FS_CardinalityType, FS_EmptySet, FS_Subset
  <2> HIDE DEF upto, n
  <2> QED BY <1>1, <2>1
<1>4. ASSUME NEW k \in S, NEW l \in S, k < l
      PROVE  Cardinality(upto(k)) # Cardinality(upto(l))
  <2>1. \A j \in S : j <= k => j <= l
    BY <1>4
  <2>2. /\ upto(k) \cup {l} \subseteq upto(l) /\ l \notin upto(k)
        /\ IsFiniteSet(upto(k)) /\ IsFiniteSet(upto(l))
    <3>1. IsFiniteSet(upto(k)) /\ IsFiniteSet(upto(l))
      BY <1>2
    <3>2. \A j \in upto(k) \cup {l} : j \in upto(l)
      BY <2>1
    <3>3. l \notin upto(k)
      BY <1>4
    <3> HIDE DEF upto
    <3> QED BY <3>1, <3>2, <3>3
  <2> HIDE DEF upto, n
  <2>3. /\ Cardinality(upto(k)) \in Nat /\ Cardinality(upto(l)) \in Nat
        /\ Cardinality(upto(k) \cup {l}) = Cardinality(upto(k)) + 1
    BY <2>2, FS_AddElement, FS_CardinalityType
  <2>4. Cardinality(upto(k) \cup {l}) <= Cardinality(upto(l))
    BY <2>2, FS_Subset
  <2> QED BY <2>3, <2>4
<1>5. rank \in Injection(S, 1 .. n)
  <2>1. rank \in [S -> 1 .. n]
    BY <1>3
  <2>2. ASSUME NEW k \in S, NEW l \in S, rank[k] = rank[l]
        PROVE  k = l
    <3>1. Cardinality(upto(k)) = Cardinality(upto(l))
      BY <2>2
    <3> HIDE DEF upto, rank
    <3>2. ~(k < l) /\ ~(l < k)
      BY <1>4, <3>1
    <3> QED BY <3>2
  <2> HIDE DEF rank
  <2> QED BY <2>1, <2>2 DEF Injection, IsInjective
<1>6. rank \in Surjection(S, 1 .. n)
  <2> HIDE DEF rank
  <2> QED BY <1>1, <1>5, FS_Injection DEF n
<1>7. \A i \in 1 .. n : \E k \in S : rank[k] = i
  <2> HIDE DEF rank, n
  <2> QED BY <1>6 DEF Surjection
<1>8. \A i \in 1 .. n : AtRank(S, i) # {} /\ AtRank(S, i) \subseteq S
  BY <1>7 DEF AtRank
<1> QED BY <1>1, <1>8

LEMMA InOrderType ==
  ASSUME NEW S, S \subseteq Int, IsFiniteSet(S)
  PROVE  /\ InOrder(S) \in Seq(S) /\ Len(InOrder(S)) = Cardinality(S)
         /\ Cardinality(S) \in Nat
<1> DEFINE n == Cardinality(S)
<1>1. n \in Nat /\ \A i \in 1 .. n : AtRank(S, i) # {} /\ AtRank(S, i) \subseteq S
  BY EveryRank
<1>2. \A i \in 1 .. n : (CHOOSE k \in AtRank(S, i) : TRUE) \in S
  BY <1>1
<1> HIDE DEF n
<1> QED BY <1>1, <1>2 DEF InOrder, n

(* The element of the first rank is the least, that of the last the        *)
(* greatest.                                                               *)
LEMMA Extremes ==
  ASSUME NEW S, S \subseteq Int, IsFiniteSet(S), S # {}
  PROVE  /\ \E k \in S : \A j \in S : k <= j
         /\ \E k \in S : \A j \in S : j <= k
<1> DEFINE n       == Cardinality(S)
           upto(k) == {j \in S : j <= k}
<1>1. n \in Nat /\ n >= 1 /\ \A i \in 1 .. n : AtRank(S, i) # {}
  <2>1. n \in Nat /\ \A i \in 1 .. n : AtRank(S, i) # {}
    BY EveryRank
  <2>2. n # 0
    BY FS_EmptySet
  <2> HIDE DEF n
  <2> QED BY <2>1, <2>2
<1>2. \A k \in S : k \in upto(k) /\ upto(k) \subseteq S /\ IsFiniteSet(upto(k))
  BY FS_Subset
<1>3. \E k \in S : \A j \in S : k <= j
  <2>0. 1 \in 1 .. n
    BY <1>1
  <2>1. PICK k \in S : Cardinality(upto(k)) = 1
    BY <1>1, <2>0 DEF AtRank
  <2>2. PICK only : upto(k) = {only}
    <3> HIDE DEF upto
    <3> QED BY <1>2, <2>1, FS_Singleton
  <2>3. upto(k) = {k}
    BY <1>2, <2>2
  <2>4. \A j \in S : j <= k => j = k
    BY <2>3
  <2> QED BY <2>4
<1>4. \E k \in S : \A j \in S : j <= k
  <2>0. n \in 1 .. n
    BY <1>1
  <2>1. PICK k \in S : Cardinality(upto(k)) = n
    BY <1>1, <2>0 DEF AtRank
  <2>2. upto(k) = S
    <3> HIDE DEF upto
    <3> QED BY <1>2, <2>1, FS_Subset DEF n
  <2> QED BY <2>2
<1> QED BY <1>3, <1>4

LEMMA InOrderAppend ==
  ASSUME NEW S, S \subseteq Int, IsFiniteSet(S), NEW m \in Int, \A j \in S : j < m
  PROVE  InOrder(S \cup {m}) = Append(InOrder(S), m)
<1> DEFINE T == S \cup {m}
           n == Cardinality(S)
<1>1. n \in Nat /\ Cardinality(T) = n + 1 /\ IsFiniteSet(T) /\ InOrder(T)[n + 1] = m
  BY InOrderAdd
<1>2. /\ DOMAIN InOrder(S) = 1 .. n
      /\ DOMAIN InOrder(T) = 1 .. n + 1
      /\ \A i \in 1 .. n : InOrder(T)[i] = InOrder(S)[i]
  BY <1>1, InOrderAdd, InOrderBelow
<1>3. /\ InOrder(S) \in Seq(S) /\ Len(InOrder(S)) = n
      /\ InOrder(T) \in Seq(T) /\ Len(InOrder(T)) = n + 1
  <2>1. T \subseteq Int
    OBVIOUS
  <2> QED BY <1>1, <2>1, InOrderType
<1>4. InOrder(S) \in Seq(T)
  <2>1. S \subseteq T
    OBVIOUS
  <2> HIDE DEF T
  <2> QED BY <1>3, <2>1, SeqMonotonic
<1>5. m \in T
  OBVIOUS
<1> HIDE DEF T, n
<1>6. InOrder(T) = Append(InOrder(S), m)
  BY <1>1, <1>2, <1>3, <1>4, <1>5
<1> QED BY <1>6 DEF T

LEMMA InOrderEmpty == InOrder({}) = <<>> /\ Cardinality({}) = 0
BY FS_EmptySet DEF InOrder
----------------------------------------------------------------------------
(* Sequences that grow by one element, and their beginnings.               *)

LEMMA OneMore ==
  ASSUME NEW V, NEW s \in Seq(V), NEW t \in Seq(V),
         Len(t) = Len(s) + 1, \A i \in 1 .. Len(s) : t[i] = s[i]
  PROVE  t = Append(s, t[Len(s) + 1])
<1>1. t[Len(s) + 1] \in V
  OBVIOUS
<1> QED BY <1>1

LEMMA Beginning ==
  ASSUME NEW V, NEW s \in Seq(V), NEW t \in Seq(V),
         Len(s) <= Len(t), \A i \in 1 .. Len(s) : t[i] = s[i]
  PROVE  s = SubSeq(t, 1, Len(s))
OBVIOUS

CallbackType == [tick : Int, changed : Seq(Int), updated : Seq(Int)]
TickType     == [tick : Int, changed : Seq(Int)]

(* What a callback adds to what a consumer was told. *)
Tells(c) == [tick |-> c.tick, changed |-> c.changed]

LEMMA ToldType ==
  ASSUME NEW calls \in Seq(CallbackType)
  PROVE  /\ ToldBy(calls) \in Seq(TickType)
         /\ Len(ToldBy(calls)) = Cardinality(Timed(calls))
         /\ IsFiniteSet(Timed(calls)) /\ Timed(calls) \subseteq 1 .. Len(calls)
         /\ \A i \in 1 .. Cardinality(Timed(calls)) :
              /\ InOrder(Timed(calls))[i] \in 1 .. Len(calls)
              /\ ToldBy(calls)[i] = Tells(calls[InOrder(Timed(calls))[i]])
<1>1. Timed(calls) \subseteq 1 .. Len(calls) /\ 1 .. Len(calls) \subseteq Int
  BY DEF Timed
<1>2. IsFiniteSet(Timed(calls))
  BY <1>1, FS_Interval, FS_Subset
<1>3. /\ InOrder(Timed(calls)) \in Seq(Timed(calls))
      /\ Len(InOrder(Timed(calls))) = Cardinality(Timed(calls))
      /\ Cardinality(Timed(calls)) \in Nat
  BY <1>1, <1>2, InOrderType
<1> DEFINE S == Timed(calls)
           n == Cardinality(S)
<1> HIDE DEF S
<1>4. \A i \in 1 .. n : InOrder(S)[i] \in 1 .. Len(calls)
  BY <1>1, <1>3 DEF S
<1>5. /\ DOMAIN Picked(calls, S) = 1 .. n
      /\ \A i \in 1 .. n : Picked(calls, S)[i] = calls[InOrder(S)[i]]
  BY <1>3 DEF Picked, S
<1>6. ToldBy(calls) = [i \in 1 .. n |-> Tells(calls[InOrder(S)[i]])]
  BY <1>5 DEF ToldBy, Tells, S
<1>7. \A i \in 1 .. n : Tells(calls[InOrder(S)[i]]) \in TickType
  <2>1. \A i \in 1 .. n : calls[InOrder(S)[i]] \in CallbackType
    BY <1>4
  <2> QED BY <2>1 DEF CallbackType, TickType, Tells
<1> HIDE DEF n
<1>8. ToldBy(calls) \in Seq(TickType) /\ Len(ToldBy(calls)) = n
  BY <1>3, <1>6, <1>7 DEF n, S
<1> QED BY <1>1, <1>2, <1>4, <1>6, <1>8 DEF n, S

(* A callback with a negative tick tells nothing. *)
LEMMA ToldAppend ==
  ASSUME NEW calls \in Seq(CallbackType), NEW c \in CallbackType
  PROVE  ToldBy(Append(calls, c)) = IF c.tick >= 0 THEN Append(ToldBy(calls), Tells(c))
                                                   ELSE ToldBy(calls)
<1> DEFINE more == Append(calls, c)
           m    == Len(calls) + 1
           S    == Timed(calls)
           T    == Timed(more)
<1>1. /\ more \in Seq(CallbackType) /\ Len(more) = m /\ m \in Nat /\ Len(calls) \in Nat
      /\ more[m] = c /\ \A i \in 1 .. Len(calls) : more[i] = calls[i]
      /\ DOMAIN calls = 1 .. Len(calls) /\ DOMAIN more = 1 .. m
  OBVIOUS
<1>2. /\ ToldBy(calls) \in Seq(TickType) /\ Len(ToldBy(calls)) = Cardinality(S)
      /\ IsFiniteSet(S) /\ S \subseteq 1 .. Len(calls)
      /\ \A i \in 1 .. Cardinality(S) : /\ InOrder(S)[i] \in 1 .. Len(calls)
                                        /\ ToldBy(calls)[i] = Tells(calls[InOrder(S)[i]])
  BY ToldType
<1>3. /\ ToldBy(more) \in Seq(TickType) /\ Len(ToldBy(more)) = Cardinality(T)
      /\ \A i \in 1 .. Cardinality(T) : ToldBy(more)[i] = Tells(more[InOrder(T)[i]])
  BY <1>1, ToldType
<1> HIDE DEF more, m
<1>4. CASE c.tick >= 0
  <2>1. T = S \cup {m}
    BY <1>1, <1>4 DEF Timed, m
  <2>2. S \subseteq Int /\ m \in Int /\ \A j \in S : j < m
    BY <1>1, <1>2 DEF m
  <2> HIDE DEF S, T
  <2>3. /\ Cardinality(S) \in Nat /\ Cardinality(T) = Cardinality(S) + 1
        /\ InOrder(T)[Cardinality(S) + 1] = m /\ IsFiniteSet(T) /\ Below(S, T)
    BY <1>2, <2>1, <2>2, InOrderAdd
  <2>4. \A i \in 1 .. Cardinality(S) : InOrder(T)[i] = InOrder(S)[i]
    BY <2>1, <2>2, <2>3, InOrderBelow
  <2>5. \A i \in 1 .. Cardinality(S) : ToldBy(more)[i] = ToldBy(calls)[i]
    <3>1. \A i \in 1 .. Cardinality(S) : i \in 1 .. Cardinality(T)
      BY <2>3
    <3> QED BY <1>1, <1>2, <1>3, <2>4, <3>1
  <2>6. ToldBy(more)[Cardinality(S) + 1] = Tells(c)
    <3>1. Cardinality(S) + 1 \in 1 .. Cardinality(T)
      BY <2>3
    <3> QED BY <1>1, <1>3, <2>3, <3>1
  <2>7. ToldBy(more) = Append(ToldBy(calls), Tells(c))
    BY <1>2, <1>3, <2>3, <2>5, <2>6, OneMore
  <2> QED BY <1>4, <2>7 DEF more
<1>5. CASE ~(c.tick >= 0)
  <2>1. T = S
    BY <1>1, <1>5 DEF Timed, m
  <2> HIDE DEF S, T
  <2>2. \A i \in 1 .. Cardinality(S) : ToldBy(more)[i] = ToldBy(calls)[i]
    BY <1>1, <1>2, <1>3, <2>1
  <2>3. ToldBy(more) = ToldBy(calls)
    BY <1>2, <1>3, <2>1, <2>2, SeqEqual
  <2> QED BY <1>5, <2>3 DEF more
<1> QED BY <1>4, <1>5

LEMMA ToldNothing == ToldBy(<<>>) = <<>> /\ Cardinality(Timed(<<>>)) = 0
<1>1. Timed(<<>>) = {}
  BY DEF Timed
<1>2. Picked(<<>>, {}) = <<>>
  BY InOrderEmpty DEF Picked
<1> QED BY <1>1, <1>2, InOrderEmpty DEF ToldBy
----------------------------------------------------------------------------
(* What a demo tells.                                                      *)

LEMMA DemoTypes ==
  ASSUME NEW d \in Demos
  PROVE  /\ Len(d) \in Nat /\ DataLen(d) = Len(d) + 1 /\ DOMAIN d = 1 .. Len(d)
         /\ \A k \in 1 .. Len(d) : d[k].tick \in Int /\ d[k].cmd \in Commands
<1>1. d \in Seq(Frame)
  BY DemosAssumption
<1>2. \A k \in 1 .. Len(d) : d[k] \in Frame
  BY <1>1
<1>3. \A k \in 1 .. Len(d) : d[k].tick \in MinTick .. MaxTick /\ d[k].cmd \in Commands
  BY <1>2 DEF Frame
<1> QED BY <1>1, <1>3, TickRangeAssumption DEF DataLen

(* Reading ends with the first STOP. *)
LEMMA LastReadIs ==
  ASSUME NEW d \in Demos, NEW from \in 1 .. DataLen(d), NEW to \in from .. DataLen(d)
  PROVE  \/ /\ LastRead(d, from, to) = to - 1
            /\ \A k \in from .. to - 1 : d[k].cmd # "STOP"
         \/ /\ LastRead(d, from, to) \in from .. to - 1
            /\ d[LastRead(d, from, to)].cmd = "STOP"
            /\ \A k \in from .. LastRead(d, from, to) - 1 : d[k].cmd # "STOP"
<1> DEFINE stops == {k \in from .. to - 1 : d[k].cmd = "STOP"}
<1>1. from \in Int /\ to \in Int /\ to <= Len(d) + 1 /\ Len(d) \in Nat
  BY DemoTypes
<1>2. CASE stops = {}
  BY <1>2 DEF LastRead
<1>3. CASE stops # {}
  <2>1. stops \subseteq from .. to - 1 /\ IsFiniteSet(stops) /\ stops \subseteq Int
    <3>1. stops \subseteq from .. to - 1 /\ to - 1 \in Int
      BY <1>1
    <3>2. IsFiniteSet(from .. to - 1) /\ from .. to - 1 \subseteq Int
      BY <1>1, <3>1, FS_Interval
    <3> HIDE DEF stops
    <3> QED BY <3>1, <3>2, FS_Subset
  <2>2. \E k \in stops : \A j \in stops : k <= j
    <3> HIDE DEF stops
    <3> QED BY <1>3, <2>1, Extremes
  <2>3. LastRead(d, from, to) = CHOOSE k \in stops : \A j \in stops : k <= j
    BY <1>3 DEF LastRead
  <2>4. LastRead(d, from, to) \in stops /\ \A j \in stops : LastRead(d, from, to) <= j
    <3> HIDE DEF stops
    <3> QED BY <2>2, <2>3
  <2> DEFINE L == LastRead(d, from, to)
  <2> HIDE DEF L
  <2>5. L \in from .. to - 1 /\ d[L].cmd = "STOP" /\ \A j \in stops : L <= j
    BY <2>4 DEF L
  <2>6. \A k \in from .. L - 1 : d[k].cmd # "STOP"
    <3> SUFFICES ASSUME NEW k \in from .. L - 1, d[k].cmd = "STOP" PROVE FALSE
      OBVIOUS
    <3>1. k \in stops
      BY <1>1, <2>5
    <3> QED BY <1>1, <2>5, <3>1
  <2> QED BY <2>5, <2>6 DEF L
<1> QED BY <1>2, <1>3

(* The offsets before another that are read: none at or behind a STOP.     *)
Reads(d, from, at) == {k \in from .. at - 1 : \A j \in from .. k : d[j].cmd # "STOP"}

LEMMA CommandsAreReads ==
  ASSUME NEW d \in Demos, NEW from \in 1 .. DataLen(d), NEW to \in from .. DataLen(d)
  PROVE  CommandsRead(d, from, to) = InOrder(Reads(d, from, to))
<1> DEFINE L   == LastRead(d, from, to)
           set == {k \in from .. L : d[k].cmd # "STOP"}
<1>1. from \in Int /\ to \in Int
  BY DemoTypes
<1>2. CASE L = to - 1 /\ \A k \in from .. to - 1 : d[k].cmd # "STOP"
  <2>1. set = from .. to - 1
    BY <1>2
  <2>2. Reads(d, from, to) = from .. to - 1
    <3>1. \A k \in from .. to - 1 : \A j \in from .. k : d[j].cmd # "STOP"
      BY <1>1, <1>2
    <3> QED BY <3>1 DEF Reads
  <2> QED BY <2>1, <2>2 DEF CommandsRead
<1>3. CASE /\ L \in from .. to - 1 /\ d[L].cmd = "STOP"
           /\ \A k \in from .. L - 1 : d[k].cmd # "STOP"
  <2> HIDE DEF L
  <2>1. set = from .. L - 1
    BY <1>1, <1>3
  <2>2. Reads(d, from, to) = from .. L - 1
    <3>1. ASSUME NEW k \in from .. L - 1
          PROVE  k \in from .. to - 1 /\ \A j \in from .. k : d[j].cmd # "STOP"
      BY <1>1, <1>3
    <3>2. ASSUME NEW k \in from .. to - 1, \A j \in from .. k : d[j].cmd # "STOP"
          PROVE  k \in from .. L - 1
      BY <1>1, <1>3, <3>2
    <3> QED BY <3>1, <3>2 DEF Reads
  <2> QED BY <2>1, <2>2 DEF CommandsRead, L
<1> QED BY <1>2, <1>3, LastReadIs

LEMMA ReadsNone ==
  ASSUME NEW d, NEW from \in Int
  PROVE  InOrder(Reads(d, from, from)) = <<>>
<1>1. Reads(d, from, from) = {}
  BY DEF Reads
<1> QED BY <1>1, InOrderEmpty

(* One more command is read, or a STOP. *)
LEMMA ReadsNext ==
  ASSUME NEW d \in Demos, NEW from \in 1 .. DataLen(d), NEW at \in from .. Len(d),
         \A k \in from .. at : d[k].cmd # "STOP"
  PROVE  /\ InOrder(Reads(d, from, at + 1)) = Append(InOrder(Reads(d, from, at)), at)
         /\ InOrder(Reads(d, from, at)) \in Seq(Int)
<1>1. from \in Int /\ at \in Int
  BY DemoTypes
<1>2. Reads(d, from, at + 1) = from .. at /\ Reads(d, from, at) = from .. at - 1
  <2>1. \A k \in from .. at : \A j \in from .. k : d[j].cmd # "STOP"
    BY <1>1
  <2> QED BY <1>1, <2>1 DEF Reads
<1> DEFINE S == from .. at - 1
<1>3. IsFiniteSet(S) /\ S \subseteq Int /\ from .. at = S \cup {at} /\ \A j \in S : j < at
  BY <1>1, FS_Interval
<1> HIDE DEF S
<1>4. InOrder(S \cup {at}) = Append(InOrder(S), at)
  BY <1>1, <1>3, InOrderAppend
<1>5. InOrder(S) \in Seq(Int)
  BY <1>3, InOrderType, SeqMonotonic
<1> QED BY <1>2, <1>3, <1>4, <1>5 DEF S

LEMMA ReadsStop ==
  ASSUME NEW d \in Demos, NEW from \in 1 .. DataLen(d), NEW at \in from .. Len(d),
         \A k \in from .. at - 1 : d[k].cmd # "STOP", d[at].cmd = "STOP"
  PROVE  Reads(d, from, DataLen(d)) = Reads(d, from, at)
<1>1. from \in Int /\ at \in Int /\ DataLen(d) \in Int /\ at < DataLen(d)
  BY DemoTypes
<1>2. ASSUME NEW k \in from .. DataLen(d) - 1, \A j \in from .. k : d[j].cmd # "STOP"
      PROVE  k \in from .. at - 1
  BY <1>1, <1>2
<1>3. \A k \in from .. at - 1 : k \in from .. DataLen(d) - 1
  BY <1>1
<1> QED BY <1>2, <1>3 DEF Reads

(* Where the reading of a feed ends. *)
End(d, from) == LastRead(d, from, DataLen(d))

LEMMA EndIs ==
  ASSUME NEW d \in Demos, NEW from \in 1 .. DataLen(d), NEW at \in from .. DataLen(d),
         \A k \in from .. at - 1 : d[k].cmd # "STOP"
  PROVE  /\ End(d, from) \in Int /\ End(d, from) <= Len(d) /\ at - 1 <= End(d, from)
         /\ at <= Len(d) => at <= End(d, from)
         /\ at <= Len(d) /\ d[at].cmd = "STOP" => End(d, from) = at
         /\ at = DataLen(d) => End(d, from) = at - 1
<1>1. from \in Int /\ at \in Int /\ DataLen(d) = Len(d) + 1 /\ Len(d) \in Nat
  BY DemoTypes
<1>2. \/ /\ End(d, from) = Len(d)
         /\ \A k \in from .. Len(d) : d[k].cmd # "STOP"
      \/ /\ End(d, from) \in from .. Len(d)
         /\ d[End(d, from)].cmd = "STOP"
         /\ \A k \in from .. End(d, from) - 1 : d[k].cmd # "STOP"
  BY <1>1, LastReadIs DEF End
<1> DEFINE e == End(d, from)
<1>3. e \in Int /\ e <= Len(d)
  BY <1>1, <1>2
<1> HIDE DEF e
<1>4. CASE e = Len(d) /\ \A k \in from .. Len(d) : d[k].cmd # "STOP"
  BY <1>1, <1>4 DEF e
<1>5. CASE e \in from .. Len(d) /\ d[e].cmd = "STOP" /\ \A k \in from .. e - 1 : d[k].cmd # "STOP"
  <2>1. at <= e
    BY <1>1, <1>3, <1>5
  <2>2. at <= Len(d) /\ d[at].cmd = "STOP" => e = at
    BY <1>1, <1>3, <1>5, <2>1
  <2> QED BY <1>1, <1>3, <1>5, <2>1, <2>2 DEF e
<1> QED BY <1>2, <1>4, <1>5 DEF e
(* The offsets that close a tick of the feed that begins at an offset, and *)
(* what is told once those before another are behind.                      *)
Closings(d, from) == Closes(d, from, End(d, from))
Before(S, at) == {k \in S : k < at}
ToldUpTo(d, from, at) == TicksClosedBy(d, from, Before(Closings(d, from), at))

ClosedTick(d, from, k) == [tick |-> d[k].tick, changed |-> InOrder(RunOf(d, from, k))]

LEMMA RunType ==
  ASSUME NEW d \in Demos, NEW from \in Int, NEW k \in Int
  PROVE  /\ RunOf(d, from, k) \subseteq from .. k /\ RunOf(d, from, k) \subseteq Int
         /\ IsFiniteSet(RunOf(d, from, k)) /\ InOrder(RunOf(d, from, k)) \in Seq(Int)
<1>1. RunOf(d, from, k) \subseteq from .. k
  BY DEF RunOf
<1>2. IsFiniteSet(from .. k) /\ from .. k \subseteq Int
  BY FS_Interval
<1>3. IsFiniteSet(RunOf(d, from, k)) /\ RunOf(d, from, k) \subseteq Int
  BY <1>1, <1>2, FS_Subset
<1> QED BY <1>1, <1>3, InOrderType, SeqMonotonic

(* A run of one tick grows by the next command with that tick. *)
LEMMA RunNext ==
  ASSUME NEW d \in Demos, NEW from \in 1 .. DataLen(d), NEW at \in from .. Len(d)
  PROVE  LET begins == at = from \/ d[at - 1].tick # d[at].tick
             before == IF begins THEN <<>> ELSE InOrder(RunOf(d, from, at - 1))
         IN  InOrder(RunOf(d, from, at)) = IF d[at].cmd = "STOP" THEN before
                                                                ELSE Append(before, at)
<1> DEFINE begins == at = from \/ d[at - 1].tick # d[at].tick
           S      == IF begins THEN {} ELSE RunOf(d, from, at - 1)
           before == IF begins THEN <<>> ELSE InOrder(RunOf(d, from, at - 1))
<1>1. from \in Int /\ at \in Int /\ from <= at
  BY DemoTypes
<1>2. S \subseteq Int /\ IsFiniteSet(S) /\ (\A j \in S : j < at) /\ InOrder(S) = before
  <2>1. CASE begins
    BY <2>1, InOrderEmpty, FS_EmptySet
  <2>2. CASE ~begins
    BY <1>1, <2>2, RunType
  <2> QED BY <2>1, <2>2
<1>3. ASSUME NEW j \in from .. at - 1
      PROVE  j \in S <=> d[j].cmd # "STOP" /\ \A m \in j .. at : d[m].tick = d[at].tick
  <2>1. CASE begins
    <3>1. at - 1 \in j .. at /\ d[at - 1].tick # d[at].tick
      BY <1>1, <2>1
    <3> QED BY <2>1, <3>1
  <2>2. CASE ~begins
    <3>1. d[at - 1].tick = d[at].tick
      BY <2>2
    <3>2. (\A m \in j .. at : d[m].tick = d[at].tick)
            <=> (\A m \in j .. at - 1 : d[m].tick = d[at - 1].tick)
      BY <1>1, <3>1
    <3>3. j \in S <=> j \in RunOf(d, from, at - 1)
      BY <2>2
    <3> QED BY <3>2, <3>3 DEF RunOf
  <2> QED BY <2>1, <2>2
<1> HIDE DEF S, before, begins
<1>4. RunOf(d, from, at) = IF d[at].cmd = "STOP" THEN S ELSE S \cup {at}
  <2>1. ASSUME NEW j \in S PROVE j \in from .. at - 1
    <3>1. S \subseteq from .. at - 1
      BY <1>1, RunType DEF S
    <3> QED BY <3>1
  <2>2. \A j \in from .. at : j \in from .. at - 1 \/ j = at
    BY <1>1
  <2>3. at \in RunOf(d, from, at) <=> d[at].cmd # "STOP"
    BY <1>1 DEF RunOf
  <2>4. \A j \in from .. at - 1 : j \in RunOf(d, from, at) <=> j \in S
    BY <1>1, <1>3 DEF RunOf
  <2>5. RunOf(d, from, at) \subseteq from .. at /\ at \notin S
    BY <1>1, <2>1 DEF RunOf
  <2> DEFINE R == RunOf(d, from, at)
  <2>6. \A j : j \in R <=> j \in S \/ (j = at /\ d[at].cmd # "STOP")
    <3> SUFFICES ASSUME NEW j PROVE j \in R <=> j \in S \/ (j = at /\ d[at].cmd # "STOP")
      OBVIOUS
    <3> HIDE DEF R
    <3>1. CASE j \in from .. at - 1
      <4>1. j # at
        BY <1>1, <3>1
      <4> QED BY <2>4, <3>1, <4>1 DEF R
    <3>2. CASE j = at
      BY <2>3, <2>5, <3>2 DEF R
    <3>3. CASE j \notin from .. at - 1 /\ j # at
      <4>1. j \notin S
        BY <2>1, <3>3
      <4>2. j \notin R
        BY <2>2, <2>5, <3>3 DEF R
      <4> QED BY <3>3, <4>1, <4>2
    <3> QED BY <3>1, <3>2, <3>3
  <2> HIDE DEF R
  <2>7. R = IF d[at].cmd = "STOP" THEN S ELSE S \cup {at}
    BY <2>6
  <2> QED BY <2>7 DEF R
<1>5. InOrder(S \cup {at}) = Append(InOrder(S), at)
  BY <1>1, <1>2, InOrderAppend
<1>6. InOrder(RunOf(d, from, at)) = IF d[at].cmd = "STOP" THEN before ELSE Append(before, at)
  BY <1>2, <1>4, <1>5
<1> QED BY <1>6 DEF before, begins

LEMMA ClosingsRange ==
  ASSUME NEW d \in Demos, NEW from \in 1 .. DataLen(d), NEW at \in Int
  PROVE  /\ Closings(d, from) \subseteq from .. Len(d)
         /\ Before(Closings(d, from), at) \subseteq from .. Len(d)
         /\ Before(Closings(d, from), at) \subseteq Int
         /\ IsFiniteSet(Before(Closings(d, from), at))
<1>1. from \in Int /\ Len(d) \in Nat /\ from <= DataLen(d) /\ DataLen(d) = Len(d) + 1
  BY DemoTypes
<1>2. \A k \in from .. from - 1 : d[k].cmd # "STOP"
  BY <1>1
<1>3. End(d, from) \in Int /\ End(d, from) <= Len(d)
  BY <1>1, <1>2, EndIs
<1>4. Closings(d, from) \subseteq from .. Len(d)
  BY <1>1, <1>3 DEF Closings, Closes
<1>5. Before(Closings(d, from), at) \subseteq from .. Len(d)
  BY <1>4 DEF Before
<1>6. IsFiniteSet(from .. Len(d)) /\ from .. Len(d) \subseteq Int
  BY <1>1, FS_Interval
<1> QED BY <1>4, <1>5, <1>6, FS_Subset

LEMMA ToldUpToType ==
  ASSUME NEW d \in Demos, NEW from \in 1 .. DataLen(d), NEW at \in Int
  PROVE  LET S == Before(Closings(d, from), at)
         IN  /\ ToldUpTo(d, from, at) \in Seq(TickType)
             /\ Len(ToldUpTo(d, from, at)) = Cardinality(S)
             /\ \A i \in 1 .. Cardinality(S) :
                  ToldUpTo(d, from, at)[i] = ClosedTick(d, from, InOrder(S)[i])
<1> DEFINE S == Before(Closings(d, from), at)
           n == Cardinality(S)
<1>1. S \subseteq from .. Len(d) /\ S \subseteq Int /\ IsFiniteSet(S)
  BY ClosingsRange
<1> HIDE DEF S
<1>2. InOrder(S) \in Seq(S) /\ Len(InOrder(S)) = n /\ n \in Nat
  BY <1>1, InOrderType
<1>3. ToldUpTo(d, from, at) = [i \in 1 .. n |-> ClosedTick(d, from, InOrder(S)[i])]
  BY <1>2 DEF ToldUpTo, TicksClosedBy, ClosedTick, S
<1>4. ASSUME NEW i \in 1 .. n PROVE ClosedTick(d, from, InOrder(S)[i]) \in TickType
  <2> DEFINE k == InOrder(S)[i]
  <2>1. k \in S
    BY <1>2
  <2> HIDE DEF k
  <2>2. from \in Int /\ k \in Int /\ k \in 1 .. Len(d)
    BY <1>1, <2>1, DemoTypes
  <2>3. d[k].tick \in Int /\ InOrder(RunOf(d, from, k)) \in Seq(Int)
    BY <2>2, DemoTypes, RunType
  <2>4. ClosedTick(d, from, k) \in TickType
    BY <2>3 DEF ClosedTick, TickType
  <2> QED BY <2>4 DEF k
<1> HIDE DEF n
<1>5. ToldUpTo(d, from, at) \in Seq(TickType) /\ Len(ToldUpTo(d, from, at)) = n
  BY <1>2, <1>3, <1>4 DEF n
<1> QED BY <1>3, <1>5 DEF n, S
(* The next offset that may close a tick. *)
LEMMA TellNext ==
  ASSUME NEW d \in Demos, NEW from \in 1 .. DataLen(d), NEW at \in from .. Len(d),
         at <= End(d, from)
  PROVE  LET closes == d[at].tick >= 0 /\ (at = End(d, from) \/ d[at + 1].tick # d[at].tick)
         IN  ToldUpTo(d, from, at + 1) =
               IF closes THEN Append(ToldUpTo(d, from, at), ClosedTick(d, from, at))
                         ELSE ToldUpTo(d, from, at)
<1> DEFINE closes == d[at].tick >= 0 /\ (at = End(d, from) \/ d[at + 1].tick # d[at].tick)
           C == Closings(d, from)
           S == Before(C, at)
           T == Before(C, at + 1)
<1>1. from \in Int /\ at \in Int /\ at + 1 \in Int
  BY DemoTypes
<1>2. S \subseteq Int /\ IsFiniteSet(S) /\ C \subseteq Int /\ \A j \in S : j < at
  <2>1. C \subseteq from .. Len(d) /\ from .. Len(d) \subseteq Int
    BY <1>1, ClosingsRange, DemoTypes
  <2>2. S \subseteq Int /\ IsFiniteSet(S)
    BY <1>1, ClosingsRange
  <2> QED BY <2>1, <2>2 DEF Before
<1>3. at \in C <=> closes
  <2>1. at \in from .. End(d, from)
    <3>1. \A k \in from .. from - 1 : d[k].cmd # "STOP"
      BY <1>1
    <3>2. End(d, from) \in Int
      BY <1>1, <3>1, EndIs, DemoTypes
    <3> QED BY <1>1, <3>2
  <2> QED BY <2>1 DEF Closings, Closes
<1>4. \A k \in C : k < at + 1 <=> (k < at \/ k = at)
  BY <1>1, <1>2
<1>5. T = IF closes THEN S \cup {at} ELSE S
  <2> HIDE DEF closes, C
  <2> QED BY <1>3, <1>4 DEF Before
<1>6. /\ ToldUpTo(d, from, at) \in Seq(TickType)
      /\ Len(ToldUpTo(d, from, at)) = Cardinality(S)
      /\ \A i \in 1 .. Cardinality(S) :
           ToldUpTo(d, from, at)[i] = ClosedTick(d, from, InOrder(S)[i])
  BY <1>1, ToldUpToType
<1>7. /\ ToldUpTo(d, from, at + 1) \in Seq(TickType)
      /\ Len(ToldUpTo(d, from, at + 1)) = Cardinality(T)
      /\ \A i \in 1 .. Cardinality(T) :
           ToldUpTo(d, from, at + 1)[i] = ClosedTick(d, from, InOrder(T)[i])
  BY <1>1, ToldUpToType
<1>8. CASE closes
  <2> HIDE DEF S, T, closes
  <2>1. T = S \cup {at}
    BY <1>5, <1>8
  <2>2. /\ Cardinality(S) \in Nat /\ Cardinality(T) = Cardinality(S) + 1
        /\ InOrder(T)[Cardinality(S) + 1] = at /\ IsFiniteSet(T) /\ Below(S, T)
    BY <1>1, <1>2, <2>1, InOrderAdd
  <2>3. T \subseteq Int
    BY <1>1, <1>2, <2>1
  <2>4. \A i \in 1 .. Cardinality(S) : InOrder(T)[i] = InOrder(S)[i] /\ i \in 1 .. Cardinality(T)
    <3>1. \A i \in 1 .. Cardinality(S) : InOrder(T)[i] = InOrder(S)[i]
      BY <2>2, <2>3, InOrderBelow
    <3>2. \A i \in 1 .. Cardinality(S) : i \in 1 .. Cardinality(T)
      BY <2>2
    <3> QED BY <3>1, <3>2
  <2>5. \A i \in 1 .. Cardinality(S) : ToldUpTo(d, from, at + 1)[i] = ToldUpTo(d, from, at)[i]
    BY <1>6, <1>7, <2>4
  <2>6. ToldUpTo(d, from, at + 1)[Cardinality(S) + 1] = ClosedTick(d, from, at)
    <3>1. Cardinality(S) + 1 \in 1 .. Cardinality(T)
      BY <2>2
    <3> QED BY <1>7, <2>2, <3>1
  <2>7. ToldUpTo(d, from, at + 1) = Append(ToldUpTo(d, from, at), ClosedTick(d, from, at))
    BY <1>6, <1>7, <2>2, <2>5, <2>6, OneMore
  <2> QED BY <1>8, <2>7 DEF closes
<1>9. CASE ~closes
  BY <1>5, <1>9 DEF ToldUpTo
<1> QED BY <1>8, <1>9

(* Nothing closes before the feed begins, nor behind its end. *)
LEMMA ToldAtEnds ==
  ASSUME NEW d \in Demos, NEW from \in 1 .. DataLen(d)
  PROVE  /\ ToldUpTo(d, from, from) = <<>>
         /\ \A at \in Int : at > End(d, from) =>
              ToldUpTo(d, from, at) = TicksBetween(d, from, DataLen(d))
<1>1. from \in Int /\ Closings(d, from) \subseteq from .. Len(d)
  BY ClosingsRange
<1>2. Before(Closings(d, from), from) = {}
  BY <1>1 DEF Before
<1>3. ToldUpTo(d, from, from) = <<>>
  BY <1>2, InOrderEmpty DEF ToldUpTo, TicksClosedBy
<1>4. ASSUME NEW at \in Int, at > End(d, from)
      PROVE  ToldUpTo(d, from, at) = TicksBetween(d, from, DataLen(d))
  <2>1. End(d, from) \in Int
    <3>1. \A k \in from .. from - 1 : d[k].cmd # "STOP"
      BY <1>1
    <3> QED BY <3>1, EndIs, DemoTypes
  <2>2. \A k \in Closings(d, from) : k < at
    BY <1>1, <1>4, <2>1 DEF Closings, Closes
  <2>3. Before(Closings(d, from), at) = Closings(d, from)
    BY <2>2 DEF Before
  <2> QED BY <2>3 DEF ToldUpTo, TicksBetween, Closings, End
<1> QED BY <1>3, <1>4

(* What is told is always the beginning of the feed. *)
LEMMA ToldIsBeginning ==
  ASSUME NEW d \in Demos, NEW from \in 1 .. DataLen(d), NEW at \in Int
  PROVE  LET feed == TicksBetween(d, from, DataLen(d))
             told == ToldUpTo(d, from, at)
         IN  /\ Len(told) \in Nat /\ Len(told) <= Len(feed)
             /\ told = SubSeq(feed, 1, Len(told))
<1> DEFINE C    == Closings(d, from)
           S    == Before(C, at)
           last == DataLen(d)
           T    == Before(C, last)
           feed == TicksBetween(d, from, DataLen(d))
           told == ToldUpTo(d, from, at)
<1>1. from \in Int /\ Len(d) \in Nat /\ last = Len(d) + 1
  BY DemoTypes
<1>2. feed = ToldUpTo(d, from, last)
  <2>1. \A k \in from .. from - 1 : d[k].cmd # "STOP"
    BY <1>1
  <2>2. End(d, from) \in Int /\ End(d, from) <= Len(d)
    BY <1>1, <2>1, EndIs
  <2> HIDE DEF last, feed
  <2>3. last \in Int /\ last > End(d, from)
    BY <1>1, <2>2
  <2> QED BY <2>3, ToldAtEnds DEF feed
<1>3. /\ told \in Seq(TickType) /\ Len(told) = Cardinality(S)
      /\ \A i \in 1 .. Cardinality(S) : told[i] = ClosedTick(d, from, InOrder(S)[i])
  BY ToldUpToType
<1>4. /\ feed \in Seq(TickType) /\ Len(feed) = Cardinality(T)
      /\ \A i \in 1 .. Cardinality(T) : feed[i] = ClosedTick(d, from, InOrder(T)[i])
  <2>1. last \in Int
    BY <1>1
  <2> HIDE DEF last, feed
  <2> QED BY <1>2, <2>1, ToldUpToType
<1>5. T \subseteq Int /\ IsFiniteSet(T) /\ C \subseteq from .. Len(d)
  BY <1>1, ClosingsRange
<1>6. Below(S, T)
  <2>1. \A k \in C : k \in Int /\ k < last
    BY <1>1, <1>5
  <2>2. T = C
    BY <2>1 DEF Before
  <2>3. \A j \in S : j \in C /\ j < at
    BY DEF Before
  <2>4. \A k \in C \ S : ~(k < at)
    BY DEF Before
  <2> HIDE DEF C, S, T
  <2>5. \A j \in S, k \in T \ S : j < k
    BY <2>1, <2>2, <2>3, <2>4
  <2> QED BY <2>2, <2>3, <2>5 DEF Below
<1> HIDE DEF S, T, told, feed
<1>7. /\ Cardinality(S) \in Nat /\ Cardinality(T) \in Nat /\ Cardinality(S) <= Cardinality(T)
      /\ \A i \in 1 .. Cardinality(S) : InOrder(T)[i] = InOrder(S)[i]
  BY <1>5, <1>6, InOrderBelow
<1>8. \A i \in 1 .. Len(told) : told[i] = feed[i]
  BY <1>3, <1>4, <1>7
<1>9. told = SubSeq(feed, 1, Len(told))
  BY <1>3, <1>4, <1>7, <1>8, Beginning
<1> QED BY <1>3, <1>4, <1>7, <1>9 DEF told, feed

(* A position that splits no tick and has no STOP behind it. *)
Uncut(d, from, at) ==
  /\ at \in from .. DataLen(d)
  /\ (\A k \in from .. at - 1 : d[k].cmd # "STOP") \/ at = DataLen(d)
  /\ at \in from + 1 .. Len(d) => d[at].tick # d[at - 1].tick

LEMMA UncutTellsAll ==
  ASSUME NEW d \in Demos, NEW from \in 1 .. DataLen(d), NEW at \in Int, Uncut(d, from, at)
  PROVE  ToldUpTo(d, from, at) = TicksBetween(d, from, at)
<1>1. from \in Int /\ Len(d) \in Nat /\ DataLen(d) = Len(d) + 1
  BY DemoTypes
<1>2. at \in from .. DataLen(d)
  BY DEF Uncut
<1>3. End(d, from) \in Int /\ End(d, from) <= Len(d)
  <2>1. \A k \in from .. from - 1 : d[k].cmd # "STOP"
    BY <1>1
  <2> QED BY <1>1, <2>1, EndIs
<1>4. CASE at = DataLen(d)
  <2>1. at > End(d, from)
    BY <1>1, <1>3, <1>4
  <2> QED BY <1>4, <2>1, ToldAtEnds
<1>5. CASE at # DataLen(d)
  <2>1. /\ at \in from .. Len(d)
        /\ \A k \in from .. at - 1 : d[k].cmd # "STOP"
        /\ at > from => d[at].tick # d[at - 1].tick
    BY <1>1, <1>2, <1>5 DEF Uncut
  <2>2. at <= End(d, from)
    BY <1>1, <1>2, <2>1, EndIs
  <2>3. LastRead(d, from, at) = at - 1
    BY <1>2, <2>1, LastReadIs, <1>1
  <2>4. Before(Closings(d, from), at) = Closes(d, from, at - 1)
    <3>1. ASSUME NEW k \in from .. at - 1
          PROVE  /\ k \in from .. End(d, from) /\ k < at /\ k # End(d, from)
                 /\ k = at - 1 => d[k + 1].tick # d[k].tick
      <4>1. k \in from .. End(d, from) /\ k < at /\ k # End(d, from)
        BY <1>1, <1>3, <2>1, <2>2
      <4>2. k = at - 1 => k + 1 = at /\ at > from
        BY <1>1, <2>1
      <4> QED BY <2>1, <4>1, <4>2
    <3>2. ASSUME NEW k \in from .. End(d, from), k < at
          PROVE  k \in from .. at - 1
      BY <1>1, <1>3, <2>1, <3>2
    <3> QED BY <3>1, <3>2 DEF Before, Closings, Closes
  <2> QED BY <2>3, <2>4 DEF ToldUpTo, TicksBetween
<1> QED BY <1>4, <1>5
----------------------------------------------------------------------------
(* Where the stream begins.                                                *)

LEMMA StreamStartIs ==
  ASSUME NEW d \in Demos
  PROVE  \/ /\ StreamStart(d) = NoOffset
            /\ \A k \in Indexed(d) : d[k].cmd # "SYNC"
         \/ /\ StreamStart(d) \in 2 .. DataLen(d) /\ StreamStart(d) - 1 \in Indexed(d)
            /\ d[StreamStart(d) - 1].cmd = "SYNC"
            /\ \A k \in 1 .. StreamStart(d) - 2 : d[k].cmd \notin {"SYNC", "STOP"}
<1> DEFINE syncs == {k \in Indexed(d) : d[k].cmd = "SYNC"}
<1>1. /\ Len(d) \in Nat /\ DOMAIN d = 1 .. Len(d) /\ DataLen(d) = Len(d) + 1
      /\ Indexed(d) \subseteq 1 .. Len(d)
  BY DemoTypes DEF Indexed
<1>2. CASE syncs = {}
  BY <1>2 DEF StreamStart
<1>3. CASE syncs # {}
  <2>1. syncs \subseteq 1 .. Len(d)
    BY <1>1
  <2>2. syncs \subseteq Int /\ IsFiniteSet(syncs)
    <3>1. IsFiniteSet(1 .. Len(d)) /\ 1 .. Len(d) \subseteq Int
      BY <1>1, FS_Interval
    <3> HIDE DEF syncs
    <3> QED BY <2>1, <3>1, FS_Subset
  <2>3. PICK k \in syncs : k = (CHOOSE s \in syncs : \A j \in syncs : s <= j)
                           /\ \A j \in syncs : k <= j
    <3> HIDE DEF syncs
    <3>1. \E s \in syncs : \A j \in syncs : s <= j
      BY <1>3, <2>2, Extremes
    <3> QED BY <3>1
  <2>4. StreamStart(d) = k + 1
    BY <1>3, <2>3 DEF StreamStart
  <2>5. k \in 1 .. Len(d) /\ d[k].cmd = "SYNC" /\ k \in Indexed(d)
    BY <2>1
  <2>6. ASSUME NEW j \in 1 .. k - 1
        PROVE  d[j].cmd # "SYNC" /\ d[j].cmd # "STOP"
    <3>1. j \in Indexed(d) /\ d[j].cmd # "STOP"
      BY <1>1, <2>5 DEF Indexed
    <3>2. j \notin syncs
      BY <2>3, <2>5
    <3> QED BY <3>1, <3>2
  <2> QED BY <1>1, <2>4, <2>5, <2>6
<1> QED BY <1>2, <1>3

(* Where decoding finds the end of sign-on, the index finds it too. *)
LEMMA StreamStartAt ==
  ASSUME NEW d \in Demos, NEW at \in 1 .. DataLen(d),
         \A k \in 1 .. at - 1 : d[k].cmd \notin {"SYNC", "STOP"},
         at = DataLen(d) \/ d[at].cmd \in {"SYNC", "STOP"}
  PROVE  StreamStart(d) = IF at # DataLen(d) /\ d[at].cmd = "SYNC" THEN at + 1 ELSE NoOffset
<1>1. /\ Len(d) \in Nat /\ DOMAIN d = 1 .. Len(d) /\ DataLen(d) = Len(d) + 1 /\ at \in Int
      /\ Indexed(d) \subseteq 1 .. Len(d)
  BY DemoTypes DEF Indexed
<1>2. CASE at # DataLen(d) /\ d[at].cmd = "SYNC"
  <2>1. at \in Indexed(d)
    BY <1>1, <1>2 DEF Indexed
  <2>2. /\ StreamStart(d) \in 2 .. DataLen(d) /\ d[StreamStart(d) - 1].cmd = "SYNC"
        /\ \A k \in 1 .. StreamStart(d) - 2 : d[k].cmd \notin {"SYNC", "STOP"}
    BY <1>2, <2>1, StreamStartIs
  <2> DEFINE s == StreamStart(d)
  <2> HIDE DEF s
  <2>3. ~(s - 1 < at) /\ ~(at < s - 1)
    BY <1>1, <1>2, <2>2 DEF s
  <2>4. s = at + 1
    BY <1>1, <2>2, <2>3 DEF s
  <2> QED BY <1>2, <2>4 DEF s
<1>3. CASE ~(at # DataLen(d) /\ d[at].cmd = "SYNC")
  <2>1. ASSUME NEW k \in Indexed(d)
        PROVE  k \in 1 .. at - 1
    <3>1. k \in 1 .. Len(d) /\ \A j \in 1 .. k : d[j].cmd # "STOP"
      BY <1>1 DEF Indexed
    <3> QED BY <1>1, <1>3, <3>1
  <2>2. \A k \in Indexed(d) : d[k].cmd # "SYNC"
    BY <2>1
  <2>3. StreamStart(d) = NoOffset
    BY <2>2, StreamStartIs
  <2> QED BY <1>3, <2>3
<1> QED BY <1>2, <1>3

(* The full packets of a stream a seek to the target may restart at. *)
FullPacketsTo(d, target) == {k \in Streamed(d) : d[k].cmd = "FULL" /\ d[k].tick <= target}

(* The packet a seek restarts at is the last of them, behind the sign-on. *)
LEMMA FullPacketIs ==
  ASSUME NEW d \in Demos, NEW target
  PROVE  \/ FullPacketAtOrBefore(d, target) = NoOffset /\ FullPacketsTo(d, target) = {}
         \/ /\ StreamStart(d) # NoOffset
            /\ FullPacketAtOrBefore(d, target) \in StreamStart(d) .. Len(d)
            /\ FullPacketAtOrBefore(d, target) \in 2 .. DataLen(d)
            /\ FullPacketAtOrBefore(d, target) \in FullPacketsTo(d, target)
            /\ \A j \in FullPacketsTo(d, target) : j <= FullPacketAtOrBefore(d, target)
<1> DEFINE at == {k \in Streamed(d) : d[k].cmd = "FULL" /\ d[k].tick <= target}
<1>1. Len(d) \in Nat /\ DataLen(d) = Len(d) + 1 /\ Indexed(d) \subseteq 1 .. Len(d)
  BY DemoTypes DEF Indexed
<1>2. CASE at = {}
  BY <1>2 DEF FullPacketAtOrBefore, FullPacketsTo
<1>3. CASE at # {}
  <2>1. StreamStart(d) # NoOffset /\ at \subseteq 1 .. Len(d) /\ \A k \in at : k >= StreamStart(d)
    BY <1>1, <1>3 DEF Streamed
  <2>2. at \subseteq Int /\ IsFiniteSet(at)
    <3>1. IsFiniteSet(1 .. Len(d)) /\ 1 .. Len(d) \subseteq Int
      BY <1>1, FS_Interval
    <3> HIDE DEF at
    <3> QED BY <2>1, <3>1, FS_Subset
  <2>3. PICK k \in at : /\ k = (CHOOSE s \in at : \A j \in at : j <= s)
                       /\ \A j \in at : j <= k
    <3> HIDE DEF at
    <3>1. \E s \in at : \A j \in at : j <= s
      BY <1>3, <2>2, Extremes
    <3> QED BY <3>1
  <2>4. FullPacketAtOrBefore(d, target) = k
    BY <1>3, <2>3 DEF FullPacketAtOrBefore
  <2>5. StreamStart(d) \in 2 .. DataLen(d)
    BY <2>1, StreamStartIs
  <2>6. k \in StreamStart(d) .. Len(d) /\ k \in 2 .. DataLen(d)
    BY <1>1, <2>1, <2>5
  <2>7. k \in FullPacketsTo(d, target) /\ \A j \in FullPacketsTo(d, target) : j <= k
    BY <2>3 DEF FullPacketsTo
  <2> QED BY <2>1, <2>4, <2>6, <2>7
<1> QED BY <1>2, <1>3

LEMMA SignonType ==
  ASSUME demo \in Demos
  PROVE  SignonCommands \in Seq(Int)
<1> DEFINE s == StreamStart(demo)
<1>1. s = 0 \/ s \in 2 .. DataLen(demo)
  BY StreamStartIs DEF NoOffset
<1>2. DataLen(demo) \in Int
  BY DemoTypes
<1>3. SignonCommands = [k \in 1 .. s - 2 |-> k]
  BY DEF SignonCommands
<1> HIDE DEF s
<1>4. CASE s = 0
  <2>1. 1 .. s - 2 = 1 .. 0
    BY <1>4
  <2>2. [k \in 1 .. 0 |-> k] \in Seq(Int)
    OBVIOUS
  <2>3. SignonCommands = [k \in 1 .. 0 |-> k]
    BY <1>3, <2>1
  <2> QED BY <2>2, <2>3
<1>5. CASE s \in 2 .. DataLen(demo)
  <2>1. s - 2 \in Nat
    BY <1>2, <1>5
  <2> QED BY <1>3, <2>1
<1> QED BY <1>1, <1>4, <1>5


SavedType == [applied : Seq(Int), tick : Int, updated : Seq(Int), next_offset : Nat,
              delivered : Seq(CallbackType), chain : Nat]

TypeInv ==
  /\ demo \in Demos /\ saved \in SavedType
  /\ mode # "segments" =>
       /\ cursor \in Nat /\ started \in Nat /\ tick \in Int
       /\ end_tick \in Int \cup {NoTick} /\ last_tick \in Int \cup {NoTick}
       /\ applied \in Seq(Int) /\ changed \in Seq(Int) /\ updated \in Seq(Int)
       /\ delivered \in Seq(CallbackType)

(* Where the operation of a session, or a chain, begins. *)
ChainStart == StartOr(StreamStart(demo), DataLen(demo))
Origin     == StartOr(FeedStart, DataLen(demo))

Settled(from, at, calls) ==
  Uncut(demo, from, at) /\ ToldBy(calls) = ToldUpTo(demo, from, at)

AppliedUpTo(from, at, log) ==
  StreamStart(demo) # NoOffset => log = SignonCommands \o InOrder(Reads(demo, from, at))

LeakOnce(calls) ==
  \A i \in DOMAIN calls :
    \/ calls[i].updated = calls[i].changed
    \/ i = 1 /\ calls[i].updated = SignonCommands \o calls[i].changed

Signing ==
  /\ cursor \in 1 .. DataLen(demo)
  /\ \A k \in 1 .. cursor - 1 : demo[k].cmd \notin {"SYNC", "STOP"}
  /\ applied = [k \in 1 .. cursor - 1 |-> k] /\ updated = applied

Seed ==
  /\ saved.next_offset = StreamStart(demo)
  /\ StreamStart(demo) # NoOffset =>
       saved.applied = SignonCommands /\ saved.updated = SignonCommands

Checkpoint ==
  /\ Settled(ChainStart, saved.next_offset, saved.delivered)
  /\ AppliedUpTo(ChainStart, saved.next_offset, saved.applied)
  /\ saved.updated = <<>>
  /\ LeakOnce(saved.delivered)
  /\ StreamStart(demo) = NoOffset => saved.delivered = <<>>

Stored ==
  /\ saved.chain = 0 => saved.delivered = <<>>
  /\ phase \in {"idle", "replay", "done"} =>
       IF saved.chain = 0 THEN Seed ELSE mode = "chain" /\ Checkpoint

Control ==
  /\ phase \in {"signon", "idle", "replay", "done", "failed"}
  /\ mode \in {"none", "run", "seek", "segments", "chain"}
  /\ phase = "signon" => mode = "none"
  /\ mode # "chain" => saved.chain = 0
  /\ mode = "none" => /\ phase \in {"signon", "idle", "failed"}
                      /\ delivered = <<>> /\ started = NoOffset
  /\ mode \in {"run", "seek"} => phase \in {"replay", "done", "failed"}
  /\ mode = "chain" => phase \in {"idle", "replay", "failed"}
  /\ mode = "run" => started = StreamStart(demo)
  /\ mode = "seek" => (started = NoOffset <=> StreamStart(demo) = NoOffset)

(* The tick in progress: what is told ends before it. *)
TickOpen ==
  /\ cursor \in Origin + 1 .. DataLen(demo)
  /\ last_tick = demo[cursor - 1].tick
  /\ end_tick # NoTick => last_tick <= end_tick
  /\ \A k \in Origin .. cursor - 1 : demo[k].cmd # "STOP"
  /\ changed = InOrder(RunOf(demo, Origin, cursor - 1))
  /\ ToldBy(delivered) = ToldUpTo(demo, Origin, cursor - 1)

Running ==
  /\ Origin \in 1 .. DataLen(demo)
  /\ AppliedUpTo(Origin, cursor, applied)
  /\ \/ updated = changed
     \/ StreamStart(demo) = NoOffset
     \/ delivered = <<>> /\ updated = SignonCommands \o changed
  /\ IF last_tick = NoTick THEN Settled(Origin, cursor, delivered) /\ changed = <<>>
                           ELSE TickOpen

Finished == Settled(Origin, cursor, delivered) /\ AppliedUpTo(Origin, cursor, applied)

Session ==
  /\ LeakOnce(delivered)
  /\ StreamStart(demo) = NoOffset => delivered = <<>>
  /\ phase = "signon" => Signing
  /\ phase = "replay" => Running
  /\ phase = "done" /\ started # NoOffset => Finished
  /\ phase = "idle" /\ mode = "chain" => saved.chain > 0 /\ delivered = saved.delivered

IInv ==
  /\ TypeInv /\ Control /\ Stored
  /\ mode # "segments" => Session

LEMMA InitIInv == Init => IInv
<1> SUFFICES ASSUME Init PROVE IInv
  OBVIOUS
<1> USE DEF Init
<1>1. demo \in Demos /\ Len(demo) \in Nat /\ DataLen(demo) = Len(demo) + 1
  BY DemoTypes
<1>2. TypeInv
  BY <1>1 DEF TypeInv, SavedType, NoOffset
<1>3. Control /\ Stored
  BY DEF Control, Stored
<1>4. Signing
  BY <1>1 DEF Signing
<1>5. Session
  BY <1>4 DEF Session, LeakOnce
<1> QED BY <1>2, <1>3, <1>5 DEF IInv
(* A segment is a session of its own, which leaves the seed alone. *)
LEMMA SegmentsStep ==
  ASSUME IInv, mode = "segments", [Next]_vars
  PROVE  mode' = "segments" /\ UNCHANGED <<demo, saved>> /\ IInv'
<1>1. /\ TypeInv /\ Control /\ Stored /\ saved.chain = 0
      /\ phase \in {"idle", "replay", "done", "failed"}
  BY DEF IInv, Control
<1>2. /\ mode' = "segments" /\ UNCHANGED <<demo, saved>>
      /\ \/ phase' = "failed"
         \/ phase \in {"idle", "replay", "done"} /\ phase' \in {"idle", "replay", "done"}
         \/ phase' = phase
  <2>1. CASE SignonStep \/ FailSignon
    <3>1. phase = "signon"
      BY <2>1 DEF SignonStep, SignonCommand, EndSignon, RejectSignon, FailSignon
    <3> QED BY <1>1, <3>1 DEF Control
  <2>2. CASE DecodeSegment
    BY <1>1, <2>2 DEF DecodeSegment, ReplayOrReturn
  <2>3. CASE ReplayCommand
    BY <1>1, <2>3 DEF ReplayCommand
  <2>4. CASE ReplayStop \/ ReplayEnd
    BY <1>1, <2>4 DEF ReplayStop, ReplayEnd, Return
  <2>5. CASE FailReplay
    BY <1>1, <2>5 DEF FailReplay, Fails
  <2>6. CASE UNCHANGED vars
    BY <1>1, <2>6 DEF vars
  <2>7. CASE /\ ~(SignonStep \/ FailSignon) /\ ~DecodeSegment /\ ~ReplayCommand
             /\ ~(ReplayStop \/ ReplayEnd) /\ ~FailReplay /\ ~UNCHANGED vars
    <3>1. \/ RunToEnd \/ (\E t \in Targets : ParseToTick(t))
          \/ (\E n \in Budgets : PlanSegments(n)) \/ (\E t \in Targets : CheckpointThrough(t))
          \/ (\E t \in Targets : ReplayThrough(t))
      BY <2>7 DEF Next, ReplayStep
    <3> QED BY <1>1, <3>1 DEF RunToEnd, ParseToTick, PlanSegments, CheckpointThrough, ReplayThrough
  <2> QED BY <2>1, <2>2, <2>3, <2>4, <2>5, <2>6, <2>7
<1>3. TypeInv' /\ Control'
  BY <1>1, <1>2 DEF TypeInv, Control
<1>4. Stored'
  BY <1>1, <1>2 DEF Stored, Seed, SignonCommands
<1> QED BY <1>2, <1>3, <1>4 DEF IInv

----------------------------------------------------------------------------
(* Sign-on.                                                                *)

LEMMA SignonStepInv ==
  ASSUME IInv, SignonStep \/ FailSignon
  PROVE  IInv' /\ mode = "none" /\ mode' = "none" /\ demo' = demo /\ started' = started
<1>1. /\ phase = "signon" /\ TypeInv /\ Control /\ Stored
      /\ mode = "none" /\ saved.chain = 0 /\ saved.delivered = <<>>
      /\ delivered = <<>> /\ started = NoOffset /\ Signing
  BY DEF SignonStep, SignonCommand, EndSignon, RejectSignon, FailSignon, IInv, Control, Stored,
         Session
<1>2. /\ Len(demo) \in Nat /\ DataLen(demo) = Len(demo) + 1 /\ demo \in Demos
      /\ cursor \in 1 .. DataLen(demo) /\ cursor \in Int
  BY <1>1, DemoTypes DEF TypeInv, Signing
<1>3. CASE SignonCommand
  <2>1. /\ cursor \in 1 .. Len(demo) /\ demo[cursor].cmd \notin {"SYNC", "STOP"}
    BY <1>2, <1>3 DEF SignonCommand, SignonOver, AtEnd, AtSync, AtStop, Header
  <2>2. /\ applied' = Append(applied, cursor) /\ updated' = Append(updated, cursor)
        /\ changed' = Append(changed, cursor) /\ cursor' = cursor + 1
        /\ UNCHANGED <<demo, phase, mode, end_tick, last_tick, started, tick, delivered, saved>>
    BY <1>3 DEF SignonCommand
  <2>3. Append(applied, cursor) = [k \in 1 .. cursor |-> k]
    <3> DEFINE longer == [k \in 1 .. cursor |-> k]
    <3>1. applied = [k \in 1 .. cursor - 1 |-> k] /\ cursor - 1 \in Nat /\ cursor \in Nat
      BY <1>1, <1>2 DEF Signing
    <3>2. applied \in Seq(Int) /\ Len(applied) = cursor - 1 /\ longer \in Seq(Int)
          /\ Len(longer) = cursor
      BY <3>1
    <3>3. Len(longer) = Len(applied) + 1
      BY <3>1, <3>2
    <3>4. \A i \in 1 .. Len(applied) : longer[i] = applied[i]
      BY <3>1, <3>2
    <3>5. longer[Len(applied) + 1] = cursor
      BY <3>1, <3>2
    <3> HIDE DEF longer
    <3>6. longer = Append(applied, cursor)
      BY <3>2, <3>3, <3>4, <3>5, OneMore
    <3> QED BY <3>6 DEF longer
  <2>4. Signing'
    BY <1>1, <1>2, <2>1, <2>2, <2>3 DEF Signing
  <2>5. TypeInv' /\ Control' /\ Stored'
    BY <1>1, <1>2, <2>2 DEF TypeInv, Control, Stored
  <2>6. Session'
    BY <1>1, <2>2, <2>4 DEF Session, LeakOnce
  <2> QED BY <1>1, <2>2, <2>5, <2>6 DEF IInv
<1>4. CASE EndSignon
  <2>1. /\ saved' = [saved EXCEPT !.applied = applied, !.updated = updated,
                                  !.next_offset = SyncOffset]
        /\ changed' = <<>> /\ phase' = "idle" /\ SyncOffset = StreamStart(demo)
        /\ UNCHANGED <<demo, mode, cursor, end_tick, last_tick, started, tick, applied, updated,
                       delivered>>
    BY <1>4 DEF EndSignon, replay
  <2>2. SyncOffset \in Nat /\ (SyncOffset # NoOffset => SyncOffset = cursor + 1)
    BY <1>2 DEF SyncOffset, NoOffset
  <2>3. SyncOffset # NoOffset => applied = SignonCommands /\ updated = SignonCommands
    BY <1>1, <1>2, <2>1, <2>2 DEF Signing, SignonCommands
  <2>4. /\ saved' \in SavedType /\ saved'.applied = applied /\ saved'.updated = updated
        /\ saved'.next_offset = SyncOffset /\ saved'.delivered = <<>> /\ saved'.chain = 0
    BY <1>1, <2>1, <2>2 DEF TypeInv, SavedType
  <2>5. Seed'
    BY <2>1, <2>3, <2>4 DEF Seed, SignonCommands
  <2>6. TypeInv' /\ Control' /\ Stored'
    BY <1>1, <2>1, <2>4, <2>5 DEF TypeInv, Control, Stored
  <2>7. Session'
    BY <1>1, <2>1 DEF Session, LeakOnce
  <2> QED BY <1>1, <2>1, <2>6, <2>7 DEF IInv
<1>5. CASE RejectSignon \/ FailSignon
  <2>1. /\ phase' = "failed"
        /\ UNCHANGED <<demo, mode, cursor, end_tick, last_tick, started, tick, applied, changed,
                       updated, delivered, saved>>
    BY <1>5 DEF RejectSignon, FailSignon, Fails, replay, state
  <2>2. TypeInv' /\ Control' /\ Stored'
    BY <1>1, <2>1 DEF TypeInv, Control, Stored
  <2>3. Session'
    BY <1>1, <2>1 DEF Session, LeakOnce
  <2> QED BY <1>1, <2>1, <2>2, <2>3 DEF IInv
<1> QED BY <1>3, <1>4, <1>5 DEF SignonStep
----------------------------------------------------------------------------
(* A replay begins, from the seed or from a checkpoint.                    *)

LEMMA ConcatNothing ==
  ASSUME demo \in Demos
  PROVE  SignonCommands \o <<>> = SignonCommands
BY SignonType, ConcatEmptySeq

LEMMA SignonAppend ==
  ASSUME demo \in Demos, NEW s \in Seq(Int), NEW e \in Int
  PROVE  Append(SignonCommands \o s, e) = SignonCommands \o Append(s, e)
<1>1. SignonCommands \in Seq(Int)
  BY SignonType
<1> DEFINE g == SignonCommands
<1>2. g \in Seq(Int)
  BY <1>1
<1> HIDE DEF g
<1>3. Append(g \o s, e) = (g \o s) \o <<e>> /\ Append(s, e) = s \o <<e>> /\ <<e>> \in Seq(Int)
  BY <1>2, ConcatProperties, AppendIsConcat
<1>4. Append(g \o s, e) = g \o Append(s, e)
  BY <1>2, <1>3, ConcatAssociative
<1> QED BY <1>4 DEF g

LEMMA StartRange ==
  ASSUME demo \in Demos
  PROVE  /\ StreamStart(demo) = NoOffset \/ StreamStart(demo) \in 2 .. DataLen(demo)
         /\ ChainStart \in 1 .. DataLen(demo)
         /\ DataLen(demo) \in Nat /\ DataLen(demo) = Len(demo) + 1
         /\ SignonCommands \in Seq(Int)
<1>1. Len(demo) \in Nat /\ DataLen(demo) = Len(demo) + 1
  BY DemoTypes
<1>2. StreamStart(demo) = NoOffset \/ StreamStart(demo) \in 2 .. DataLen(demo)
  BY StreamStartIs
<1>3. ChainStart \in 1 .. DataLen(demo)
  BY <1>1, <1>2 DEF ChainStart, StartOr
<1> QED BY <1>1, <1>2, <1>3, SignonType

(* Nothing is told and nothing applied where a feed begins. *)
LEMMA StartSettled ==
  ASSUME demo \in Demos, NEW from \in 1 .. DataLen(demo)
  PROVE  Settled(from, from, <<>>) /\ AppliedUpTo(from, from, SignonCommands)
<1>1. from \in Int
  BY StartRange
<1>2. Uncut(demo, from, from)
  BY <1>1, StartRange DEF Uncut
<1>3. ToldBy(<<>>) = ToldUpTo(demo, from, from)
  BY ToldNothing, ToldAtEnds
<1>4. SignonCommands = SignonCommands \o InOrder(Reads(demo, from, from))
  BY <1>1, ReadsNone, ConcatNothing
<1> QED BY <1>2, <1>3, <1>4 DEF Settled, AppliedUpTo

(* A replay that begins with the seed. *)
LEMMA FreshIInv ==
  ASSUME IInv, phase = "idle", mode = "none", mode' \in {"run", "seek", "chain"},
         Restored(saved), UNCHANGED <<demo, saved>>,
         NEW start \in 1 .. DataLen(demo), NEW end \in Int \cup {NoTick},
         phase' = "replay", Replay(start, end), start = Origin',
         mode' = "run" => start = StreamStart(demo),
         mode' = "seek" => StreamStart(demo) # NoOffset
  PROVE  IInv'
<1>1. /\ TypeInv /\ Control /\ Stored /\ demo \in Demos /\ saved \in SavedType
      /\ saved.chain = 0 /\ saved.delivered = <<>> /\ Seed
  BY DEF IInv, TypeInv, Control, Stored
<1>2. /\ saved.applied \in Seq(Int) /\ saved.updated \in Seq(Int) /\ saved.tick \in Int
  BY <1>1 DEF SavedType
<1>3. /\ applied' = saved.applied /\ tick' = saved.tick /\ updated' = saved.updated
      /\ changed' = <<>> /\ delivered' = <<>>
      /\ cursor' = start /\ started' = start /\ end_tick' = end /\ last_tick' = NoTick
      /\ start \in Nat /\ start >= 1 /\ demo' = demo /\ saved' = saved
  BY <1>1, StartRange DEF Restored, Replay
<1>4. TypeInv'
  BY <1>1, <1>2, <1>3 DEF TypeInv
<1>5. Control'
  BY <1>1, <1>3 DEF Control, NoOffset
<1>6. Stored'
  BY <1>1, <1>3 DEF Stored, Seed, SignonCommands
<1>7. Settled(start, start, <<>>) /\ AppliedUpTo(start, start, SignonCommands)
  BY <1>1, StartSettled
<1>8. StreamStart(demo) # NoOffset => applied' = SignonCommands /\ updated' = SignonCommands
  BY <1>1, <1>3 DEF Seed
<1>9. Running'
  <2>1. (Settled(Origin, cursor, delivered))'
    BY <1>3, <1>7 DEF Settled
  <2>2. (AppliedUpTo(Origin, cursor, applied))'
    BY <1>3, <1>7, <1>8 DEF AppliedUpTo, SignonCommands
  <2>3. StreamStart(demo) # NoOffset => updated' = SignonCommands' \o changed'
    BY <1>1, <1>3, <1>8, ConcatNothing DEF SignonCommands
  <2> QED BY <1>3, <2>1, <2>2, <2>3 DEF Running
<1>10. Session'
  BY <1>3, <1>9 DEF Session, LeakOnce
<1> QED BY <1>4, <1>5, <1>6, <1>10 DEF IInv

(* A replay that begins with a checkpoint, or again after a failure.       *)
LEMMA RestoredIInv ==
  ASSUME IInv, mode = "chain", mode' = "chain", saved.chain > 0, phase \in {"idle", "replay"},
         Restored(saved), UNCHANGED <<demo, saved>>,
         \/ /\ phase' = "replay"
            /\ \E target \in Int : Replay(saved.next_offset, target)
         \/ phase' = "idle" /\ UNCHANGED <<cursor, end_tick, last_tick, started>>
  PROVE  IInv'
<1>1. /\ TypeInv /\ Control /\ Stored /\ demo \in Demos /\ saved \in SavedType
      /\ Checkpoint
  BY DEF IInv, TypeInv, Control, Stored, SavedType
<1>2. /\ saved.applied \in Seq(Int) /\ saved.updated \in Seq(Int) /\ saved.tick \in Int
      /\ saved.delivered \in Seq(CallbackType) /\ saved.next_offset \in Nat
  BY <1>1 DEF SavedType
<1>3. /\ applied' = saved.applied /\ tick' = saved.tick /\ updated' = <<>>
      /\ changed' = <<>> /\ delivered' = saved.delivered
      /\ demo' = demo /\ saved' = saved
  BY <1>1 DEF Restored, Checkpoint
<1>4. TypeInv'
  BY <1>1, <1>2, <1>3 DEF TypeInv, Replay
<1>5. Control'
  BY <1>1, <1>3 DEF Control
<1>6. Stored'
  <2>1. ChainStart' = ChainStart /\ SignonCommands' = SignonCommands
    BY <1>3 DEF ChainStart, SignonCommands
  <2>2. (Settled(ChainStart, saved.next_offset, saved.delivered))'
    BY <1>1, <1>3, <2>1 DEF Checkpoint, Settled
  <2>3. (AppliedUpTo(ChainStart, saved.next_offset, saved.applied))'
    BY <1>1, <1>3, <2>1 DEF Checkpoint, AppliedUpTo
  <2>4. (LeakOnce(saved.delivered))'
    BY <1>1, <1>3, <2>1 DEF Checkpoint, LeakOnce
  <2>5. Checkpoint'
    BY <1>1, <1>3, <2>2, <2>3, <2>4 DEF Checkpoint
  <2> QED BY <1>1, <1>3, <2>5 DEF Stored
<1>7. LeakOnce(delivered)' /\ (StreamStart(demo) = NoOffset => delivered = <<>>)'
  BY <1>1, <1>3 DEF Checkpoint, LeakOnce, SignonCommands
<1>8. CASE phase' = "replay"
  <2>1. cursor' = saved.next_offset /\ last_tick' = NoTick
    BY <1>8 DEF Replay
  <2>2. Origin' = ChainStart
    BY <1>3 DEF Origin, ChainStart, FeedStart
  <2>3. (Settled(Origin, cursor, delivered))'
    BY <1>1, <1>3, <2>1, <2>2 DEF Settled, Checkpoint
  <2>4. (AppliedUpTo(Origin, cursor, applied))'
    BY <1>1, <1>3, <2>1, <2>2 DEF AppliedUpTo, Checkpoint, SignonCommands
  <2>5. Origin' \in 1 .. DataLen(demo')
    BY <1>1, <1>3, <2>2, StartRange
  <2>6. Running'
    BY <1>3, <2>1, <2>3, <2>4, <2>5 DEF Running
  <2> QED BY <1>4, <1>5, <1>6, <1>7, <1>8, <2>6 DEF IInv, Session
<1>9. CASE phase' = "idle"
  BY <1>3, <1>4, <1>5, <1>6, <1>7, <1>9 DEF IInv, Session
<1> QED BY <1>8, <1>9
LEMMA StartIInv ==
  ASSUME IInv,
         \/ RunToEnd \/ (\E t \in Targets : ParseToTick(t))
         \/ (\E n \in Budgets : PlanSegments(n)) \/ (\E t \in Targets : CheckpointThrough(t))
  PROVE  IInv' /\ mode = "none" /\ delivered = <<>> /\ mode' # "none"
               /\ (mode' = "segments" \/ delivered' = <<>>) /\ saved' = saved /\ demo' = demo
<1>1. /\ TypeInv /\ Control /\ Stored /\ demo \in Demos /\ phase = "idle" /\ mode = "none"
      /\ saved.chain = 0 /\ saved.delivered = <<>> /\ Seed /\ Session
      /\ delivered = <<>> /\ started = NoOffset /\ saved \in SavedType
  BY DEF IInv, TypeInv, Control, Stored, RunToEnd, ParseToTick, PlanSegments, CheckpointThrough
<1>2. \A t \in Targets : t \in Int
  BY TargetsAssumption, TickRangeAssumption
<1>3. ASSUME phase' = "done", UNCHANGED replay, Restored(saved), mode' \in {"run", "seek"},
             UNCHANGED <<demo, saved>>, StreamStart(demo) = NoOffset
      PROVE  IInv'
  <2>1. /\ delivered' = <<>> /\ applied' = saved.applied /\ updated' = saved.updated
        /\ changed' = <<>> /\ tick' = saved.tick
        /\ UNCHANGED <<cursor, end_tick, last_tick, started>>
    BY <1>1, <1>3 DEF Restored, replay
  <2>2. TypeInv'
    BY <1>1, <1>3, <2>1 DEF TypeInv, SavedType
  <2>3. Control' /\ Stored'
    BY <1>1, <1>3, <2>1 DEF Control, Stored, Seed, SignonCommands
  <2>4. Session'
    BY <1>1, <1>3, <2>1 DEF Session, LeakOnce
  <2> QED BY <2>2, <2>3, <2>4 DEF IInv
<1>4. CASE RunToEnd
  <2>1. /\ mode' = "run" /\ Restored(saved) /\ UNCHANGED <<demo, saved>>
        /\ ReplayOrReturn(StreamStart(demo), NoTick)
    BY <1>4 DEF RunToEnd
  <2>2. CASE StreamStart(demo) = NoOffset
    <3>1. phase' = "done" /\ UNCHANGED replay
      BY <2>1, <2>2 DEF ReplayOrReturn
    <3>2. IInv'
      BY <1>3, <2>1, <2>2, <3>1
    <3> QED BY <1>1, <2>1, <3>2 DEF Restored
  <2>3. CASE StreamStart(demo) # NoOffset
    <3>1. phase' = "replay" /\ Replay(StreamStart(demo), NoTick)
      BY <2>1, <2>3 DEF ReplayOrReturn
    <3>2. StreamStart(demo) \in 1 .. DataLen(demo)
      BY <1>1, <2>3, StartRange
    <3>3. StreamStart(demo) = Origin'
      BY <2>1, <2>3 DEF Origin, FeedStart, StartOr
    <3>4. IInv'
      BY <1>1, <2>1, <3>1, <3>2, <3>3, FreshIInv
    <3> QED BY <1>1, <2>1, <3>4 DEF Restored
  <2> QED BY <2>2, <2>3
<1>5. CASE \E t \in Targets : ParseToTick(t)
  <2>1. PICK t \in Targets : ParseToTick(t)
    BY <1>5
  <2> DEFINE start == StartOr(FullPacketAtOrBefore(demo, t), StreamStart(demo))
  <2>2. /\ mode' = "seek" /\ Restored(saved) /\ UNCHANGED <<demo, saved>>
        /\ ReplayOrReturn(start, t)
    BY <2>1 DEF ParseToTick
  <2>3. \/ start = NoOffset /\ StreamStart(demo) = NoOffset
        \/ start # NoOffset /\ StreamStart(demo) # NoOffset /\ start \in 1 .. DataLen(demo)
    BY <1>1, StartRange, FullPacketIs DEF StartOr
  <2> HIDE DEF start
  <2>4. CASE start = NoOffset
    <3>1. phase' = "done" /\ UNCHANGED replay
      BY <2>2, <2>4 DEF ReplayOrReturn
    <3>2. IInv'
      BY <1>3, <2>2, <2>3, <2>4, <3>1
    <3> QED BY <1>1, <2>2, <3>2 DEF Restored
  <2>5. CASE start # NoOffset
    <3>1. phase' = "replay" /\ Replay(start, t)
      BY <2>2, <2>5 DEF ReplayOrReturn
    <3>2. start = Origin'
      BY <2>2, <2>5, <3>1 DEF Origin, FeedStart, StartOr, Replay
    <3>3. start \in 1 .. DataLen(demo) /\ StreamStart(demo) # NoOffset /\ t \in Int \cup {NoTick}
      BY <1>2, <2>3, <2>5
    <3>4. IInv'
      BY <1>1, <2>2, <3>1, <3>2, <3>3, FreshIInv
    <3> QED BY <1>1, <2>2, <3>4 DEF Restored
  <2> QED BY <2>4, <2>5
<1>6. CASE \E n \in Budgets : PlanSegments(n)
  <2>1. mode' = "segments" /\ UNCHANGED <<demo, phase, saved>>
    BY <1>6 DEF PlanSegments
  <2>2. TypeInv' /\ Control' /\ Stored'
    BY <1>1, <2>1 DEF TypeInv, Control, Stored, Seed, SignonCommands
  <2> QED BY <1>1, <2>1, <2>2 DEF IInv
<1>7. CASE \E t \in Targets : CheckpointThrough(t)
  <2>1. PICK t \in Targets : CheckpointThrough(t)
    BY <1>7
  <2>2. /\ mode' = "chain" /\ Restored(saved) /\ UNCHANGED <<demo, saved>> /\ phase' = "replay"
        /\ Replay(ChainStart, t)
    BY <2>1 DEF CheckpointThrough, ChainStart
  <2>3. ChainStart = Origin'
    BY <2>2 DEF Origin, FeedStart, ChainStart
  <2>4. ChainStart \in 1 .. DataLen(demo) /\ t \in Int \cup {NoTick}
    BY <1>1, <1>2, StartRange
  <2>5. IInv'
    BY <1>1, <2>2, <2>3, <2>4, FreshIInv
  <2> QED BY <1>1, <2>2, <2>5 DEF Restored
<1> QED BY <1>4, <1>5, <1>6, <1>7

LEMMA AgainIInv ==
  ASSUME IInv, (\E t \in Targets : ReplayThrough(t)) \/ FailReplay
  PROVE  /\ IInv' /\ mode' = mode /\ demo' = demo /\ saved' = saved
         /\ \/ delivered' = delivered /\ (mode # "seek" \/ started' = started)
            \/ mode = "chain" /\ delivered' = saved.delivered
<1>1. /\ TypeInv /\ Control /\ Stored /\ demo \in Demos /\ saved \in SavedType
  BY DEF IInv, TypeInv
<1>2. \A t \in Targets : t \in Int
  BY TargetsAssumption, TickRangeAssumption
<1>3. CASE \E t \in Targets : ReplayThrough(t)
  <2>1. PICK t \in Targets : ReplayThrough(t)
    BY <1>3
  <2>2. /\ phase = "idle" /\ mode = "chain" /\ mode' = mode /\ saved.chain > 0
        /\ Restored(saved) /\ phase' = "replay" /\ Replay(saved.next_offset, t)
        /\ UNCHANGED <<demo, saved>>
    BY <2>1 DEF ReplayThrough
  <2>3. IInv'
    BY <1>2, <2>2, RestoredIInv
  <2> QED BY <2>2, <2>3 DEF Restored
<1>4. CASE FailReplay /\ mode = "chain" /\ saved.chain > 0
  <2>1. /\ phase = "replay" /\ phase' = "idle" /\ Restored(saved)
        /\ UNCHANGED <<demo, mode, saved, cursor, end_tick, last_tick, started>>
    BY <1>4 DEF FailReplay, replay
  <2>2. IInv'
    BY <1>4, <2>1, RestoredIInv
  <2> QED BY <1>4, <2>1, <2>2 DEF Restored
<1>5. CASE FailReplay /\ ~(mode = "chain" /\ saved.chain > 0)
  <2>1. /\ phase = "replay" /\ phase' = "failed"
        /\ UNCHANGED <<demo, mode, cursor, end_tick, last_tick, started, tick, applied, changed,
                       updated, delivered, saved>>
    BY <1>5 DEF FailReplay, Fails, replay, state
  <2>2. TypeInv' /\ Control' /\ Stored'
    BY <1>1, <2>1 DEF TypeInv, Control, Stored
  <2>3. mode # "segments" => Session'
    BY <2>1 DEF IInv, Session, LeakOnce, SignonCommands
  <2> QED BY <2>1, <2>2, <2>3 DEF IInv
<1> QED BY <1>3, <1>4, <1>5
----------------------------------------------------------------------------
(* The replay loop.                                                        *)

(* The callback of the tick in progress tells what closes there. *)
LEMMA CallbackTells ==
  ASSUME demo \in Demos, delivered \in Seq(CallbackType), changed \in Seq(Int),
         updated \in Seq(Int), Origin \in 1 .. DataLen(demo), TickOpen,
         NEW told \in BOOLEAN,
         cursor - 1 <= End(demo, Origin),
         told <=> last_tick >= 0 /\ (cursor - 1 = End(demo, Origin)
                                       \/ demo[cursor].tick # demo[cursor - 1].tick)
  PROVE  /\ Callback(last_tick) \in CallbackType
         /\ ToldBy(IF told THEN Append(delivered, Callback(last_tick)) ELSE delivered)
              = ToldUpTo(demo, Origin, cursor)
<1> DEFINE at == cursor - 1
<1>1. /\ at \in Origin .. Len(demo) /\ at + 1 = cursor /\ at \in Int
      /\ last_tick = demo[at].tick /\ last_tick \in Int
      /\ changed = InOrder(RunOf(demo, Origin, at))
      /\ ToldBy(delivered) = ToldUpTo(demo, Origin, at)
  <2>1. /\ at \in Origin .. Len(demo) /\ at + 1 = cursor /\ at \in Int /\ at \in 1 .. Len(demo)
    BY StartRange DEF TickOpen
  <2> QED BY <2>1, DemoTypes DEF TickOpen
<1>2. Callback(last_tick) \in CallbackType
  BY <1>1 DEF Callback, CallbackType
<1>3. Tells(Callback(last_tick)) = ClosedTick(demo, Origin, at)
  BY <1>1 DEF Tells, Callback, ClosedTick
<1> HIDE DEF at
<1>4. ToldUpTo(demo, Origin, at + 1) =
        IF told THEN Append(ToldUpTo(demo, Origin, at), ClosedTick(demo, Origin, at))
                ELSE ToldUpTo(demo, Origin, at)
  <2>1. at <= End(demo, Origin)
    BY DEF at
  <2>2. told <=> /\ demo[at].tick >= 0
                 /\ at = End(demo, Origin) \/ demo[at + 1].tick # demo[at].tick
    BY <1>1 DEF at
  <2> QED BY <1>1, <2>1, <2>2, TellNext
<1>5. CASE told
  <2>1. Callback(last_tick).tick >= 0
    BY <1>5 DEF Callback
  <2>2. ToldBy(Append(delivered, Callback(last_tick)))
          = Append(ToldBy(delivered), Tells(Callback(last_tick)))
    BY <1>2, <2>1, ToldAppend
  <2> QED BY <1>1, <1>2, <1>3, <1>4, <1>5, <2>2
<1>6. CASE ~told
  BY <1>1, <1>2, <1>4, <1>6
<1> QED BY <1>5, <1>6

(* A command is at the cursor: what is told ends before it, and the change *)
(* lists hold the commands that share its tick.                            *)
LEMMA BeforeCommand ==
  ASSUME TypeInv, mode # "segments", Running, cursor \in 1 .. Len(demo)
  PROVE  /\ cursor \in Origin .. Len(demo) /\ \A k \in Origin .. cursor - 1 : demo[k].cmd # "STOP"
         /\ Flushed \in Seq(CallbackType)
         /\ Flushed = delivered \/ Flushed = Append(delivered, Callback(last_tick))
         /\ TickChanges => Callback(last_tick) \in CallbackType
         /\ ToldBy(Flushed) = ToldUpTo(demo, Origin, cursor)
         /\ Kept(changed) \in Seq(Int) /\ Kept(updated) \in Seq(Int)
         /\ InOrder(RunOf(demo, Origin, cursor)) =
              IF Header.cmd = "STOP" THEN Kept(changed) ELSE Append(Kept(changed), cursor)
<1>1. /\ demo \in Demos /\ delivered \in Seq(CallbackType) /\ changed \in Seq(Int)
      /\ updated \in Seq(Int) /\ last_tick \in Int \cup {NoTick}
      /\ Origin \in 1 .. DataLen(demo) /\ DataLen(demo) = Len(demo) + 1 /\ Len(demo) \in Nat
      /\ Header.tick \in Int /\ Header = demo[cursor]
  BY StartRange, DemoTypes DEF TypeInv, Running, Header
<1>2. Kept(changed) \in Seq(Int) /\ Kept(updated) \in Seq(Int)
  BY <1>1 DEF Kept
<1> DEFINE begins == cursor = Origin \/ demo[cursor - 1].tick # demo[cursor].tick
<1>3. CASE last_tick = NoTick
  <2>1. Uncut(demo, Origin, cursor) /\ ToldBy(delivered) = ToldUpTo(demo, Origin, cursor)
        /\ changed = <<>>
    BY <1>3 DEF Running, Settled
  <2>2. ~TickChanges /\ Kept(changed) = <<>> /\ Flushed = delivered
    BY <1>3, <2>1 DEF TickChanges, Kept, Flushed
  <2>3. /\ cursor \in Origin .. Len(demo) /\ \A k \in Origin .. cursor - 1 : demo[k].cmd # "STOP"
        /\ begins
    BY <1>1, <2>1 DEF Uncut
  <2>4. InOrder(RunOf(demo, Origin, cursor)) =
          IF Header.cmd = "STOP" THEN <<>> ELSE Append(<<>>, cursor)
    BY <1>1, <2>3, RunNext
  <2> QED BY <1>1, <1>2, <2>1, <2>2, <2>3, <2>4
<1>4. CASE last_tick # NoTick
  <2>1. TickOpen
    BY <1>4 DEF Running
  <2>2. /\ cursor \in Origin + 1 .. Len(demo) /\ cursor \in Origin .. Len(demo)
        /\ \A k \in Origin .. cursor - 1 : demo[k].cmd # "STOP"
    BY <1>1, <2>1 DEF TickOpen
  <2>3. cursor <= End(demo, Origin) /\ End(demo, Origin) \in Int
    <3>1. cursor \in Origin .. DataLen(demo) /\ cursor <= Len(demo)
      BY <1>1, <2>1 DEF TickOpen
    <3> QED BY <1>1, <2>2, <3>1, EndIs
  <2>4. TickChanges <=> begins
    BY <1>1, <1>4, <2>1, <2>2 DEF TickChanges, TickOpen
  <2>5. Kept(changed) = IF begins THEN <<>> ELSE InOrder(RunOf(demo, Origin, cursor - 1))
    BY <2>1, <2>4 DEF Kept, TickOpen
  <2>6. InOrder(RunOf(demo, Origin, cursor)) =
          IF Header.cmd = "STOP" THEN Kept(changed) ELSE Append(Kept(changed), cursor)
    BY <1>1, <2>2, <2>5, RunNext
  <2>7. last_tick \in Int
    BY <1>1, <1>4
  <2> DEFINE told == TickChanges /\ last_tick >= 0
  <2>8. told \in BOOLEAN
    BY DEF TickChanges
  <2>9. told <=> last_tick >= 0 /\ (cursor - 1 = End(demo, Origin)
                                      \/ demo[cursor].tick # demo[cursor - 1].tick)
    BY <1>1, <2>2, <2>3, <2>4
  <2>10. cursor - 1 <= End(demo, Origin)
    BY <2>2, <2>3
  <2> HIDE DEF told
  <2>11. /\ Callback(last_tick) \in CallbackType
         /\ ToldBy(IF told THEN Append(delivered, Callback(last_tick)) ELSE delivered)
              = ToldUpTo(demo, Origin, cursor)
    BY <1>1, <2>1, <2>8, <2>9, <2>10, CallbackTells
  <2>12. ToldBy(Flushed) = ToldUpTo(demo, Origin, cursor)
    <3>1. CASE told
      BY <2>11, <3>1 DEF told, Flushed
    <3>2. CASE ~told /\ ~TickChanges
      BY <2>11, <3>2 DEF Flushed
    <3>3. CASE ~told /\ TickChanges
      <4>1. ~(Callback(last_tick).tick >= 0)
        BY <3>3 DEF told, Callback
      <4>2. ToldBy(Append(delivered, Callback(last_tick))) = ToldBy(delivered)
        BY <1>1, <2>11, <4>1, ToldAppend
      <4> QED BY <2>11, <3>3, <4>2 DEF Flushed
    <3> QED BY <3>1, <3>2, <3>3
  <2>13. Flushed \in Seq(CallbackType)
    BY <1>1, <2>11 DEF Flushed
  <2> QED BY <1>2, <2>2, <2>6, <2>11, <2>12, <2>13 DEF Flushed
<1> QED BY <1>3, <1>4

(* The entries made of the change lists leak the sign-on once. *)
LeakNow == updated = changed \/ (delivered = <<>> /\ updated = SignonCommands \o changed)

LEMMA LeakAppend ==
  ASSUME NEW calls \in Seq(CallbackType), LeakOnce(calls), NEW c \in CallbackType,
         c.updated = c.changed \/ (calls = <<>> /\ c.updated = SignonCommands \o c.changed)
  PROVE  LeakOnce(Append(calls, c))
<1> DEFINE more == Append(calls, c)
<1>1. /\ DOMAIN more = 1 .. Len(calls) + 1 /\ DOMAIN calls = 1 .. Len(calls) /\ Len(calls) \in Nat
      /\ more[Len(calls) + 1] = c /\ \A i \in 1 .. Len(calls) : more[i] = calls[i]
  OBVIOUS
<1>2. calls = <<>> => Len(calls) + 1 = 1
  OBVIOUS
<1> HIDE DEF more
<1>3. LeakOnce(more)
  <2> SUFFICES ASSUME NEW i \in 1 .. Len(calls) + 1
               PROVE  \/ more[i].updated = more[i].changed
                      \/ i = 1 /\ more[i].updated = SignonCommands \o more[i].changed
    BY <1>1 DEF LeakOnce
  <2>1. CASE i = Len(calls) + 1
    BY <1>1, <1>2, <2>1
  <2>2. CASE i # Len(calls) + 1
    <3>1. i \in 1 .. Len(calls)
      BY <1>1, <2>2
    <3> QED BY <1>1, <3>1 DEF LeakOnce
  <2> QED BY <2>1, <2>2
<1> QED BY <1>3 DEF more
(* The next command is applied, after the tick before it if it closes one. *)
LEMMA CommandStep ==
  ASSUME IInv, mode # "segments", ReplayCommand
  PROVE  /\ IInv' /\ mode' = mode /\ UNCHANGED <<demo, started, saved>>
         /\ delivered \in Seq(CallbackType)
         /\ \/ delivered' = delivered
            \/ \E c \in CallbackType : delivered' = Append(delivered, c)
<1>1. /\ TypeInv /\ Control /\ Stored /\ Session /\ Running /\ demo \in Demos
      /\ phase = "replay" /\ LeakOnce(delivered)
      /\ StreamStart(demo) = NoOffset => delivered = <<>>
  BY DEF IInv, TypeInv, Session, ReplayCommand
<1>2. /\ delivered' = Flushed /\ applied' = Append(applied, cursor)
      /\ changed' = Append(Kept(changed), cursor) /\ updated' = Append(Kept(updated), cursor)
      /\ tick' = Header.tick /\ last_tick' = Header.tick /\ cursor' = cursor + 1
      /\ UNCHANGED <<demo, phase, mode, end_tick, started, saved>>
      /\ ~ReplayOver /\ ~AtStop
  BY DEF ReplayCommand
<1>3. /\ DataLen(demo) = Len(demo) + 1 /\ Len(demo) \in Nat /\ Origin \in 1 .. DataLen(demo)
      /\ cursor \in Nat /\ delivered \in Seq(CallbackType)
  BY <1>1, StartRange DEF Running, TypeInv
<1>4. /\ cursor \in Origin .. DataLen(demo) /\ cursor # DataLen(demo)
  <2>1. cursor \in Origin .. DataLen(demo)
    BY <1>1, <1>3 DEF Running, Settled, Uncut, TickOpen
  <2> QED BY <1>2, <2>1 DEF ReplayOver, AtEnd
<1>5. /\ cursor \in 1 .. Len(demo) /\ cursor \in Origin .. Len(demo)
      /\ Header = demo[cursor] /\ Header.tick \in Int /\ Header.cmd # "STOP"
      /\ end_tick # NoTick => Header.tick <= end_tick
  <2>1. cursor \in 1 .. Len(demo) /\ cursor \in Origin .. Len(demo)
    BY <1>3, <1>4
  <2>2. Header.tick \in Int /\ end_tick \in Int \cup {NoTick}
    BY <1>1, <2>1, DemoTypes DEF Header, TypeInv
  <2>3. Header.cmd # "STOP" /\ (end_tick # NoTick => ~(Header.tick > end_tick))
    BY <1>2, <1>4 DEF AtStop, ReplayOver, AtEnd
  <2> QED BY <2>1, <2>2, <2>3 DEF Header
<1>6. /\ \A k \in Origin .. cursor - 1 : demo[k].cmd # "STOP"
      /\ Flushed \in Seq(CallbackType)
      /\ Flushed = delivered \/ Flushed = Append(delivered, Callback(last_tick))
      /\ TickChanges => Callback(last_tick) \in CallbackType
      /\ ToldBy(Flushed) = ToldUpTo(demo, Origin, cursor)
      /\ Kept(changed) \in Seq(Int) /\ Kept(updated) \in Seq(Int)
      /\ InOrder(RunOf(demo, Origin, cursor)) = Append(Kept(changed), cursor)
  BY <1>1, <1>5, BeforeCommand
<1>7. \A k \in Origin .. cursor : demo[k].cmd # "STOP"
  BY <1>5, <1>6
<1>8. Origin' = Origin /\ SignonCommands' = SignonCommands
  BY <1>2 DEF Origin, FeedStart, SignonCommands
<1>9. TypeInv'
  BY <1>1, <1>2, <1>5, <1>6 DEF TypeInv
<1>10. Control' /\ Stored'
  <2>1. Control'
    BY <1>1, <1>2 DEF Control
  <2>2. ChainStart' = ChainStart
    BY <1>2 DEF ChainStart
  <2>3. Stored'
    BY <1>1, <1>2, <1>8, <2>2 DEF Stored, Seed, Checkpoint, Settled, AppliedUpTo, LeakOnce
  <2> QED BY <2>1, <2>3
<1>11. TickOpen'
  <2>1. cursor' \in Origin + 1 .. DataLen(demo) /\ cursor' - 1 = cursor
    BY <1>2, <1>3, <1>5
  <2> QED BY <1>2, <1>5, <1>6, <1>7, <1>8, <2>1 DEF TickOpen
<1>12. (AppliedUpTo(Origin, cursor, applied))'
  <2>1. ASSUME StreamStart(demo) # NoOffset
        PROVE  Append(applied, cursor) = SignonCommands \o InOrder(Reads(demo, Origin, cursor + 1))
    <3>1. applied = SignonCommands \o InOrder(Reads(demo, Origin, cursor))
      BY <1>1, <2>1 DEF Running, AppliedUpTo
    <3>2. /\ InOrder(Reads(demo, Origin, cursor + 1))
               = Append(InOrder(Reads(demo, Origin, cursor)), cursor)
          /\ InOrder(Reads(demo, Origin, cursor)) \in Seq(Int)
      BY <1>1, <1>3, <1>5, <1>7, ReadsNext
    <3> DEFINE read == InOrder(Reads(demo, Origin, cursor))
    <3>3. read \in Seq(Int) /\ cursor \in Int
      BY <1>3, <3>2
    <3> HIDE DEF read
    <3>4. Append(SignonCommands \o read, cursor) = SignonCommands \o Append(read, cursor)
      BY <1>1, <3>3, SignonAppend
    <3> QED BY <3>1, <3>2, <3>4 DEF read
  <2> QED BY <1>2, <1>8, <2>1 DEF AppliedUpTo
<1>13. StreamStart(demo) # NoOffset => LeakNow'
  <2> SUFFICES ASSUME StreamStart(demo) # NoOffset
               PROVE  \/ updated' = changed'
                      \/ delivered' = <<>> /\ updated' = SignonCommands \o changed'
    BY <1>8 DEF LeakNow
  <2>1. LeakNow
    BY <1>1 DEF Running, LeakNow
  <2>2. CASE TickChanges \/ updated = changed
    BY <1>2, <2>2 DEF Kept
  <2>3. CASE ~TickChanges /\ delivered = <<>> /\ updated = SignonCommands \o changed
    <3>1. Kept(changed) = changed /\ Kept(updated) = updated /\ Flushed = delivered
      BY <2>3 DEF Kept, Flushed
    <3>2. changed \in Seq(Int) /\ cursor \in Int
      BY <1>3, <1>6, <3>1
    <3>3. Append(SignonCommands \o changed, cursor) = SignonCommands \o Append(changed, cursor)
      BY <1>1, <3>2, SignonAppend
    <3> QED BY <1>2, <2>3, <3>1, <3>3
  <2> QED BY <2>1, <2>2, <2>3 DEF LeakNow
<1>14. (LeakOnce(delivered))' /\ (StreamStart(demo) = NoOffset => delivered = <<>>)'
  <2>1. CASE Flushed = delivered
    BY <1>1, <1>2, <1>8, <2>1 DEF LeakOnce
  <2>2. CASE Flushed # delivered
    <3>1. TickChanges /\ Flushed = Append(delivered, Callback(last_tick)) /\ last_tick # NoTick
      BY <1>6, <2>2 DEF Flushed, TickChanges
    <3>2. StreamStart(demo) # NoOffset
      <4>1. TickOpen
        BY <1>1, <3>1 DEF Running
      <4> SUFFICES ASSUME StreamStart(demo) = NoOffset PROVE FALSE
        OBVIOUS
      <4>2. Origin = DataLen(demo) \/ (mode = "seek" /\ started # NoOffset)
        BY DEF Origin, StartOr, FeedStart
      <4>3. Origin = DataLen(demo)
        BY <1>1, <4>2 DEF Control
      <4> QED BY <1>3, <1>4, <4>3
    <3>3. LeakNow
      BY <1>1, <3>2 DEF Running, LeakNow
    <3>4. Callback(last_tick).updated = updated /\ Callback(last_tick).changed = changed
      BY DEF Callback
    <3>5. LeakOnce(Append(delivered, Callback(last_tick)))
      BY <1>1, <1>3, <1>6, <3>1, <3>3, <3>4, LeakAppend DEF LeakNow
    <3> QED BY <1>2, <1>8, <3>1, <3>2, <3>5 DEF LeakOnce
  <2> QED BY <2>1, <2>2
<1>15. last_tick' # NoTick
  BY <1>2, <1>5, NoTickAssumption
<1>16. Running'
  BY <1>2, <1>3, <1>8, <1>11, <1>12, <1>13, <1>15 DEF Running, LeakNow
<1>17. Session'
  BY <1>1, <1>2, <1>14, <1>16 DEF Session
<1>18. \/ delivered' = delivered
       \/ \E c \in CallbackType : delivered' = Append(delivered, c)
  <2>1. CASE TickChanges
    BY <1>2, <1>6, <2>1
  <2>2. CASE ~TickChanges
    BY <1>2, <2>2 DEF Flushed
  <2> QED BY <2>1, <2>2
<1> QED BY <1>2, <1>3, <1>9, <1>10, <1>17, <1>18 DEF IInv
(* The replay returns at a position that splits no tick. *)
LEMMA ReturnIInv ==
  ASSUME IInv, mode # "segments", phase = "replay",
         NEW at \in Nat, NEW log \in Seq(Int), NEW now \in Int, NEW calls \in Seq(CallbackType),
         NEW left \in Seq(Int),
         Return(at, log, now, calls, left), last_tick' \in Int \cup {NoTick},
         Settled(Origin, at, calls), AppliedUpTo(Origin, at, applied), LeakOnce(calls),
         StreamStart(demo) = NoOffset => calls = <<>>
  PROVE  /\ IInv' /\ mode' = mode /\ UNCHANGED <<demo, started>> /\ delivered' = calls
         /\ IF mode = "chain" THEN saved'.delivered = calls ELSE saved' = saved
<1>1. /\ TypeInv /\ Control /\ Stored /\ Session /\ Running /\ demo \in Demos
      /\ mode \in {"run", "seek", "chain"} /\ saved \in SavedType /\ applied \in Seq(Int)
  BY DEF IInv, TypeInv, Session, Control
<1>2. /\ delivered' = calls /\ tick' = now /\ cursor' = at
      /\ UNCHANGED <<demo, mode, applied, end_tick, started>>
  BY DEF Return
<1>3. Origin' = Origin /\ SignonCommands' = SignonCommands /\ ChainStart' = ChainStart
  BY <1>2 DEF Origin, FeedStart, SignonCommands, ChainStart
<1>4. /\ (LeakOnce(delivered))'
      /\ (StreamStart(demo) = NoOffset => delivered = <<>>)'
  BY <1>2, <1>3 DEF LeakOnce
<1>5. CASE mode = "chain"
  <2>1. /\ changed' = <<>> /\ updated' = <<>> /\ phase' = "idle"
        /\ saved' = [applied |-> applied, tick |-> now, updated |-> <<>>, next_offset |-> at,
                     delivered |-> calls, chain |-> saved.chain + 1]
    BY <1>5 DEF Return
  <2>2. saved.chain \in Nat
    BY <1>1 DEF SavedType
  <2>3. /\ saved' \in SavedType /\ saved'.chain > 0 /\ saved'.chain # 0
        /\ saved'.applied = applied /\ saved'.updated = <<>> /\ saved'.next_offset = at
        /\ saved'.delivered = calls
    BY <1>1, <2>1, <2>2 DEF SavedType
  <2>4. Origin = ChainStart
    BY <1>5 DEF Origin, ChainStart, FeedStart
  <2>5. (Settled(ChainStart, saved.next_offset, saved.delivered))'
    BY <1>2, <1>3, <2>3, <2>4 DEF Settled
  <2>6. (AppliedUpTo(ChainStart, saved.next_offset, saved.applied))'
    BY <1>2, <1>3, <2>3, <2>4 DEF AppliedUpTo
  <2>7. (LeakOnce(saved.delivered))' /\ (StreamStart(demo) = NoOffset => saved.delivered = <<>>)'
    BY <1>2, <1>4, <2>3 DEF LeakOnce
  <2>8. Checkpoint'
    BY <2>3, <2>5, <2>6, <2>7 DEF Checkpoint
  <2>9. TypeInv'
    BY <1>1, <1>2, <2>1, <2>3 DEF TypeInv
  <2>10. Control' /\ Stored'
    BY <1>1, <1>2, <1>5, <2>1, <2>3, <2>8 DEF Control, Stored
  <2>11. Session'
    BY <1>2, <1>4, <2>1, <2>3 DEF Session
  <2> QED BY <1>2, <1>5, <2>3, <2>9, <2>10, <2>11 DEF IInv
<1>6. CASE mode # "chain"
  <2>1. /\ changed' = log /\ updated' = left /\ phase' = "done" /\ saved' = saved
    BY <1>1, <1>6 DEF Return
  <2>2. Finished'
    BY <1>2, <1>3 DEF Finished, Settled, AppliedUpTo
  <2>3. TypeInv'
    BY <1>1, <1>2, <2>1 DEF TypeInv
  <2>4. Control' /\ Stored'
    BY <1>1, <1>2, <1>3, <1>6, <2>1 DEF Control, Stored, Seed
  <2>5. Session'
    BY <1>4, <2>1, <2>2 DEF Session
  <2> QED BY <1>2, <1>6, <2>1, <2>3, <2>4, <2>5 DEF IInv
<1> QED BY <1>5, <1>6

(* A STOP closes the tick before it, and its own. *)
LEMMA StopStep ==
  ASSUME IInv, mode # "segments", ReplayStop
  PROVE  /\ IInv' /\ mode' = mode /\ UNCHANGED <<demo, started>>
         /\ IF mode = "chain" THEN saved'.delivered = delivered' ELSE saved' = saved
         /\ delivered \in Seq(CallbackType)
         /\ \/ delivered' = delivered
            \/ \E c \in CallbackType : delivered' = Append(delivered, c)
            \/ \E b, c \in CallbackType : delivered' = Append(Append(delivered, b), c)
<1>1. /\ TypeInv /\ Control /\ Stored /\ Session /\ Running /\ demo \in Demos
      /\ phase = "replay" /\ LeakOnce(delivered) /\ delivered \in Seq(CallbackType)
      /\ StreamStart(demo) = NoOffset => delivered = <<>>
      /\ applied \in Seq(Int) /\ cursor \in Nat
  BY DEF IInv, TypeInv, Session, ReplayStop
<1>2. /\ DataLen(demo) = Len(demo) + 1 /\ Len(demo) \in Nat /\ Origin \in 1 .. DataLen(demo)
  BY <1>1, StartRange DEF Running
<1>3. cursor \in 1 .. Len(demo) /\ demo[cursor].cmd = "STOP" /\ Header = demo[cursor]
      /\ Header.tick \in Int /\ Header.cmd = "STOP"
  <2>1. cursor \in Origin .. DataLen(demo)
    BY <1>1, <1>2 DEF Running, Settled, Uncut, TickOpen
  <2>2. cursor # DataLen(demo) /\ Header.cmd = "STOP"
    BY DEF ReplayStop, AtStop, AtEnd
  <2>3. cursor \in 1 .. Len(demo)
    BY <1>2, <2>1, <2>2
  <2> QED BY <1>1, <2>2, <2>3, DemoTypes DEF Header
<1>4. /\ cursor \in Origin .. Len(demo) /\ \A k \in Origin .. cursor - 1 : demo[k].cmd # "STOP"
      /\ Flushed \in Seq(CallbackType)
      /\ Flushed = delivered \/ Flushed = Append(delivered, Callback(last_tick))
      /\ TickChanges => Callback(last_tick) \in CallbackType
      /\ ToldBy(Flushed) = ToldUpTo(demo, Origin, cursor)
      /\ Kept(changed) \in Seq(Int) /\ Kept(updated) \in Seq(Int)
      /\ InOrder(RunOf(demo, Origin, cursor)) = Kept(changed)
  BY <1>1, <1>3, BeforeCommand
<1>5. End(demo, Origin) = cursor
  <2>1. cursor \in Origin .. DataLen(demo)
    BY <1>2, <1>4
  <2> QED BY <1>1, <1>2, <1>3, <1>4, <2>1, EndIs
<1> DEFINE final == [tick |-> Header.tick, changed |-> Kept(changed), updated |-> Kept(updated)]
           calls == IF Header.tick >= 0 THEN Append(Flushed, final) ELSE Flushed
<1>6. final \in CallbackType /\ calls \in Seq(CallbackType)
  <2>1. final \in CallbackType
    BY <1>3, <1>4 DEF CallbackType
  <2> HIDE DEF final
  <2> QED BY <1>4, <2>1
<1>7. ToldBy(calls) = ToldUpTo(demo, Origin, DataLen(demo))
  <2>1. Tells(final) = ClosedTick(demo, Origin, cursor)
    BY <1>3, <1>4 DEF Tells, ClosedTick
  <2>2. final.tick = Header.tick
    OBVIOUS
  <2>3. ToldUpTo(demo, Origin, cursor + 1) =
          IF Header.tick >= 0
            THEN Append(ToldUpTo(demo, Origin, cursor), ClosedTick(demo, Origin, cursor))
            ELSE ToldUpTo(demo, Origin, cursor)
    BY <1>1, <1>2, <1>3, <1>4, <1>5, TellNext
  <2> HIDE DEF final
  <2>4. ToldBy(calls) = ToldUpTo(demo, Origin, cursor + 1)
    BY <1>4, <1>6, <2>1, <2>2, <2>3, ToldAppend
  <2>5. /\ cursor + 1 \in Int /\ cursor + 1 > End(demo, Origin)
        /\ DataLen(demo) \in Int /\ DataLen(demo) > End(demo, Origin)
    BY <1>2, <1>3, <1>5
  <2> HIDE DEF calls
  <2> QED BY <1>1, <1>2, <2>4, <2>5, ToldAtEnds
<1>8. Settled(Origin, DataLen(demo), calls)
  <2>1. Uncut(demo, Origin, DataLen(demo))
    BY <1>2 DEF Uncut
  <2> QED BY <1>7, <2>1 DEF Settled
<1>9. AppliedUpTo(Origin, DataLen(demo), applied)
  <2>1. AppliedUpTo(Origin, cursor, applied)
    BY <1>1 DEF Running
  <2>2. Reads(demo, Origin, DataLen(demo)) = Reads(demo, Origin, cursor)
    BY <1>1, <1>2, <1>3, <1>4, ReadsStop
  <2> QED BY <2>1, <2>2 DEF AppliedUpTo
<1>10. StreamStart(demo) # NoOffset
  <2> SUFFICES ASSUME StreamStart(demo) = NoOffset PROVE FALSE
    OBVIOUS
  <2>1. Origin = DataLen(demo) \/ (mode = "seek" /\ started # NoOffset)
    BY DEF Origin, StartOr, FeedStart
  <2>2. Origin = DataLen(demo)
    BY <1>1, <2>1 DEF Control
  <2> QED BY <1>2, <1>3, <1>4, <2>2
<1>11. LeakOnce(calls)
  <2>1. LeakNow
    BY <1>1, <1>10 DEF Running, LeakNow
  <2>2. LeakOnce(Flushed)
    <3>1. CASE TickChanges
      <4>1. Callback(last_tick).updated = updated /\ Callback(last_tick).changed = changed
        BY DEF Callback
      <4>2. LeakOnce(Append(delivered, Callback(last_tick)))
        BY <1>1, <1>4, <2>1, <3>1, <4>1, LeakAppend DEF LeakNow
      <4> QED BY <3>1, <4>2 DEF Flushed
    <3>2. CASE ~TickChanges
      BY <1>1, <3>2 DEF Flushed
    <3> QED BY <3>1, <3>2
  <2>3. \/ final.updated = final.changed
        \/ Flushed = <<>> /\ final.updated = SignonCommands \o final.changed
    BY <2>1 DEF LeakNow, Kept, Flushed
  <2> HIDE DEF final
  <2> QED BY <1>4, <1>6, <2>2, <2>3, LeakAppend
<1>12. Return(DataLen(demo), Kept(changed), Header.tick, calls, Kept(updated))
       /\ last_tick' = Header.tick
  BY DEF ReplayStop
<1>13. \/ calls = delivered
       \/ \E c \in CallbackType : calls = Append(delivered, c)
       \/ \E b, c \in CallbackType : calls = Append(Append(delivered, b), c)
  <2> HIDE DEF final
  <2>1. calls = Flushed \/ calls = Append(Flushed, final)
    OBVIOUS
  <2>2. Flushed = delivered \/ \E b \in CallbackType : Flushed = Append(delivered, b)
    BY <1>4 DEF Flushed
  <2> HIDE DEF calls
  <2> QED BY <1>6, <2>1, <2>2
<1> HIDE DEF calls
<1>14. /\ IInv' /\ mode' = mode /\ UNCHANGED <<demo, started>> /\ delivered' = calls
       /\ IF mode = "chain" THEN saved'.delivered = calls ELSE saved' = saved
  <2>1. DataLen(demo) \in Nat /\ last_tick' \in Int \cup {NoTick}
    BY <1>2, <1>3, <1>12
  <2> QED BY <1>1, <1>3, <1>4, <1>6, <1>8, <1>9, <1>10, <1>11, <1>12, <2>1, ReturnIInv
<1> QED BY <1>1, <1>13, <1>14

(* The data ends, or the next command lies behind the target. *)
LEMMA EndStep ==
  ASSUME IInv, mode # "segments", ReplayEnd
  PROVE  /\ IInv' /\ mode' = mode /\ UNCHANGED <<demo, started>>
         /\ IF mode = "chain" THEN saved'.delivered = delivered' ELSE saved' = saved
         /\ delivered \in Seq(CallbackType)
         /\ \/ delivered' = delivered
            \/ \E c \in CallbackType : delivered' = Append(delivered, c)
<1>1. /\ TypeInv /\ Control /\ Stored /\ Session /\ Running /\ demo \in Demos
      /\ phase = "replay" /\ LeakOnce(delivered) /\ delivered \in Seq(CallbackType)
      /\ StreamStart(demo) = NoOffset => delivered = <<>>
      /\ applied \in Seq(Int) /\ cursor \in Nat /\ changed \in Seq(Int) /\ updated \in Seq(Int)
      /\ last_tick \in Int \cup {NoTick} /\ tick \in Int /\ end_tick \in Int \cup {NoTick}
      /\ ReplayOver
  BY DEF IInv, TypeInv, Session, ReplayEnd
<1>2. /\ DataLen(demo) = Len(demo) + 1 /\ Len(demo) \in Nat /\ Origin \in 1 .. DataLen(demo)
      /\ AppliedUpTo(Origin, cursor, applied)
  BY <1>1, StartRange DEF Running
<1> DEFINE calls == IF last_tick # NoTick /\ last_tick >= 0
                      THEN Append(delivered, Callback(last_tick)) ELSE delivered
<1>3. Return(cursor, changed, tick, calls, updated) /\ last_tick' = last_tick
  BY DEF ReplayEnd
<1>4. CASE last_tick = NoTick
  <2>1. calls = delivered /\ Settled(Origin, cursor, delivered)
    BY <1>1, <1>4 DEF Running
  <2> HIDE DEF calls
  <2>2. /\ IInv' /\ mode' = mode /\ UNCHANGED <<demo, started>> /\ delivered' = delivered
        /\ IF mode = "chain" THEN saved'.delivered = delivered ELSE saved' = saved
    BY <1>1, <1>2, <1>3, <2>1, ReturnIInv
  <2> QED BY <1>1, <2>2
<1>5. CASE last_tick # NoTick
  <2>1. TickOpen /\ last_tick \in Int
    BY <1>1, <1>5 DEF Running
  <2>2. /\ cursor \in Origin + 1 .. DataLen(demo) /\ cursor \in Origin .. DataLen(demo)
        /\ \A k \in Origin .. cursor - 1 : demo[k].cmd # "STOP"
        /\ last_tick = demo[cursor - 1].tick
    BY <1>2, <2>1 DEF TickOpen
  <2>3. cursor = DataLen(demo) \/ demo[cursor].tick # demo[cursor - 1].tick
    <3> SUFFICES ASSUME cursor # DataLen(demo) PROVE demo[cursor].tick # demo[cursor - 1].tick
      OBVIOUS
    <3>1. end_tick # NoTick /\ demo[cursor].tick > end_tick
      BY <1>1 DEF ReplayOver, AtEnd, Header
    <3>2. end_tick \in Int /\ last_tick <= end_tick
      BY <1>1, <2>1, <3>1 DEF TickOpen
    <3>3. demo[cursor].tick \in Int
      <4>1. cursor \in 1 .. Len(demo)
        BY <1>2, <2>2
      <4> QED BY <1>1, <4>1, DemoTypes
    <3> QED BY <2>1, <2>2, <3>1, <3>2, <3>3
  <2>4. /\ cursor - 1 <= End(demo, Origin)
        /\ cursor = DataLen(demo) => cursor - 1 = End(demo, Origin)
    BY <1>1, <1>2, <2>2, EndIs
  <2> DEFINE told == last_tick >= 0
  <2>5. told \in BOOLEAN
    BY <2>1
  <2>6. told <=> last_tick >= 0 /\ (cursor - 1 = End(demo, Origin)
                                      \/ demo[cursor].tick # demo[cursor - 1].tick)
    BY <2>3, <2>4
  <2>7. calls = IF told THEN Append(delivered, Callback(last_tick)) ELSE delivered
    BY <1>5
  <2> HIDE DEF told, calls
  <2>8. Callback(last_tick) \in CallbackType /\ ToldBy(calls) = ToldUpTo(demo, Origin, cursor)
    BY <1>1, <1>2, <2>1, <2>4, <2>5, <2>6, <2>7, CallbackTells
  <2>9. Settled(Origin, cursor, calls)
    <3>1. Uncut(demo, Origin, cursor)
      BY <1>2, <2>2, <2>3 DEF Uncut
    <3> QED BY <2>8, <3>1 DEF Settled
  <2>10. StreamStart(demo) # NoOffset
    <3> SUFFICES ASSUME StreamStart(demo) = NoOffset PROVE FALSE
      OBVIOUS
    <3>1. Origin = DataLen(demo) \/ (mode = "seek" /\ started # NoOffset)
      BY DEF Origin, StartOr, FeedStart
    <3>2. Origin = DataLen(demo)
      BY <1>1, <3>1 DEF Control
    <3> QED BY <1>2, <2>2, <3>2
  <2>11. calls \in Seq(CallbackType) /\ LeakOnce(calls)
    <3>1. LeakNow
      BY <1>1, <2>10 DEF Running, LeakNow
    <3>2. Callback(last_tick).updated = updated /\ Callback(last_tick).changed = changed
      BY DEF Callback
    <3>3. LeakOnce(Append(delivered, Callback(last_tick)))
      BY <1>1, <2>8, <3>1, <3>2, LeakAppend DEF LeakNow
    <3> QED BY <1>1, <2>7, <2>8, <3>3
  <2>12. /\ IInv' /\ mode' = mode /\ UNCHANGED <<demo, started>> /\ delivered' = calls
         /\ IF mode = "chain" THEN saved'.delivered = calls ELSE saved' = saved
    BY <1>1, <1>2, <1>3, <2>9, <2>10, <2>11, ReturnIInv
  <2> QED BY <1>1, <2>7, <2>8, <2>12
<1> QED BY <1>4, <1>5

LEMMA NextIInv == IInv /\ [Next]_vars => IInv'
<1> SUFFICES ASSUME IInv, [Next]_vars PROVE IInv'
  OBVIOUS
<1>1. CASE mode = "segments"
  BY <1>1, SegmentsStep
<1>2. CASE mode # "segments"
  <2>1. CASE SignonStep \/ FailSignon
    BY <2>1, SignonStepInv
  <2>2. CASE \/ RunToEnd \/ (\E t \in Targets : ParseToTick(t))
             \/ (\E n \in Budgets : PlanSegments(n)) \/ (\E t \in Targets : CheckpointThrough(t))
    BY <2>2, StartIInv
  <2>3. CASE (\E t \in Targets : ReplayThrough(t)) \/ FailReplay
    BY <2>3, AgainIInv
  <2>4. CASE ReplayStep
    BY <1>2, <2>4, CommandStep, StopStep, EndStep DEF ReplayStep
  <2>5. CASE DecodeSegment
    BY <1>2, <2>5 DEF DecodeSegment
  <2>6. CASE UNCHANGED vars
    <3>1. UNCHANGED <<demo, phase, mode, cursor, end_tick, last_tick, started, tick, applied,
                      changed, updated, delivered, saved>>
      BY <2>6 DEF vars, replay, state
    <3>2. Origin' = Origin /\ SignonCommands' = SignonCommands /\ ChainStart' = ChainStart
      BY <3>1 DEF Origin, FeedStart, SignonCommands, ChainStart
    <3>3. TypeInv' /\ Control'
      BY <3>1 DEF IInv, TypeInv, Control
    <3>4. Stored'
      BY <3>1, <3>2 DEF IInv, Stored, Seed, Checkpoint, Settled, AppliedUpTo, LeakOnce
    <3>5. Running => Running'
      BY <3>1, <3>2 DEF Running, TickOpen, Settled, AppliedUpTo
    <3>6. (Signing => Signing') /\ (Finished => Finished') /\ (LeakOnce(delivered) => LeakOnce(delivered)')
      BY <3>1, <3>2 DEF Signing, Finished, Settled, AppliedUpTo, LeakOnce
    <3>7. Session'
      BY <1>2, <3>1, <3>5, <3>6 DEF IInv, Session
    <3> QED BY <3>3, <3>4, <3>7 DEF IInv
  <2> QED BY <2>1, <2>2, <2>3, <2>4, <2>5, <2>6 DEF Next
<1> QED BY <1>1, <1>2
LEMMA IInvHolds == Spec => []IInv
BY InitIInv, NextIInv, PTL DEF Spec

----------------------------------------------------------------------------
(* What follows of the invariant.                                          *)

(* run_to_end and the seek make one callback per completed tick, with the  *)
(* records of all its commands, for every demo and every target.           *)
THEOREM CallbacksAreTicksHolds == Spec => []CallbacksAreTicks
<1>1. IInv => CallbacksAreTicks
  <2> SUFFICES ASSUME IInv, Returned("run") \/ Returned("seek")
               PROVE  Told = TicksBetween(demo, started, cursor)
    BY DEF CallbacksAreTicks
  <2>1. /\ demo \in Demos /\ phase = "done" /\ started # NoOffset /\ Finished
        /\ started \in Nat
        /\ mode = "run" => started = StreamStart(demo)
    BY DEF IInv, TypeInv, Control, Session, Returned
  <2>2. Origin = started
    BY <2>1 DEF Origin, StartOr, FeedStart, Returned
  <2>3. Uncut(demo, started, cursor) /\ Told = ToldUpTo(demo, started, cursor)
    BY <2>1, <2>2 DEF Finished, Settled, Told
  <2>4. cursor \in started .. DataLen(demo) /\ DataLen(demo) \in Nat
    BY <2>1, <2>3, StartRange DEF Uncut
  <2>5. started \in 1 .. DataLen(demo) /\ cursor \in Int
    BY <2>1, <2>4 DEF NoOffset
  <2> QED BY <2>1, <2>3, <2>5, UncutTellsAll
<1> QED BY <1>1, IInvHolds, PTL

(* A chain of checkpoints, failed and resumed at any targets, is one       *)
(* uninterrupted replay, and never splits a tick.                          *)
THEOREM ResumeIsStraightThroughHolds == Spec => []ResumeIsStraightThrough
<1>1. IInv => ResumeIsStraightThrough
  <2> SUFFICES ASSUME IInv, mode = "chain", phase = "idle", StreamStart(demo) # NoOffset
               PROVE  LET from == StreamStart(demo)
                          next == saved.next_offset
                      IN  /\ saved.delivered = delivered
                          /\ Told = TicksBetween(demo, from, next)
                          /\ saved.applied = SignonCommands \o CommandsRead(demo, from, next)
                          /\ next \in from + 1 .. Len(demo)
                               => demo[next].tick # demo[next - 1].tick
    BY DEF ResumeIsStraightThrough
  <2> DEFINE from == StreamStart(demo)
             next == saved.next_offset
  <2>1. /\ demo \in Demos /\ saved.chain > 0 /\ delivered = saved.delivered
        /\ saved.chain # 0 /\ Checkpoint /\ ChainStart = from
    BY DEF IInv, TypeInv, Session, Stored, ChainStart, StartOr
  <2>2. from \in 1 .. DataLen(demo) /\ DataLen(demo) \in Nat
    BY <2>1, StartRange
  <2>3. /\ Uncut(demo, from, next) /\ Told = ToldUpTo(demo, from, next)
        /\ saved.applied = SignonCommands \o InOrder(Reads(demo, from, next))
    BY <2>1 DEF Checkpoint, Settled, AppliedUpTo, Told
  <2> HIDE DEF from, next
  <2>4. next \in from .. DataLen(demo) /\ next \in Int
    BY <2>2, <2>3 DEF Uncut
  <2>5. Told = TicksBetween(demo, from, next)
    BY <2>1, <2>2, <2>3, <2>4, UncutTellsAll
  <2>6. CommandsRead(demo, from, next) = InOrder(Reads(demo, from, next))
    BY <2>1, <2>2, <2>4, CommandsAreReads
  <2>7. next \in from + 1 .. Len(demo) => demo[next].tick # demo[next - 1].tick
    BY <2>3 DEF Uncut
  <2> QED BY <2>1, <2>3, <2>5, <2>6, <2>7 DEF from, next
<1> QED BY <1>1, IInvHolds, PTL

(* Only the first callback of a session also shows the sign-on commands.   *)
THEOREM SignonLeaksOnceHolds == Spec => []SignonLeaksOnce
<1>1. IInv => SignonLeaksOnce
  BY DEF IInv, Session, LeakOnce, SignonLeaksOnce
<1> QED BY <1>1, IInvHolds, PTL

(* The sign-on ends where the index says that the stream begins: prepare's *)
(* comparison of the two never fails.                                      *)
THEOREM SignonAgreesWithIndexHolds == Spec => []SignonAgreesWithIndex
<1>1. IInv => SignonAgreesWithIndex
  <2> SUFFICES ASSUME IInv, phase = "signon", SignonOver
               PROVE  SyncOffset = StreamStart(demo)
    BY DEF SignonAgreesWithIndex
  <2>1. demo \in Demos /\ Signing
    BY DEF IInv, TypeInv, Control, Session
  <2>2. /\ cursor \in 1 .. DataLen(demo)
        /\ \A k \in 1 .. cursor - 1 : demo[k].cmd \notin {"SYNC", "STOP"}
        /\ cursor = DataLen(demo) \/ demo[cursor].cmd \in {"SYNC", "STOP"}
    BY <2>1 DEF Signing, SignonOver, AtEnd, AtSync, AtStop, Header
  <2>3. StreamStart(demo) =
          IF cursor # DataLen(demo) /\ demo[cursor].cmd = "SYNC" THEN cursor + 1 ELSE NoOffset
    BY <2>1, <2>2, StreamStartAt
  <2> QED BY <2>3 DEF SyncOffset, AtSync, AtEnd, Header
<1> QED BY <1>1, IInvHolds, PTL
----------------------------------------------------------------------------
(* The loop implements TickFeed.                                           *)

FeedNow == IF FeedStart = NoOffset THEN <<>> ELSE Feeds[demo][FeedStart]
ToldNow == IF mode = "segments" THEN <<>> ELSE Told
KeptNow == Cardinality(Timed(saved.delivered))

TellsBeginning ==
  mode \in {"run", "seek", "chain"} /\ phase \in {"idle", "replay", "done"} =>
    /\ Len(Told) \in Nat /\ Len(Told) <= Len(FeedNow)
    /\ Told = SubSeq(FeedNow, 1, Len(Told))

LEMMA BeginningHolds == IInv => TellsBeginning
<1> SUFFICES ASSUME IInv, mode \in {"run", "seek", "chain"}, phase \in {"idle", "replay", "done"}
             PROVE  /\ Len(Told) \in Nat /\ Len(Told) <= Len(FeedNow)
                    /\ Told = SubSeq(FeedNow, 1, Len(Told))
  BY DEF TellsBeginning
<1>1. /\ demo \in Demos /\ TypeInv /\ Control /\ Stored /\ Session
      /\ StreamStart(demo) = NoOffset => delivered = <<>>
      /\ started \in Nat
  BY DEF IInv, TypeInv, Session
<1>2. CASE FeedStart = NoOffset
  <2>1. StreamStart(demo) = NoOffset
    BY <1>1, <1>2 DEF FeedStart, Control
  <2>2. Told = <<>> /\ FeedNow = <<>>
    BY <1>1, <1>2, <2>1, ToldNothing DEF Told, FeedNow
  <2> QED BY <2>2
<1>3. CASE FeedStart # NoOffset
  <2>1. Origin = FeedStart
    BY <1>3 DEF Origin, StartOr
  <2>2. \E at \in Int : Told = ToldUpTo(demo, FeedStart, at) /\ FeedStart \in 1 .. DataLen(demo)
    <3>1. CASE phase = "replay"
      <4>1. Running /\ FeedStart \in 1 .. DataLen(demo) /\ cursor \in Int /\ cursor - 1 \in Int
        BY <1>1, <2>1, <3>1 DEF Session, Running, TypeInv
      <4>2. \/ Told = ToldUpTo(demo, FeedStart, cursor)
            \/ Told = ToldUpTo(demo, FeedStart, cursor - 1)
        BY <2>1, <4>1 DEF Running, TickOpen, Settled, Told
      <4> QED BY <4>1, <4>2
    <3>2. CASE phase = "done"
      <4>1. mode \in {"run", "seek"} /\ started # NoOffset
        BY <1>1, <1>3, <3>2 DEF Control, FeedStart
      <4>2. /\ Uncut(demo, FeedStart, cursor) /\ Told = ToldUpTo(demo, FeedStart, cursor)
        BY <1>1, <2>1, <3>2, <4>1 DEF Session, Finished, Settled, Told
      <4>3. FeedStart \in Nat /\ DataLen(demo) \in Nat /\ cursor \in Int
        BY <1>1, <4>1, StartRange DEF FeedStart, Control, TypeInv
      <4>4. FeedStart \in 1 .. DataLen(demo)
        BY <1>3, <4>2, <4>3 DEF Uncut, NoOffset
      <4> QED BY <4>2, <4>3, <4>4
    <3>3. CASE phase = "idle"
      <4>1. mode = "chain" /\ saved.chain # 0 /\ delivered = saved.delivered /\ saved \in SavedType
        BY <1>1, <3>3 DEF Control, Session, TypeInv
      <4>2. Checkpoint /\ ChainStart = FeedStart
        BY <1>1, <1>3, <3>3, <4>1 DEF Stored, ChainStart, FeedStart, StartOr
      <4>3. Told = ToldUpTo(demo, FeedStart, saved.next_offset) /\ FeedStart \in 1 .. DataLen(demo)
        BY <1>1, <4>1, <4>2, StartRange DEF Checkpoint, Settled, Told
      <4>4. saved.next_offset \in Int
        BY <4>1 DEF SavedType
      <4> QED BY <4>3, <4>4
    <3> QED BY <3>1, <3>2, <3>3
  <2>3. PICK at \in Int : Told = ToldUpTo(demo, FeedStart, at) /\ FeedStart \in 1 .. DataLen(demo)
    BY <2>2
  <2>4. FeedNow = TicksBetween(demo, FeedStart, DataLen(demo))
    BY <1>1, <1>3, <2>3 DEF FeedNow, Feeds
  <2> QED BY <1>1, <2>3, <2>4, ToldIsBeginning
<1> QED BY <1>2, <1>3

(* A callback tells one tick or none. *)
LEMMA ToldGrows ==
  ASSUME NEW calls \in Seq(CallbackType), NEW c \in CallbackType
  PROVE  /\ Len(ToldBy(calls)) \in Nat
         /\ \/ ToldBy(Append(calls, c)) = ToldBy(calls)
            \/ Len(ToldBy(Append(calls, c))) = Len(ToldBy(calls)) + 1
<1>1. ToldBy(calls) \in Seq(TickType)
  BY ToldType
<1>2. c.tick >= 0 => Tells(c) \in TickType
  BY DEF Tells, TickType, CallbackType
<1> QED BY <1>1, <1>2, ToldAppend

LEMMA StepTellsTheFeed ==
  ASSUME IInv, IInv', TellsBeginning', [Next]_vars
  PROVE  [Consumer!Next]_(Consumer!vars)
<1>1. /\ demo \in Demos /\ Control /\ Stored /\ TypeInv
      /\ (saved.chain = 0 => KeptNow = 0)
      /\ (saved.chain = 0 => KeptNow = 0)'
  BY ToldNothing DEF IInv, TypeInv, Stored, KeptNow
<1>2. UNCHANGED <<FeedNow, ToldNow, KeptNow>> => UNCHANGED Consumer!vars
  BY DEF FeedNow, ToldNow, KeptNow, Consumer!vars
<1>3. CASE mode = "segments"
  <2>1. mode' = "segments" /\ UNCHANGED <<demo, saved>>
    BY <1>3, SegmentsStep
  <2>2. UNCHANGED <<FeedNow, ToldNow, KeptNow>>
    BY <1>3, <2>1 DEF FeedNow, FeedStart, Feeds, ToldNow, KeptNow
  <2> QED BY <1>2, <2>2
<1>4. CASE SignonStep \/ FailSignon
  <2>1. /\ mode = "none" /\ mode' = "none" /\ demo' = demo
        /\ delivered = <<>> /\ delivered' = <<>> /\ saved.chain = 0 /\ saved'.chain = 0
    BY <1>4, SignonStepInv DEF IInv, Control
  <2>2. UNCHANGED <<FeedNow, ToldNow, KeptNow>>
    BY <1>1, <2>1 DEF FeedNow, FeedStart, Feeds, ToldNow, Told
  <2> QED BY <1>2, <2>2
<1>5. CASE \/ RunToEnd \/ (\E t \in Targets : ParseToTick(t))
           \/ (\E n \in Budgets : PlanSegments(n)) \/ (\E t \in Targets : CheckpointThrough(t))
  <2>1. /\ mode = "none" /\ delivered = <<>> /\ saved' = saved /\ saved.chain = 0
        /\ mode' = "segments" \/ delivered' = <<>>
    BY <1>1, <1>5, StartIInv DEF Control
  <2>2. ToldNow = <<>> /\ KeptNow = 0 /\ ToldNow' = <<>> /\ KeptNow' = 0
    BY <1>1, <2>1, ToldNothing DEF ToldNow, Told
  <2>3. Consumer!Open
    BY <2>2 DEF Consumer!Open, ToldNow, KeptNow
  <2> QED BY <2>3 DEF Consumer!Next
<1>6. ASSUME mode \in {"run", "seek", "chain"}, mode' = mode, demo' = demo,
             mode = "seek" => started' = started
      PROVE  /\ FeedNow' = FeedNow /\ ToldNow = Told /\ ToldNow' = Told'
             /\ phase' \in {"idle", "replay", "done"} =>
                  /\ Len(ToldNow') \in Nat /\ Len(ToldNow') <= Len(FeedNow)
                  /\ ToldNow' = SubSeq(FeedNow, 1, Len(ToldNow'))
  <2>1. FeedNow' = FeedNow /\ ToldNow = Told /\ ToldNow' = Told'
    BY <1>6 DEF FeedNow, FeedStart, Feeds, ToldNow
  <2> QED BY <1>6, <2>1 DEF TellsBeginning
<1>7. CASE mode # "segments" /\ ((\E t \in Targets : ReplayThrough(t)) \/ FailReplay)
  <2>1. /\ mode' = mode /\ demo' = demo /\ saved' = saved
        /\ \/ delivered' = delivered /\ (mode # "seek" \/ started' = started)
           \/ mode = "chain" /\ delivered' = saved.delivered
    BY <1>7, AgainIInv
  <2>2. mode \in {"run", "seek", "chain"}
    <3>1. phase = "replay" \/ mode = "chain"
      BY <1>7 DEF ReplayThrough, FailReplay
    <3> QED BY <1>1, <1>7, <3>1 DEF Control
  <2>3. CASE delivered' = delivered /\ (mode # "seek" \/ started' = started)
    <3>1. UNCHANGED <<FeedNow, ToldNow, KeptNow>>
      BY <1>6, <2>1, <2>2, <2>3 DEF Told, KeptNow
    <3> QED BY <1>2, <3>1
  <2>4. CASE mode = "chain" /\ delivered' = saved.delivered /\ delivered' # delivered
    <3>1. phase' \in {"idle", "replay"}
      BY <1>7, <2>4 DEF ReplayThrough, FailReplay, Fails
    <3>2. delivered' \in Seq(CallbackType)
      BY <1>1, <2>4 DEF TypeInv, SavedType
    <3>3. Len(ToldNow') = KeptNow
      BY <1>6, <2>1, <2>2, <2>4, <3>2, ToldType DEF Told, KeptNow
    <3>4. ToldNow' = SubSeq(FeedNow, 1, KeptNow) /\ UNCHANGED <<FeedNow, KeptNow>>
      BY <1>6, <2>1, <2>2, <2>4, <3>1, <3>3 DEF KeptNow
    <3>5. Consumer!FallBack
      BY <3>3, <3>4 DEF Consumer!FallBack, ToldNow, KeptNow, FeedNow
    <3> QED BY <3>5 DEF Consumer!Next
  <2> QED BY <2>1, <2>3, <2>4
<1>8. CASE mode # "segments" /\ ReplayStep
  <2>1. /\ mode' = mode /\ UNCHANGED <<demo, started>> /\ delivered \in Seq(CallbackType)
        /\ \/ saved' = saved
           \/ ~ReplayCommand /\ mode = "chain" /\ saved'.delivered = delivered'
        /\ \/ delivered' = delivered
           \/ \E c \in CallbackType : delivered' = Append(delivered, c)
           \/ \E b, c \in CallbackType : delivered' = Append(Append(delivered, b), c)
    BY <1>8, CommandStep, StopStep, EndStep DEF ReplayStep
  <2>2. phase = "replay" /\ phase' \in {"idle", "replay", "done"}
    BY <1>8 DEF ReplayStep, ReplayCommand, ReplayStop, ReplayEnd, Return
  <2>3. mode \in {"run", "seek", "chain"}
    BY <1>1, <1>8, <2>2 DEF Control
  <2>4. /\ Len(Told) \in Nat
        /\ \/ Told' = Told
           \/ Len(Told') = Len(Told) + 1
           \/ Len(Told') = Len(Told) + 2
    <3>1. Len(Told) \in Nat
      BY <2>1, ToldType DEF Told
    <3>2. CASE delivered' = delivered
      BY <3>1, <3>2 DEF Told
    <3>3. CASE \E c \in CallbackType : delivered' = Append(delivered, c)
      BY <2>1, <3>1, <3>3, ToldGrows DEF Told
    <3>4. CASE \E b, c \in CallbackType : delivered' = Append(Append(delivered, b), c)
      <4>1. PICK b \in CallbackType, c \in CallbackType :
              delivered' = Append(Append(delivered, b), c)
        BY <3>4
      <4> DEFINE once == Append(delivered, b)
      <4>2. once \in Seq(CallbackType)
        BY <2>1
      <4>3. ToldBy(once) = Told \/ Len(ToldBy(once)) = Len(Told) + 1
        BY <2>1, ToldGrows DEF Told
      <4> HIDE DEF once
      <4>4. Told' = ToldBy(once) \/ Len(Told') = Len(ToldBy(once)) + 1
        BY <4>1, <4>2, ToldGrows DEF Told, once
      <4> QED BY <3>1, <4>3, <4>4
    <3> QED BY <2>1, <3>1, <3>2, <3>3, <3>4
  <2>5. /\ FeedNow' = FeedNow /\ ToldNow = Told /\ ToldNow' = Told'
        /\ Len(ToldNow') \in Nat /\ Len(ToldNow') <= Len(FeedNow)
        /\ ToldNow' = SubSeq(FeedNow, 1, Len(ToldNow'))
    BY <1>6, <2>1, <2>2, <2>3
  <2>6. \A n \in 0 .. 2 : Len(ToldNow') = Len(ToldNow) + n => Consumer!Tell(n)
    BY <2>5 DEF Consumer!Tell, ToldNow, FeedNow
  <2>7. \E n \in 0 .. 2 : Len(ToldNow') = Len(ToldNow) + n /\ (n = 0 => ToldNow' = ToldNow)
    <3> DEFINE was == Len(ToldNow)
               is  == Len(ToldNow')
    <3>1. was \in Nat /\ (ToldNow' = ToldNow \/ is = was + 1 \/ is = was + 2)
      BY <2>4, <2>5
    <3>2. ToldNow' = ToldNow => is = was
      OBVIOUS
    <3> HIDE DEF was, is
    <3>3. \/ is = was + 0 /\ ToldNow' = ToldNow
          \/ is = was + 1
          \/ is = was + 2
      BY <3>1, <3>2
    <3>4. 0 \in 0 .. 2 /\ 1 \in 0 .. 2 /\ 2 \in 0 .. 2 /\ 1 # 0 /\ 2 # 0
      OBVIOUS
    <3> QED BY <3>3, <3>4, Zenon DEF was, is
  <2>8. CASE saved' = saved
    <3>1. KeptNow' = KeptNow
      BY <2>8 DEF KeptNow
    <3>2. CASE ToldNow' = ToldNow
      BY <1>2, <2>5, <3>1, <3>2
    <3>3. CASE ToldNow' # ToldNow
      <4>1. \E n \in 1 .. 2 : Consumer!Tell(n)
        BY <2>6, <2>7, <3>3
      <4>2. UNCHANGED Cardinality(Timed(saved.delivered))
        BY <2>8
      <4> QED BY <4>1, <4>2 DEF Consumer!Next
    <3> QED BY <3>2, <3>3
  <2>9. CASE mode = "chain" /\ saved'.delivered = delivered'
    <3>1. delivered' \in Seq(CallbackType)
      BY <2>1, <2>3 DEF IInv, TypeInv
    <3>2. KeptNow' = Len(ToldNow')
      BY <2>5, <2>9, <3>1, ToldType DEF KeptNow, Told
    <3>3. \E n \in 0 .. 2 : Consumer!Tell(n)
      BY <2>6, <2>7
    <3>4. Consumer!Keep
      BY <3>2, <3>3 DEF Consumer!Keep, KeptNow, ToldNow
    <3> QED BY <3>4 DEF Consumer!Next
  <2> QED BY <2>1, <2>8, <2>9
<1>9. CASE UNCHANGED vars
  <2>1. UNCHANGED <<demo, mode, started, delivered, saved>>
    BY <1>9 DEF vars, replay
  <2>2. UNCHANGED <<FeedNow, ToldNow, KeptNow>>
    BY <2>1 DEF FeedNow, FeedStart, Feeds, ToldNow, Told, KeptNow
  <2> QED BY <1>2, <2>2
<1>10. CASE mode # "segments" /\ DecodeSegment
  BY <1>10 DEF DecodeSegment
<1> QED BY <1>3, <1>4, <1>5, <1>7, <1>8, <1>9, <1>10 DEF Next

(* The replay loop tells the next completed tick or nothing, and a chain   *)
(* of checkpoints one feed: Playback implements TickFeed, for every demo,  *)
(* every target and every chain.                                           *)
THEOREM TellsTheFeedHolds == Spec => TellsTheFeed
<1>1. Init => Consumer!Init
  BY ToldNothing DEF Init, Consumer!Init, Told
<1>2. IInv /\ IInv' /\ TellsBeginning' /\ [Next]_vars => [Consumer!Next]_(Consumer!vars)
  BY StepTellsTheFeed
<1> QED BY <1>1, <1>2, BeginningHolds, IInvHolds, PTL DEF Spec, TellsTheFeed, Consumer!Spec
----------------------------------------------------------------------------
(* A seek reads the commands up to its target.                             *)

Wanted(d, from, target) ==
  {k \in from .. Len(d) : \A j \in from .. k : d[j].cmd # "STOP" /\ d[j].tick <= target}

LEMMA WantedIs ==
  ASSUME NEW d \in Demos, NEW from \in 1 .. DataLen(d), NEW at \in from .. DataLen(d),
         NEW target \in Int,
         \A k \in from .. at - 1 : d[k].cmd # "STOP" /\ d[k].tick <= target,
         at = DataLen(d) \/ d[at].cmd = "STOP" \/ d[at].tick > target
  PROVE  Wanted(d, from, target) = from .. at - 1 /\ Reads(d, from, at) = from .. at - 1
<1>1. /\ from \in Int /\ at \in Int /\ from >= 1 /\ DataLen(d) = Len(d) + 1 /\ Len(d) \in Nat
      /\ \A k \in 1 .. Len(d) : d[k].tick \in Int
  BY DemoTypes
<1>2. ASSUME NEW k \in from .. at - 1
      PROVE  k \in from .. Len(d) /\ \A j \in from .. k : d[j].cmd # "STOP" /\ d[j].tick <= target
  BY <1>1
<1>3. ASSUME NEW k \in from .. Len(d),
             \A j \in from .. k : d[j].cmd # "STOP" /\ d[j].tick <= target
      PROVE  k \in from .. at - 1
  <2> SUFFICES ASSUME at <= k PROVE FALSE
    BY <1>1
  <2>1. at \in from .. k /\ at \in 1 .. Len(d) /\ at # DataLen(d)
    BY <1>1
  <2>2. d[at].cmd # "STOP" /\ d[at].tick <= target /\ d[at].tick \in Int
    BY <1>1, <1>3, <2>1
  <2> QED BY <2>1, <2>2
<1>4. Wanted(d, from, target) = from .. at - 1
  BY <1>2, <1>3 DEF Wanted
<1>5. Reads(d, from, at) = from .. at - 1
  BY <1>2 DEF Reads
<1> QED BY <1>4, <1>5

SeekInv ==
  mode = "seek" /\ started # NoOffset =>
    /\ end_tick \in Int
    /\ started = StartOr(FullPacketAtOrBefore(demo, end_tick), StreamStart(demo))
    /\ phase = "replay" =>
         \A k \in started .. cursor - 1 : demo[k].cmd # "STOP" /\ demo[k].tick <= end_tick
    /\ phase = "done" => Reads(demo, started, cursor) = Wanted(demo, started, end_tick)

(* The loop only stops where a command is not wanted. *)
LEMMA SeekReturns ==
  ASSUME IInv, SeekInv, mode = "seek", phase = "replay", ReplayStop \/ ReplayEnd
  PROVE  SeekInv'
<1>1. /\ demo \in Demos /\ TypeInv /\ Control /\ Running /\ cursor \in Nat
      /\ Origin \in 1 .. DataLen(demo)
      /\ DataLen(demo) = Len(demo) + 1 /\ Len(demo) \in Nat
  <2>1. demo \in Demos /\ TypeInv /\ Control /\ Session /\ cursor \in Nat
    BY DEF IInv, TypeInv
  <2>2. Running
    BY <2>1 DEF Session
  <2>3. DataLen(demo) = Len(demo) + 1 /\ Len(demo) \in Nat
    BY <2>1, DemoTypes
  <2> QED BY <2>1, <2>2, <2>3 DEF Running
<1>2. /\ mode' = mode /\ UNCHANGED <<demo, started, end_tick>>
  BY DEF ReplayStop, ReplayEnd, Return
<1>3. SUFFICES ASSUME started # NoOffset
               PROVE  Reads(demo, started, cursor') = Wanted(demo, started, end_tick)
  <2>1. SeekInv' <=>
          (started # NoOffset =>
            /\ end_tick \in Int
            /\ started = StartOr(FullPacketAtOrBefore(demo, end_tick), StreamStart(demo))
            /\ phase' = "replay" =>
                 \A k \in started .. cursor' - 1 : demo[k].cmd # "STOP" /\ demo[k].tick <= end_tick
            /\ phase' = "done" => Reads(demo, started, cursor') = Wanted(demo, started, end_tick))
    BY <1>2 DEF SeekInv
  <2>2. phase' # "replay"
    BY DEF ReplayStop, ReplayEnd, Return
  <2> QED BY <2>1, <2>2 DEF SeekInv
<1>4. /\ end_tick \in Int /\ end_tick # NoTick /\ started = Origin
      /\ \A k \in started .. cursor - 1 : demo[k].cmd # "STOP" /\ demo[k].tick <= end_tick
  BY <1>3, NoTickAssumption DEF SeekInv, Origin, FeedStart, StartOr
<1>5. cursor \in started .. DataLen(demo)
  BY <1>1, <1>4 DEF Running, Settled, Uncut, TickOpen
<1>6. CASE ReplayStop
  <2>1. /\ cursor' = DataLen(demo) /\ cursor \in started .. Len(demo) /\ demo[cursor].cmd = "STOP"
    BY <1>1, <1>5, <1>6 DEF ReplayStop, Return, AtStop, AtEnd, Header
  <2>2. Reads(demo, started, DataLen(demo)) = Reads(demo, started, cursor)
    BY <1>1, <1>4, <2>1, ReadsStop
  <2>3. Wanted(demo, started, end_tick) = Reads(demo, started, cursor)
    BY <1>1, <1>4, <1>5, <2>1, WantedIs
  <2> QED BY <2>1, <2>2, <2>3
<1>7. CASE ReplayEnd
  <2>1. cursor' = cursor /\ (cursor = DataLen(demo) \/ demo[cursor].tick > end_tick)
    BY <1>7 DEF ReplayEnd, Return, ReplayOver, AtEnd, Header
  <2>2. started \in 1 .. DataLen(demo)
    BY <1>1, <1>4
  <2>3. Wanted(demo, started, end_tick) = Reads(demo, started, cursor)
    <3>1. CASE cursor = DataLen(demo)
      BY <1>1, <1>4, <1>5, <2>2, <3>1, WantedIs
    <3>2. CASE demo[cursor].tick > end_tick
      BY <1>1, <1>4, <1>5, <2>2, <3>2, WantedIs
    <3> QED BY <2>1, <3>1, <3>2
  <2> QED BY <2>1, <2>3
<1> QED BY <1>6, <1>7

LEMMA SeekHolds == Spec => []SeekInv
<1>1. Init => SeekInv
  BY DEF Init, SeekInv
<1>2. IInv /\ SeekInv /\ [Next]_vars => SeekInv'
  <2> SUFFICES ASSUME IInv, SeekInv, [Next]_vars, mode' = "seek" PROVE SeekInv'
    BY DEF SeekInv
  <2>1. CASE \E t \in Targets : ParseToTick(t)
    <3>1. PICK t \in Targets : ParseToTick(t)
      BY <2>1
    <3> DEFINE start == StartOr(FullPacketAtOrBefore(demo, t), StreamStart(demo))
    <3>2. /\ demo' = demo /\ ReplayOrReturn(start, t) /\ started = NoOffset
          /\ demo \in Demos /\ t \in Int
      BY <3>1, TargetsAssumption, TickRangeAssumption DEF ParseToTick, IInv, Control, TypeInv
    <3>3. start = NoOffset \/ start \in Nat
      BY <3>2, StartRange, FullPacketIs DEF StartOr
    <3> HIDE DEF start
    <3>4. CASE start = NoOffset
      BY <3>2, <3>4 DEF ReplayOrReturn, replay, SeekInv
    <3>5. CASE start # NoOffset
      <4>1. /\ phase' = "replay" /\ started' = start /\ cursor' = start /\ end_tick' = t
        BY <3>2, <3>5 DEF ReplayOrReturn, Replay
      <4>2. start .. start - 1 = {}
        BY <3>3, <3>5
      <4> QED BY <3>2, <4>1, <4>2 DEF SeekInv, start
    <3> QED BY <3>4, <3>5
  <2>2. CASE ReplayCommand
    <3>1. /\ mode = "seek" /\ phase = "replay" /\ phase' = "replay" /\ cursor' = cursor + 1
          /\ UNCHANGED <<demo, started, end_tick>> /\ cursor \in Nat /\ started \in Nat
          /\ ~ReplayOver /\ ~AtStop /\ demo \in Demos
      BY <2>2 DEF ReplayCommand, IInv, TypeInv
    <3>2. SUFFICES ASSUME started # NoOffset, NEW k \in started .. cursor
                   PROVE  demo[k].cmd # "STOP" /\ demo[k].tick <= end_tick
      BY <3>1 DEF SeekInv
    <3>3. /\ end_tick \in Int /\ end_tick # NoTick /\ started >= 1
          /\ \A j \in started .. cursor - 1 : demo[j].cmd # "STOP" /\ demo[j].tick <= end_tick
      BY <3>1, <3>2, NoTickAssumption DEF SeekInv, NoOffset
    <3>4. CASE k = cursor
      <4>1. cursor \in 1 .. Len(demo)
        <5>1. /\ Running /\ cursor # DataLen(demo) /\ DataLen(demo) = Len(demo) + 1
              /\ Len(demo) \in Nat /\ Origin \in 1 .. DataLen(demo)
          BY <3>1, StartRange DEF IInv, Session, Running, ReplayOver, AtEnd
        <5>2. cursor \in Origin .. DataLen(demo)
          BY <5>1 DEF Running, Settled, Uncut, TickOpen
        <5> QED BY <5>1, <5>2
      <4>2. demo[cursor].tick \in Int
        BY <3>1, <4>1, DemoTypes
      <4> QED BY <3>1, <3>3, <3>4, <4>2 DEF ReplayOver, AtStop, AtEnd, Header
    <3>5. CASE k # cursor
      <4>1. k \in started .. cursor - 1
        BY <3>1, <3>5
      <4> QED BY <3>3, <4>1
    <3> QED BY <3>4, <3>5
  <2>3. CASE ReplayStop \/ ReplayEnd
    <3>1. mode = "seek" /\ phase = "replay"
      BY <2>3 DEF ReplayStop, ReplayEnd, Return
    <3> QED BY <2>3, <3>1, SeekReturns
  <2>4. CASE FailReplay
    <3>1. phase' = "failed" /\ UNCHANGED <<demo, mode, started, end_tick>>
      BY <2>4 DEF FailReplay, Fails, replay
    <3> QED BY <3>1 DEF SeekInv
  <2>5. CASE UNCHANGED vars
    BY <2>5 DEF vars, replay, SeekInv
  <2>6. CASE SignonStep \/ FailSignon
    BY <2>6, SignonStepInv
  <2>7. CASE \/ RunToEnd \/ (\E n \in Budgets : PlanSegments(n)) \/ DecodeSegment
             \/ (\E t \in Targets : CheckpointThrough(t)) \/ (\E t \in Targets : ReplayThrough(t))
    BY <2>7 DEF RunToEnd, PlanSegments, DecodeSegment, CheckpointThrough, ReplayThrough
  <2> QED BY <2>1, <2>2, <2>3, <2>4, <2>5, <2>6, <2>7 DEF Next, ReplayStep
<1> QED BY <1>1, <1>2, IInvHolds, PTL DEF Spec
LEMMA InOrderInterval ==
  ASSUME NEW a \in Int, NEW b \in Int, a <= b + 1
  PROVE  /\ InOrder(a .. b) \in Seq(Int) /\ Len(InOrder(a .. b)) = b - a + 1
         /\ \A i \in 1 .. b - a + 1 : InOrder(a .. b)[i] = a + i - 1
<1> DEFINE S == a .. b
<1>1. /\ S \subseteq Int /\ IsFiniteSet(S) /\ Cardinality(S) = b - a + 1 /\ b - a + 1 \in Nat
  BY FS_Interval
<1>2. InOrder(S) \in Seq(Int) /\ Len(InOrder(S)) = b - a + 1
  <2> HIDE DEF S
  <2>1. InOrder(S) \in Seq(S) /\ Len(InOrder(S)) = Cardinality(S)
    BY <1>1, InOrderType
  <2> QED BY <1>1, <2>1, SeqMonotonic
<1>3. ASSUME NEW k \in S PROVE Cardinality({j \in S : j <= k}) = k - a + 1
  <2>1. {j \in S : j <= k} = a .. k
    OBVIOUS
  <2>2. Cardinality(a .. k) = k - a + 1
    BY FS_Interval
  <2> QED BY <2>1, <2>2
<1>4. ASSUME NEW i \in 1 .. b - a + 1 PROVE InOrder(S)[i] = a + i - 1
  <2> DEFINE at == a + i - 1
  <2>1. at \in S /\ \A k \in S : k - a + 1 = i <=> k = at
    BY <1>1
  <2>2. AtRank(S, i) = {at}
    BY <1>3, <2>1 DEF AtRank
  <2>3. InOrder(S)[i] = CHOOSE k \in AtRank(S, i) : TRUE
    BY <1>1 DEF InOrder
  <2> HIDE DEF at, S
  <2>4. InOrder(S)[i] = at
    BY <2>2, <2>3
  <2> QED BY <2>4 DEF at
<1> QED BY <1>2, <1>4

(* What is wanted is an interval that ends where reading ends. *)
LEMMA WantedEnds ==
  ASSUME NEW d \in Demos, NEW from \in 1 .. DataLen(d), NEW target \in Int
  PROVE  \E at \in from .. DataLen(d) :
           /\ \A k \in from .. at - 1 : d[k].cmd # "STOP" /\ d[k].tick <= target
           /\ at = DataLen(d) \/ d[at].cmd = "STOP" \/ d[at].tick > target
<1> DEFINE ends == {k \in from .. DataLen(d) : \/ k = DataLen(d) \/ d[k].cmd = "STOP"
                                               \/ d[k].tick > target}
<1>1. /\ from \in Int /\ from >= 1 /\ DataLen(d) = Len(d) + 1 /\ Len(d) \in Nat
      /\ \A k \in 1 .. Len(d) : d[k].tick \in Int
  BY DemoTypes
<1>2. /\ ends \subseteq from .. DataLen(d) /\ DataLen(d) \in ends
      /\ IsFiniteSet(from .. DataLen(d)) /\ from .. DataLen(d) \subseteq Int
  BY <1>1, FS_Interval
<1>3. PICK at \in ends : \A j \in ends : at <= j
  <2> HIDE DEF ends
  <2>1. IsFiniteSet(ends) /\ ends # {} /\ ends \subseteq Int
    BY <1>2, FS_Subset
  <2> QED BY <2>1, Extremes
<1>4. ASSUME NEW k \in from .. at - 1
      PROVE  d[k].cmd # "STOP" /\ d[k].tick <= target
  <2>1. k \in from .. DataLen(d) /\ k \in 1 .. Len(d) /\ k < at
    BY <1>1, <1>3
  <2>2. k \notin ends
    BY <1>1, <1>3, <2>1
  <2>3. d[k].tick \in Int
    BY <1>1, <2>1
  <2> QED BY <2>1, <2>2, <2>3
<1>5. at \in from .. DataLen(d)
       /\ (at = DataLen(d) \/ d[at].cmd = "STOP" \/ d[at].tick > target)
  BY <1>3
<1> QED BY <1>4, <1>5

(* The commands of a replay to a target are those before the first that    *)
(* lies behind it.                                                         *)
LEMMA StraightIsWanted ==
  ASSUME NEW d \in Demos, NEW from \in 1 .. DataLen(d), NEW target \in Int
  PROVE  LET past == {k \in from .. Len(d) : d[k].tick > target}
             to   == IF past = {} THEN DataLen(d) ELSE CHOOSE k \in past : \A j \in past : k <= j
         IN  CommandsRead(d, from, to) = InOrder(Wanted(d, from, target))
<1> DEFINE past == {k \in from .. Len(d) : d[k].tick > target}
           to   == IF past = {} THEN DataLen(d) ELSE CHOOSE k \in past : \A j \in past : k <= j
<1>1. /\ from \in Int /\ from >= 1 /\ DataLen(d) = Len(d) + 1 /\ Len(d) \in Nat
      /\ \A k \in 1 .. Len(d) : d[k].tick \in Int
  BY DemoTypes
<1>2. /\ to \in from .. DataLen(d) /\ \A k \in from .. to - 1 : d[k].tick <= target
      /\ to = DataLen(d) \/ d[to].tick > target
  <2>1. CASE past = {}
    <3>1. \A k \in from .. Len(d) : d[k].tick <= target
      <4> SUFFICES ASSUME NEW k \in from .. Len(d) PROVE d[k].tick <= target
        OBVIOUS
      <4>1. k \notin past /\ k \in 1 .. Len(d)
        BY <1>1, <2>1
      <4> QED BY <1>1, <4>1
    <3>2. to = DataLen(d)
      BY <2>1
    <3> HIDE DEF to
    <3> QED BY <1>1, <3>1, <3>2
  <2>2. CASE past # {}
    <3>1. past \subseteq from .. Len(d) /\ IsFiniteSet(from .. Len(d)) /\ from .. Len(d) \subseteq Int
      BY <1>1, FS_Interval
    <3>2. \E k \in past : \A j \in past : k <= j
      <4> HIDE DEF past
      <4>1. IsFiniteSet(past) /\ past \subseteq Int
        BY <3>1, FS_Subset
      <4> QED BY <2>2, <4>1, Extremes
    <3>3. to \in past /\ \A j \in past : to <= j
      <4>1. to = CHOOSE k \in past : \A j \in past : k <= j
        BY <2>2
      <4> HIDE DEF past, to
      <4> QED BY <3>2, <4>1
    <3> HIDE DEF to
    <3>4. to \in from .. Len(d) /\ d[to].tick > target
      BY <3>3
    <3>5. ASSUME NEW k \in from .. to - 1 PROVE d[k].tick <= target
      <4>1. k \in 1 .. Len(d) /\ k \in from .. Len(d) /\ ~(to <= k)
        BY <1>1, <3>4
      <4>2. k \notin past
        BY <3>3, <4>1
      <4> QED BY <1>1, <4>1, <4>2
    <3> QED BY <1>1, <3>4, <3>5
  <2> QED BY <2>1, <2>2
<1> HIDE DEF to, past
<1>3. Reads(d, from, to) = Wanted(d, from, target)
  <2>1. ASSUME NEW k, k \in Reads(d, from, to) PROVE k \in Wanted(d, from, target)
    <3>1. k \in from .. to - 1 /\ \A j \in from .. k : d[j].cmd # "STOP"
      BY <2>1 DEF Reads
    <3>2. k \in from .. Len(d) /\ \A j \in from .. k : j \in from .. to - 1
      BY <1>1, <1>2, <3>1
    <3> QED BY <1>2, <3>1, <3>2 DEF Wanted
  <2>2. ASSUME NEW k, k \in Wanted(d, from, target) PROVE k \in Reads(d, from, to)
    <3>1. /\ k \in from .. Len(d)
          /\ \A j \in from .. k : d[j].cmd # "STOP" /\ d[j].tick <= target
      BY <2>2 DEF Wanted
    <3>2. k \in from .. to - 1
      <4> SUFFICES ASSUME to <= k PROVE FALSE
        BY <1>1, <1>2, <3>1
      <4>1. to \in from .. k /\ to # DataLen(d) /\ to \in 1 .. Len(d)
        BY <1>1, <1>2, <3>1
      <4>2. d[to].tick > target /\ d[to].tick <= target /\ d[to].tick \in Int
        BY <1>1, <1>2, <3>1, <4>1
      <4> QED BY <4>2
    <3> QED BY <3>1, <3>2 DEF Reads
  <2> QED BY <2>1, <2>2
<1>4. CommandsRead(d, from, to) = InOrder(Reads(d, from, to))
  BY <1>2, CommandsAreReads
<1> QED BY <1>3, <1>4 DEF to, past
(* What is wanted of the stream is indexed, and no STOP lies before it. *)
LEMMA WantedIsStreamed ==
  ASSUME NEW d \in Demos, StreamStart(d) # NoOffset, NEW target \in Int,
         NEW k \in Wanted(d, StreamStart(d), target)
  PROVE  /\ k \in Indexed(d)
         /\ d[k].cmd = "FULL" => k \in FullPacketsTo(d, target)
<1> DEFINE s == StreamStart(d)
<1>1. /\ s \in 2 .. DataLen(d) /\ d[s - 1].cmd = "SYNC" /\ DataLen(d) = Len(d) + 1
      /\ \A j \in 1 .. s - 2 : d[j].cmd # "STOP"
      /\ Len(d) \in Nat /\ DOMAIN d = 1 .. Len(d)
  BY StreamStartIs, DemoTypes
<1>2. k \in s .. Len(d) /\ \A j \in s .. k : d[j].cmd # "STOP" /\ d[j].tick <= target
  BY DEF Wanted
<1> HIDE DEF s
<1>3. \A j \in 1 .. k : d[j].cmd # "STOP"
  <2> SUFFICES ASSUME NEW j \in 1 .. k PROVE d[j].cmd # "STOP"
    OBVIOUS
  <2>1. j \in 1 .. s - 2 \/ j = s - 1 \/ j \in s .. k
    BY <1>1, <1>2
  <2> QED BY <1>1, <1>2, <2>1
<1>4. k \in Indexed(d)
  BY <1>1, <1>2, <1>3 DEF Indexed
<1>5. k \in s .. k
  BY <1>1, <1>2
<1> QED BY <1>2, <1>4, <1>5 DEF FullPacketsTo, Streamed, s

(* A seek applies the sign-on and a tail of what an uninterrupted replay   *)
(* to the target applies, from its last full packet on.                    *)
THEOREM SeekIsStraightSuffixHolds == Spec => []SeekIsStraightSuffix
<1>1. ASSUME IInv, SeekInv, Returned("seek"), TicksAscend
      PROVE  LET from     == StreamStart(demo)
                 past     == {k \in from .. Len(demo) : demo[k].tick > end_tick}
                 to       == IF past = {} THEN DataLen(demo)
                                          ELSE CHOOSE k \in past : \A j \in past : k <= j
                 straight == CommandsRead(demo, from, to)
                 tail(i)  == SubSeq(straight, i, Len(straight))
                 full(i)  == demo[straight[i]].cmd = "FULL"
                 kept     == {i \in DOMAIN straight :
                                full(i) /\ \A j \in i + 1 .. Len(straight) : ~full(j)}
             IN  applied = SignonCommands \o
                             (IF kept = {} THEN straight ELSE tail(CHOOSE i \in kept : TRUE))
  <2> DEFINE from     == StreamStart(demo)
             past     == {k \in from .. Len(demo) : demo[k].tick > end_tick}
             to       == IF past = {} THEN DataLen(demo)
                                      ELSE CHOOSE k \in past : \A j \in past : k <= j
             straight == CommandsRead(demo, from, to)
             tail(i)  == SubSeq(straight, i, Len(straight))
             full(i)  == demo[straight[i]].cmd = "FULL"
             kept     == {i \in DOMAIN straight :
                            full(i) /\ \A j \in i + 1 .. Len(straight) : ~full(j)}
             F        == FullPacketsTo(demo, end_tick)
  <2>1. /\ demo \in Demos /\ phase = "done" /\ mode = "seek" /\ started # NoOffset
        /\ from # NoOffset /\ Finished /\ end_tick \in Int
        /\ started = StartOr(FullPacketAtOrBefore(demo, end_tick), from)
        /\ Reads(demo, started, cursor) = Wanted(demo, started, end_tick)
    BY <1>1 DEF Returned, IInv, TypeInv, Control, Session, SeekInv
  <2>2. applied = SignonCommands \o InOrder(Wanted(demo, started, end_tick))
    BY <2>1 DEF Finished, AppliedUpTo, Origin, FeedStart, StartOr
  <2>3. /\ from \in 2 .. DataLen(demo) /\ from \in 1 .. DataLen(demo)
        /\ DataLen(demo) = Len(demo) + 1 /\ Len(demo) \in Nat
    BY <2>1, StreamStartIs, DemoTypes
  <2>4. straight = InOrder(Wanted(demo, from, end_tick))
    BY <2>1, <2>3, StraightIsWanted
  <2>5. PICK m \in from .. DataLen(demo) :
          /\ \A k \in from .. m - 1 : demo[k].cmd # "STOP" /\ demo[k].tick <= end_tick
          /\ m = DataLen(demo) \/ demo[m].cmd = "STOP" \/ demo[m].tick > end_tick
    BY <2>1, <2>3, WantedEnds
  <2>6. Wanted(demo, from, end_tick) = from .. m - 1
    BY <2>1, <2>3, <2>5, WantedIs
  <2>7. \A k \in from .. m - 1 : demo[k].cmd = "FULL" => k \in F
    BY <2>1, <2>6, WantedIsStreamed
  <2> HIDE DEF straight, from, F
  <2>8. /\ straight \in Seq(Int) /\ Len(straight) = m - from
        /\ \A i \in 1 .. m - from : straight[i] = from + i - 1
        /\ DOMAIN straight = 1 .. m - from
        /\ from \in Int /\ m \in Int /\ from <= m
    <3>1. from \in Int /\ m - 1 \in Int /\ from <= (m - 1) + 1 /\ (m - 1) - from + 1 = m - from
          /\ m \in Int /\ from <= m
      BY <2>3
    <3>2. /\ straight \in Seq(Int) /\ Len(straight) = m - from
          /\ \A i \in 1 .. m - from : straight[i] = from + i - 1
      BY <2>4, <2>6, <3>1, InOrderInterval
    <3> QED BY <3>1, <3>2
  <2>9. \/ FullPacketAtOrBefore(demo, end_tick) = NoOffset /\ F = {}
        \/ /\ FullPacketAtOrBefore(demo, end_tick) \in from .. Len(demo)
           /\ FullPacketAtOrBefore(demo, end_tick) # NoOffset
           /\ FullPacketAtOrBefore(demo, end_tick) \in F
           /\ \A j \in F : j <= FullPacketAtOrBefore(demo, end_tick)
    BY <2>1, <2>3, FullPacketIs DEF F, from, NoOffset
  <2>10. CASE F = {} /\ FullPacketAtOrBefore(demo, end_tick) = NoOffset
    <3>1. \A i \in 1 .. m - from : ~full(i)
      <4> SUFFICES ASSUME NEW i \in 1 .. m - from PROVE ~full(i)
        OBVIOUS
      <4>1. straight[i] \in from .. m - 1
        BY <2>8
      <4> QED BY <2>7, <2>10, <4>1
    <3>2. kept = {}
      BY <2>8, <3>1
    <3>3. started = from
      BY <2>1, <2>10 DEF StartOr
    <3> QED BY <2>2, <2>4, <3>2, <3>3 DEF straight, from
  <2>11. CASE F # {}
    <3>1. PICK f \in F : f \in from .. Len(demo) /\ started = f /\ \A j \in F : j <= f
      BY <2>1, <2>9, <2>11 DEF StartOr
    <3>2. f \in Indexed(demo) /\ demo[f].cmd = "FULL" /\ demo[f].tick <= end_tick
      BY <3>1 DEF F, FullPacketsTo, Streamed
    <3>3. f \in Wanted(demo, from, end_tick)
      <4> SUFFICES ASSUME NEW j \in from .. f
                   PROVE  demo[j].cmd # "STOP" /\ demo[j].tick <= end_tick
        BY <3>1 DEF Wanted
      <4>1. j \in 1 .. f /\ j \in 1 .. Len(demo) /\ f \in 1 .. Len(demo) /\ (j < f \/ j = f)
        BY <2>3, <3>1
      <4>2. demo[j].cmd # "STOP"
        BY <3>2, <4>1 DEF Indexed
      <4>3. demo[j].tick <= demo[f].tick /\ demo[j].tick \in Int /\ demo[f].tick \in Int
        <5>1. DOMAIN demo = 1 .. Len(demo) /\ demo[j].tick \in Int /\ demo[f].tick \in Int
          BY <2>1, <4>1, DemoTypes
        <5>2. j < f => demo[j].tick <= demo[f].tick
          BY <1>1, <2>8, <4>1, <5>1 DEF TicksAscend, from
        <5> QED BY <4>1, <5>1, <5>2
      <4> QED BY <2>1, <3>2, <4>2, <4>3
    <3>4. f \in from .. m - 1 /\ f \in 1 .. DataLen(demo) /\ m \in f .. DataLen(demo) /\ f \in Int
      BY <2>3, <2>6, <2>8, <3>1, <3>3
    <3>5. Wanted(demo, f, end_tick) = f .. m - 1
      <4>1. \A k \in f .. m - 1 : demo[k].cmd # "STOP" /\ demo[k].tick <= end_tick
        BY <2>5, <2>8, <3>4
      <4> QED BY <2>1, <2>5, <3>4, <4>1, WantedIs
    <3> DEFINE i0 == f - from + 1
    <3>6. i0 \in 1 .. m - from /\ i0 \in Int /\ straight[i0] = f
      BY <2>8, <3>4
    <3>7. \A i \in 1 .. m - from : full(i) => i <= i0
      <4> SUFFICES ASSUME NEW i \in 1 .. m - from, full(i) PROVE i <= i0
        OBVIOUS
      <4>1. straight[i] \in from .. m - 1 /\ straight[i] = from + i - 1
        BY <2>8
      <4>2. straight[i] \in F
        BY <2>7, <4>1
      <4>3. straight[i] <= f
        BY <3>1, <4>2
      <4> QED BY <2>8, <3>4, <4>1, <4>3
    <3>8. full(i0)
      BY <3>2, <3>6
    <3>9. kept = {i0}
      <4> HIDE DEF full, i0
      <4>1. i0 \in kept
        BY <2>8, <3>6, <3>7, <3>8
      <4>2. ASSUME NEW i \in kept PROVE i = i0
        <5>1. i \in 1 .. m - from /\ full(i) /\ \A j \in i + 1 .. m - from : ~full(j)
          BY <2>8
        <5> QED BY <2>8, <3>6, <3>7, <3>8, <5>1
      <4> QED BY <4>1, <4>2
    <3>10. tail(i0) = InOrder(f .. m - 1)
      <4>1. /\ InOrder(f .. m - 1) \in Seq(Int) /\ Len(InOrder(f .. m - 1)) = m - f
            /\ \A i \in 1 .. m - f : InOrder(f .. m - 1)[i] = f + i - 1
        <5>1. f <= (m - 1) + 1 /\ m - 1 \in Int /\ (m - 1) - f + 1 = m - f
          BY <2>8, <3>4
        <5> QED BY <3>4, <5>1, InOrderInterval
      <4>2. /\ tail(i0) \in Seq(Int) /\ Len(tail(i0)) = m - f
            /\ \A i \in 1 .. m - f : tail(i0)[i] = straight[i0 + i - 1]
        BY <2>8, <3>4, <3>6
      <4>3. \A i \in 1 .. m - f : straight[i0 + i - 1] = f + i - 1
        BY <2>8, <3>4
      <4> HIDE DEF tail, i0
      <4>4. \A i \in 1 .. Len(tail(i0)) : tail(i0)[i] = InOrder(f .. m - 1)[i]
        BY <4>1, <4>2, <4>3
      <4> QED BY <4>1, <4>2, <4>4, SeqEqual
    <3>11. kept # {} /\ (CHOOSE i \in kept : TRUE) = i0
      <4> HIDE DEF kept, i0
      <4> QED BY <3>9
    <3>12. applied = SignonCommands \o tail(i0)
      BY <2>2, <3>1, <3>5, <3>10
    <3> HIDE DEF kept, tail, i0
    <3>13. applied = SignonCommands \o
                       (IF kept = {} THEN straight ELSE tail(CHOOSE i \in kept : TRUE))
      <4>1. tail(CHOOSE i \in kept : TRUE) = tail(i0)
        BY <3>11
      <4>2. (IF kept = {} THEN straight ELSE tail(CHOOSE i \in kept : TRUE)) = tail(i0)
        BY <3>11, <4>1
      <4> QED BY <3>12, <4>2
    <3> QED BY <3>13 DEF kept, tail, straight, from
  <2> QED BY <2>9, <2>10, <2>11
<1>2. IInv /\ SeekInv => SeekIsStraightSuffix
  BY <1>1 DEF SeekIsStraightSuffix
<1> QED BY <1>2, IInvHolds, SeekHolds, PTL

----------------------------------------------------------------------------
(* The index and the ticks of a run.                                       *)

(* The rank of a greater element is greater. *)
LEMMA RanksGrow ==
  ASSUME NEW S, S \subseteq Int, IsFiniteSet(S), NEW k \in S, NEW l \in S, k < l
  PROVE  /\ Cardinality({j \in S : j <= k}) \in Nat /\ Cardinality({j \in S : j <= l}) \in Nat
         /\ Cardinality({j \in S : j <= k}) < Cardinality({j \in S : j <= l})
<1> DEFINE low  == {j \in S : j <= k}
           more == {j \in S : j <= l}
<1>1. low \subseteq S /\ more \subseteq S /\ l \notin low /\ k \in Int /\ l \in Int
  OBVIOUS
<1>2. low \cup {l} \subseteq more
  <2>1. \A j \in low : j \in S /\ j <= l
    BY <1>1
  <2>2. l \in more
    BY <1>1
  <2> QED BY <2>1, <2>2
<1> HIDE DEF low, more
<1>3. IsFiniteSet(low) /\ IsFiniteSet(more)
  BY <1>1, FS_Subset
<1>4. /\ Cardinality(low) \in Nat /\ Cardinality(more) \in Nat
      /\ Cardinality(low \cup {l}) = Cardinality(low) + 1
  BY <1>1, <1>3, FS_AddElement, FS_CardinalityType
<1>5. Cardinality(low \cup {l}) <= Cardinality(more)
  BY <1>2, <1>3, FS_Subset
<1> QED BY <1>4, <1>5 DEF low, more

(* InOrder holds every element once, in ascending order. *)
LEMMA InOrderAscends ==
  ASSUME NEW S, S \subseteq Int, IsFiniteSet(S)
  PROVE  LET n == Cardinality(S)
         IN  /\ n \in Nat /\ DOMAIN InOrder(S) = 1 .. n
             /\ \A i \in 1 .. n : InOrder(S)[i] \in S /\ AtRank(S, i) = {InOrder(S)[i]}
             /\ \A i, j \in 1 .. n : i < j => InOrder(S)[i] < InOrder(S)[j]
             /\ \A k \in S : \E i \in 1 .. n : InOrder(S)[i] = k
<1> DEFINE n == Cardinality(S)
           rank(k) == Cardinality({j \in S : j <= k})
<1>1. n \in Nat /\ \A i \in 1 .. n : AtRank(S, i) # {} /\ AtRank(S, i) \subseteq S
  BY EveryRank
<1>2. \A i \in 1 .. n : \A k \in AtRank(S, i) : k \in S /\ rank(k) = i
  BY DEF AtRank
<1>3. \A k, l \in S : k < l => rank(k) < rank(l) /\ rank(k) \in Nat /\ rank(l) \in Nat
  BY RanksGrow
<1>4. DOMAIN InOrder(S) = 1 .. n /\ \A i \in 1 .. n : InOrder(S)[i] = CHOOSE k \in AtRank(S, i) : TRUE
  BY DEF InOrder
<1> HIDE DEF n, rank
<1>5. ASSUME NEW i \in 1 .. n
      PROVE  InOrder(S)[i] \in S /\ AtRank(S, i) = {InOrder(S)[i]} /\ rank(InOrder(S)[i]) = i
  <2>1. InOrder(S)[i] \in AtRank(S, i)
    BY <1>1, <1>4
  <2> DEFINE v == InOrder(S)[i]
  <2>2. v \in S /\ rank(v) = i
    BY <1>2, <2>1
  <2>3. ASSUME NEW k \in AtRank(S, i) PROVE k = v
    <3>1. k \in S /\ rank(k) = i
      BY <1>2
    <3> HIDE DEF v
    <3>2. ~(k < v) /\ ~(v < k)
      BY <1>3, <2>2, <3>1
    <3> QED BY <2>2, <3>1, <3>2
  <2> HIDE DEF v
  <2>4. v \in AtRank(S, i)
    BY <2>1 DEF v
  <2>5. AtRank(S, i) = {v}
    BY <2>3, <2>4
  <2> QED BY <2>2, <2>5 DEF v
<1>6. ASSUME NEW i \in 1 .. n, NEW j \in 1 .. n, i < j
      PROVE  InOrder(S)[i] < InOrder(S)[j]
  <2> DEFINE v == InOrder(S)[i]
             w == InOrder(S)[j]
  <2>1. v \in S /\ w \in S /\ rank(v) = i /\ rank(w) = j
    BY <1>5
  <2> HIDE DEF v, w
  <2>2. v # w /\ ~(w < v)
    BY <1>3, <1>6, <2>1
  <2>3. v < w
    BY <2>1, <2>2
  <2> QED BY <2>3 DEF v, w
<1>7. ASSUME NEW k \in S
      PROVE  \E i \in 1 .. n : InOrder(S)[i] = k
  <2>1. rank(k) \in 1 .. n
    <3> DEFINE low == {j \in S : j <= k}
    <3>1. low \subseteq S /\ k \in low
      OBVIOUS
    <3> HIDE DEF low
    <3>2. IsFiniteSet(low) /\ Cardinality(low) \in Nat /\ Cardinality(low) # 0
          /\ Cardinality(low) <= n
      BY <3>1, FS_Subset, FS_CardinalityType, FS_EmptySet DEF n
    <3> QED BY <1>1, <3>2 DEF rank, low
  <2>2. k \in AtRank(S, rank(k))
    BY DEF AtRank, rank
  <2> QED BY <1>5, <2>1, <2>2
<1> QED BY <1>1, <1>4, <1>5, <1>6, <1>7 DEF n

(* Only one sequence holds every element of a set once and ascends. *)
LEMMA AscendingIsInOrder ==
  ASSUME NEW T, T \subseteq Int, IsFiniteSet(T), NEW n \in Nat,
         NEW s \in [1 .. n -> T],
         \A i, j \in 1 .. n : i < j => s[i] < s[j],
         \A v \in T : \E i \in 1 .. n : s[i] = v
  PROVE  s = InOrder(T)
<1> DEFINE upto(i) == {v \in T : v <= s[i]}
<1>1. \A i \in 1 .. n : s[i] \in Int /\ s[i] \in T
  OBVIOUS
<1>2. s \in Bijection(1 .. n, T)
  <2>1. ASSUME NEW i \in 1 .. n, NEW j \in 1 .. n, s[i] = s[j] PROVE i = j
    <3>1. ~(i < j) /\ ~(j < i)
      BY <1>1, <2>1
    <3> QED BY <3>1
  <2> QED BY <2>1 DEF Bijection, Injection, IsInjective, Surjection
<1>3. Cardinality(T) = n
  <2>1. ExistsBijection(1 .. n, T) /\ IsFiniteSet(1 .. n) /\ Cardinality(1 .. n) = n
    BY <1>2, FS_Interval DEF ExistsBijection
  <2> QED BY <2>1, FS_Bijection
<1>4. ASSUME NEW i \in 1 .. n PROVE Cardinality(upto(i)) = i
  <2> DEFINE g == [j \in 1 .. i |-> s[j]]
  <2>1. g \in [1 .. i -> upto(i)]
    <3>1. ASSUME NEW j \in 1 .. i PROVE s[j] \in T /\ s[j] <= s[i]
      <4>1. j \in 1 .. n /\ (j < i \/ j = i)
        OBVIOUS
      <4> QED BY <1>1, <4>1
    <3> QED BY <3>1
  <2>2. ASSUME NEW j \in 1 .. i, NEW k \in 1 .. i, g[j] = g[k] PROVE j = k
    <3>1. j \in 1 .. n /\ k \in 1 .. n /\ s[j] = s[k]
      BY <2>2
    <3>2. ~(j < k) /\ ~(k < j)
      BY <1>1, <3>1
    <3> QED BY <3>2
  <2>3. ASSUME NEW v \in upto(i) PROVE \E j \in 1 .. i : g[j] = v
    <3>1. PICK j \in 1 .. n : s[j] = v
      OBVIOUS
    <3>2. ~(i < j)
      BY <1>1, <2>3, <3>1
    <3>3. j \in 1 .. i
      BY <3>2
    <3> QED BY <3>1, <3>3
  <2> HIDE DEF g, upto
  <2>4. g \in Bijection(1 .. i, upto(i))
    BY <2>1, <2>2, <2>3 DEF Bijection, Injection, IsInjective, Surjection
  <2>5. ExistsBijection(1 .. i, upto(i)) /\ IsFiniteSet(1 .. i) /\ Cardinality(1 .. i) = i
    BY <2>4, FS_Interval DEF ExistsBijection
  <2> QED BY <2>5, FS_Bijection
<1>5. ASSUME NEW i \in 1 .. n PROVE AtRank(T, i) = {s[i]}
  <2>1. ASSUME NEW v \in AtRank(T, i) PROVE v = s[i]
    <3>1. PICK j \in 1 .. n : s[j] = v
      BY DEF AtRank
    <3>2. Cardinality(upto(j)) = i
      BY <3>1 DEF AtRank
    <3> HIDE DEF upto
    <3>3. j = i
      BY <1>4, <3>2
    <3> QED BY <3>1, <3>3
  <2>2. s[i] \in AtRank(T, i)
    BY <1>1, <1>4 DEF AtRank
  <2> QED BY <2>1, <2>2
<1>6. InOrder(T) = [i \in 1 .. n |-> CHOOSE k \in {s[i]} : TRUE]
  BY <1>3, <1>5 DEF InOrder
<1>7. \A i \in 1 .. n : (CHOOSE k \in {s[i]} : TRUE) = s[i]
  OBVIOUS
<1> QED BY <1>6, <1>7

(* A function that grows takes the elements in order to its values in      *)
(* order.                                                                  *)
LEMMA GrowingImage ==
  ASSUME NEW S, S \subseteq Int, IsFiniteSet(S), NEW f \in [S -> Int],
         \A k, l \in S : k < l => f[k] < f[l]
  PROVE  /\ [i \in DOMAIN InOrder(S) |-> f[InOrder(S)[i]]] = InOrder({f[k] : k \in S})
         /\ Cardinality({f[k] : k \in S}) = Cardinality(S)
<1> DEFINE T == {f[k] : k \in S}
           n == Cardinality(S)
<1>1. T \subseteq Int /\ f \in Bijection(S, T)
  <2>1. T \subseteq Int /\ f \in [S -> T] /\ \A v \in T : \E k \in S : f[k] = v
    OBVIOUS
  <2>2. ASSUME NEW k \in S, NEW l \in S, f[k] = f[l] PROVE k = l
    <3>1. ~(k < l) /\ ~(l < k) /\ k \in Int /\ l \in Int
      BY <2>2
    <3> QED BY <3>1
  <2> HIDE DEF T
  <2> QED BY <2>1, <2>2 DEF Bijection, Injection, IsInjective, Surjection
<1>2. IsFiniteSet(T) /\ Cardinality(T) = n
  <2> HIDE DEF T
  <2>1. ExistsBijection(S, T)
    BY <1>1 DEF ExistsBijection
  <2> QED BY <2>1, FS_Bijection
<1>3. /\ n \in Nat /\ DOMAIN InOrder(S) = 1 .. n
      /\ \A i \in 1 .. n : InOrder(S)[i] \in S
      /\ \A i, j \in 1 .. n : i < j => InOrder(S)[i] < InOrder(S)[j]
      /\ \A k \in S : \E i \in 1 .. n : InOrder(S)[i] = k
  BY InOrderAscends
<1> DEFINE s == [i \in 1 .. n |-> f[InOrder(S)[i]]]
<1>4. /\ s \in [1 .. n -> T]
      /\ \A i, j \in 1 .. n : i < j => s[i] < s[j]
      /\ \A v \in T : \E i \in 1 .. n : s[i] = v
  <2>1. s \in [1 .. n -> T]
    BY <1>3
  <2>2. \A i, j \in 1 .. n : i < j => s[i] < s[j]
    BY <1>3
  <2>3. \A v \in T : \E i \in 1 .. n : s[i] = v
    BY <1>3
  <2> QED BY <2>1, <2>2, <2>3
<1> HIDE DEF s, T, n
<1>5. s = InOrder(T)
  BY <1>1, <1>2, <1>3, <1>4, AscendingIsInOrder
<1> QED BY <1>2, <1>3, <1>5 DEF s, T, n

(* From the synchronization point on, the ticks of a demo do not descend. *)
Ascends(d) ==
  \A i, j \in DOMAIN d : StreamStart(d) <= i /\ i < j => d[i].tick <= d[j].tick

TimedOf(d) == {k \in Streamed(d) : d[k].tick >= 0}
FreshOf(d) ==
  {k \in TimedOf(d) :
     \A j \in TimedOf(d) : j < k /\ (\A m \in TimedOf(d) : m <= j \/ m >= k)
                             => d[j].tick # d[k].tick}

LEMMA StreamedIs ==
  ASSUME NEW d \in Demos, StreamStart(d) # NoOffset
  PROVE  /\ StreamStart(d) \in 2 .. DataLen(d) /\ End(d, StreamStart(d)) \in Int
         /\ End(d, StreamStart(d)) <= Len(d)
         /\ Streamed(d) \subseteq StreamStart(d) .. End(d, StreamStart(d))
         /\ IsFiniteSet(Streamed(d)) /\ Streamed(d) \subseteq Int
<1> DEFINE from == StreamStart(d)
           e    == End(d, from)
<1>1. /\ from \in 2 .. DataLen(d) /\ DataLen(d) = Len(d) + 1 /\ Len(d) \in Nat
      /\ DOMAIN d = 1 .. Len(d)
  BY StreamStartIs, DemoTypes
<1>2. from \in 1 .. DataLen(d) /\ from \in Int
  BY <1>1
<1> HIDE DEF from
<1>3. e \in Int /\ e <= Len(d)
  <2>1. \A k \in from .. from - 1 : d[k].cmd # "STOP"
    BY <1>2
  <2> QED BY <1>2, <2>1, EndIs
<1>4. ASSUME NEW k \in Streamed(d) PROVE k \in from .. e
  <2>1. k \in 1 .. Len(d) /\ k >= from /\ \A j \in 1 .. k : d[j].cmd # "STOP"
    BY <1>1 DEF Streamed, Indexed, from
  <2>2. /\ k + 1 \in from .. DataLen(d)
        /\ \A j \in from .. (k + 1) - 1 : d[j].cmd # "STOP"
    BY <1>1, <2>1
  <2>3. (k + 1) - 1 <= e
    BY <1>2, <2>2, EndIs
  <2> QED BY <1>2, <1>3, <2>1, <2>3
<1>5. IsFiniteSet(from .. e) /\ from .. e \subseteq Int
  BY <1>2, <1>3, FS_Interval
<1>6. IsFiniteSet(Streamed(d)) /\ Streamed(d) \subseteq Int
  BY <1>4, <1>5, FS_Subset
<1> QED BY <1>1, <1>3, <1>4, <1>6 DEF from

(* The ticks of the index ascend and are those of the stream. *)
LEMMA IndexedTicks ==
  ASSUME NEW d \in Demos, StreamStart(d) # NoOffset, Ascends(d)
  PROVE  DistinctTicks(d) = InOrder({d[k].tick : k \in TimedOf(d)})
<1> DEFINE timed == TimedOf(d)
           fresh == FreshOf(d)
           from  == StreamStart(d)
           f     == [k \in fresh |-> d[k].tick]
<1>1. /\ timed \subseteq 1 .. Len(d) /\ Len(d) \in Nat /\ from \in Int
      /\ \A k \in timed : k >= from
      /\ IsFiniteSet(timed) /\ timed \subseteq Int /\ fresh \subseteq timed
      /\ \A k \in timed : d[k].tick \in Int
  <2>1. timed \subseteq Streamed(d) /\ fresh \subseteq timed
    BY DEF TimedOf, FreshOf
  <2>2. /\ StreamStart(d) \in 2 .. DataLen(d) /\ End(d, StreamStart(d)) \in Int
        /\ End(d, StreamStart(d)) <= Len(d)
        /\ Streamed(d) \subseteq StreamStart(d) .. End(d, StreamStart(d))
        /\ IsFiniteSet(Streamed(d)) /\ Streamed(d) \subseteq Int
    BY StreamedIs
  <2>3. /\ Len(d) \in Nat /\ DataLen(d) = Len(d) + 1
        /\ \A k \in 1 .. Len(d) : d[k].tick \in Int
    BY DemoTypes
  <2> HIDE DEF timed, fresh
  <2>4. \A k \in Streamed(d) : k \in 1 .. Len(d) /\ k >= from
    BY <2>2, <2>3
  <2>5. IsFiniteSet(timed)
    BY <2>1, <2>2, FS_Subset
  <2> QED BY <2>1, <2>2, <2>3, <2>4, <2>5
<1>2. \A k, l \in timed : k < l => d[k].tick <= d[l].tick
  <2> SUFFICES ASSUME NEW k \in timed, NEW l \in timed, k < l PROVE d[k].tick <= d[l].tick
    OBVIOUS
  <2>1. k \in DOMAIN d /\ l \in DOMAIN d /\ from <= k
    BY <1>1, DemoTypes
  <2> QED BY <2>1 DEF Ascends
<1>3. \A k \in fresh : \A j \in timed :
        j < k /\ (\A m \in timed : m <= j \/ m >= k) => d[j].tick # d[k].tick
  BY DEF FreshOf
<1>4. \A k \in timed :
        (\A j \in timed : j < k /\ (\A m \in timed : m <= j \/ m >= k) => d[j].tick # d[k].tick)
          => k \in fresh
  BY DEF FreshOf
<1>5. DistinctTicks(d) = [i \in DOMAIN InOrder(fresh) |-> d[InOrder(fresh)[i]].tick]
  BY DEF DistinctTicks, FreshOf, TimedOf
<1> HIDE DEF timed, fresh, from
<1>6. IsFiniteSet(fresh) /\ fresh \subseteq Int
  BY <1>1, FS_Subset
<1>7. f \in [fresh -> Int] /\ \A k, l \in fresh : k < l => f[k] < f[l]
  <2>1. f \in [fresh -> Int]
    BY <1>1
  <2>2. ASSUME NEW k \in fresh, NEW l \in fresh, k < l PROVE d[k].tick < d[l].tick
    <3> DEFINE low == {m \in timed : m < l}
    <3>1. /\ low \subseteq timed /\ k \in low /\ k \in timed /\ l \in timed
      BY <1>1, <2>2
    <3>2. PICK j \in low : \A m \in low : m <= j
      <4> HIDE DEF low
      <4>1. IsFiniteSet(low) /\ low \subseteq Int /\ low # {}
        BY <1>1, <3>1, FS_Subset
      <4> QED BY <4>1, Extremes
    <3>3. j \in timed /\ j < l /\ \A m \in timed : m <= j \/ m >= l
      <4>1. \A m \in timed : m < l => m <= j
        BY <3>2
      <4>2. \A m \in timed : m < l \/ m >= l
        BY <1>1, <3>1
      <4> QED BY <3>2, <4>1, <4>2
    <3>4. d[j].tick # d[l].tick
      BY <1>3, <3>3
    <3>5. k <= j
      BY <3>1, <3>2
    <3>6. k = j \/ k < j
      BY <1>1, <3>1, <3>3, <3>5
    <3> HIDE DEF low
    <3>7. d[k].tick <= d[j].tick /\ d[j].tick <= d[l].tick
      <4>1. d[j].tick <= d[l].tick
        BY <1>2, <3>1, <3>3
      <4>2. CASE k = j
        BY <1>1, <3>1, <4>1, <4>2
      <4>3. CASE k < j
        BY <1>2, <3>1, <3>3, <4>1, <4>3
      <4> QED BY <3>6, <4>2, <4>3
    <3>8. d[k].tick \in Int /\ d[j].tick \in Int /\ d[l].tick \in Int
      BY <1>1, <3>1, <3>3
    <3> QED BY <3>4, <3>7, <3>8
  <2> QED BY <2>1, <2>2
<1>8. {f[k] : k \in fresh} = {d[k].tick : k \in timed}
  <2>1. ASSUME NEW k \in timed PROVE \E j \in fresh : d[j].tick = d[k].tick
    <3> DEFINE same == {j \in timed : d[j].tick = d[k].tick}
    <3>1. same \subseteq timed /\ k \in same
      OBVIOUS
    <3>2. PICK j \in same : \A m \in same : j <= m
      <4> HIDE DEF same
      <4>1. IsFiniteSet(same) /\ same \subseteq Int /\ same # {}
        BY <1>1, <3>1, FS_Subset
      <4> QED BY <4>1, Extremes
    <3>3. \A m \in timed : m < j => d[m].tick # d[j].tick
      <4> SUFFICES ASSUME NEW m \in timed, m < j, d[m].tick = d[j].tick PROVE FALSE
        OBVIOUS
      <4>1. m \in same
        OBVIOUS
      <4>2. j <= m /\ m \in Int /\ j \in Int
        BY <1>1, <3>1, <3>2, <4>1
      <4> QED BY <4>2
    <3>4. j \in fresh
      BY <1>4, <3>2, <3>3
    <3> QED BY <3>4
  <2>2. \A k \in fresh : f[k] = d[k].tick
    OBVIOUS
  <2>3. {f[k] : k \in fresh} = {d[k].tick : k \in fresh}
    BY <2>2
  <2> QED BY <1>1, <2>1, <2>3
<1>9. [i \in DOMAIN InOrder(fresh) |-> f[InOrder(fresh)[i]]] = InOrder({f[k] : k \in fresh})
  <2> HIDE DEF f
  <2> QED BY <1>6, <1>7, GrowingImage
<1>10. \A i \in DOMAIN InOrder(fresh) : InOrder(fresh)[i] \in fresh
  BY <1>6, InOrderAscends
<1>11. DistinctTicks(d) = [i \in DOMAIN InOrder(fresh) |-> f[InOrder(fresh)[i]]]
  BY <1>5, <1>10
<1> HIDE DEF f
<1>12. DistinctTicks(d) = InOrder({d[k].tick : k \in timed})
  BY <1>8, <1>9, <1>11
<1> QED BY <1>12 DEF timed

(* So are those of a run, but for the ticks of a STOP or a SYNC alone. *)
LEMMA RunTicks ==
  ASSUME NEW d \in Demos, StreamStart(d) # NoOffset, Ascends(d)
  PROVE  LET ticks   == TicksOf(TicksBetween(d, StreamStart(d), DataLen(d)))
             indexed == {i \in DOMAIN ticks : \E k \in Streamed(d) : d[k].tick = ticks[i]}
         IN  Picked(ticks, indexed) = InOrder({d[k].tick : k \in TimedOf(d)})
<1> DEFINE from    == StreamStart(d)
           e       == End(d, from)
           C       == Closings(d, from)
           n       == Cardinality(C)
           ticks   == TicksOf(TicksBetween(d, from, DataLen(d)))
           indexed == {i \in DOMAIN ticks : \E k \in Streamed(d) : d[k].tick = ticks[i]}
           timed   == TimedOf(d)
           f       == [i \in indexed |-> ticks[i]]
<1>1. /\ from \in 2 .. DataLen(d) /\ from \in 1 .. DataLen(d) /\ from \in Int
      /\ e \in Int /\ e <= Len(d) /\ Len(d) \in Nat /\ DOMAIN d = 1 .. Len(d)
      /\ Streamed(d) \subseteq from .. e
      /\ \A k \in 1 .. Len(d) : d[k].tick \in Int
  BY StreamedIs, DemoTypes
<1>2. C = {k \in from .. e : d[k].tick >= 0 /\ (k = e \/ d[k + 1].tick # d[k].tick)}
  BY DEF Closings, Closes
<1>3. timed = {k \in Streamed(d) : d[k].tick >= 0}
  BY DEF TimedOf
<1>4. ASSUME NEW k \in from .. e, NEW l \in from .. e, k < l
      PROVE  d[k].tick <= d[l].tick
  <2>1. k \in DOMAIN d /\ l \in DOMAIN d /\ StreamStart(d) <= k
    <3> HIDE DEF e
    <3> QED BY <1>1
  <2> QED BY <1>4, <2>1 DEF Ascends
<1>5. \A k \in from .. e : d[k].tick \in Int
  BY <1>1
<1>6. C \subseteq Int /\ IsFiniteSet(C)
  <2>1. C \subseteq from .. e
    BY <1>2
  <2>2. IsFiniteSet(from .. e) /\ from .. e \subseteq Int
    BY <1>1, FS_Interval
  <2> HIDE DEF C
  <2> QED BY <2>1, <2>2, FS_Subset
<1>7. TicksBetween(d, from, DataLen(d)) =
        [i \in DOMAIN InOrder(C) |-> ClosedTick(d, from, InOrder(C)[i])]
  BY DEF TicksBetween, TicksClosedBy, Closings, End, ClosedTick
<1> HIDE DEF C, e, from
<1>8. /\ n \in Nat /\ DOMAIN InOrder(C) = 1 .. n
      /\ \A i \in 1 .. n : InOrder(C)[i] \in C
      /\ \A i, j \in 1 .. n : i < j => InOrder(C)[i] < InOrder(C)[j]
      /\ \A k \in C : \E i \in 1 .. n : InOrder(C)[i] = k
  BY <1>6, InOrderAscends
<1> HIDE DEF n
<1>9. DOMAIN ticks = 1 .. n /\ \A i \in 1 .. n : ticks[i] = d[InOrder(C)[i]].tick
  BY <1>7, <1>8 DEF TicksOf, ClosedTick
<1> HIDE DEF ticks
<1>10. ASSUME NEW k \in C, NEW l \in C, k < l PROVE d[k].tick < d[l].tick
  <2>1. /\ k \in from .. e /\ l \in from .. e /\ k + 1 \in from .. e
        /\ d[k + 1].tick # d[k].tick /\ (k + 1 = l \/ k + 1 < l) /\ k < k + 1
    BY <1>1, <1>2, <1>10
  <2>2. d[k].tick \in Int /\ d[k + 1].tick \in Int /\ d[l].tick \in Int
    BY <1>5, <2>1
  <2>3. d[k].tick < d[k + 1].tick
    BY <1>4, <2>1, <2>2
  <2>4. CASE k + 1 = l
    BY <2>3, <2>4
  <2>5. CASE k + 1 < l
    <3>1. d[k + 1].tick <= d[l].tick
      BY <1>4, <2>1, <2>5
    <3> QED BY <2>2, <2>3, <3>1
  <2> QED BY <2>1, <2>4, <2>5
<1>11. \A i \in 1 .. n : ticks[i] \in Int
  BY <1>2, <1>5, <1>8, <1>9
<1>12. \A i, j \in 1 .. n : i < j => ticks[i] < ticks[j]
  BY <1>8, <1>9, <1>10
<1>13. indexed \subseteq 1 .. n /\ IsFiniteSet(indexed) /\ indexed \subseteq Int
  <2>1. indexed \subseteq 1 .. n
    BY <1>9
  <2>2. IsFiniteSet(1 .. n) /\ 1 .. n \subseteq Int
    BY <1>8, FS_Interval
  <2> HIDE DEF indexed
  <2> QED BY <2>1, <2>2, FS_Subset
<1>14. {ticks[i] : i \in indexed} = {d[k].tick : k \in timed}
  <2>1. ASSUME NEW i \in indexed PROVE \E k \in timed : d[k].tick = ticks[i]
    <3>1. i \in 1 .. n /\ \E k \in Streamed(d) : d[k].tick = ticks[i]
      BY <1>9
    <3>2. ticks[i] >= 0
      BY <1>2, <1>8, <1>9, <3>1
    <3> QED BY <1>3, <3>1, <3>2
  <2>2. ASSUME NEW k \in timed PROVE \E i \in indexed : ticks[i] = d[k].tick
    <3> DEFINE same == {j \in from .. e : d[j].tick = d[k].tick}
    <3>1. k \in same /\ k \in Streamed(d) /\ d[k].tick >= 0
      BY <1>1, <1>3
    <3>2. PICK j \in same : \A m \in same : m <= j
      <4>1. same \subseteq from .. e
        OBVIOUS
      <4>2. IsFiniteSet(from .. e) /\ from .. e \subseteq Int
        BY <1>1, FS_Interval
      <4> HIDE DEF same
      <4>3. IsFiniteSet(same) /\ same \subseteq Int /\ same # {}
        BY <3>1, <4>1, <4>2, FS_Subset
      <4> QED BY <4>3, Extremes
    <3>3. j = e \/ d[j + 1].tick # d[j].tick
      <4> SUFFICES ASSUME j # e, d[j + 1].tick = d[j].tick PROVE FALSE
        OBVIOUS
      <4>1. j \in from .. e /\ d[j].tick = d[k].tick
        BY <3>2
      <4>2. j + 1 \in same
        BY <1>1, <4>1
      <4>3. j + 1 <= j
        BY <3>2, <4>2
      <4> QED BY <1>1, <4>1, <4>3
    <3>4. j \in C /\ d[j].tick = d[k].tick
      BY <1>2, <3>1, <3>2, <3>3
    <3>5. PICK i \in 1 .. n : InOrder(C)[i] = j
      BY <1>8, <3>4
    <3>6. ticks[i] = d[k].tick /\ i \in DOMAIN ticks
      BY <1>9, <3>4, <3>5
    <3>7. i \in indexed
      BY <3>1, <3>6
    <3> QED BY <3>6, <3>7
  <2> HIDE DEF indexed, timed
  <2> QED BY <2>1, <2>2
<1> HIDE DEF indexed, timed
<1>15. f \in [indexed -> Int] /\ \A k, l \in indexed : k < l => f[k] < f[l]
  BY <1>11, <1>12, <1>13
<1>16. [i \in DOMAIN InOrder(indexed) |-> f[InOrder(indexed)[i]]] = InOrder({f[i] : i \in indexed})
  <2> HIDE DEF f
  <2> QED BY <1>13, <1>15, GrowingImage
<1>17. \A i \in DOMAIN InOrder(indexed) : InOrder(indexed)[i] \in indexed
  BY <1>13, InOrderAscends
<1>18. Picked(ticks, indexed) = [i \in DOMAIN InOrder(indexed) |-> f[InOrder(indexed)[i]]]
  BY <1>17 DEF Picked
<1>19. {f[i] : i \in indexed} = {ticks[i] : i \in indexed}
  <2>1. \A i \in indexed : f[i] = ticks[i]
    OBVIOUS
  <2> HIDE DEF f
  <2> QED BY <2>1
<1> HIDE DEF f
<1>20. Picked(ticks, indexed) = InOrder({d[k].tick : k \in timed})
  BY <1>14, <1>16, <1>18, <1>19
<1> QED BY <1>20 DEF indexed, ticks, timed, from

RunInv ==
  mode = "run" /\ started # NoOffset =>
    /\ end_tick = NoTick
    /\ phase = "done" => cursor = DataLen(demo)

(* A run goes on to the end of the data or to a STOP. *)
LEMMA RunHolds == Spec => []RunInv
<1>1. Init => RunInv
  BY DEF Init, RunInv
<1>2. IInv /\ RunInv /\ [Next]_vars => RunInv'
  <2> SUFFICES ASSUME IInv, RunInv, [Next]_vars, mode' = "run" PROVE RunInv'
    BY DEF RunInv
  <2>1. CASE RunToEnd
    <3>1. demo' = demo /\ ReplayOrReturn(StreamStart(demo), NoTick) /\ started = NoOffset
      BY <2>1 DEF RunToEnd, IInv, Control
    <3>2. CASE StreamStart(demo) = NoOffset
      BY <3>1, <3>2 DEF ReplayOrReturn, replay, RunInv
    <3>3. CASE StreamStart(demo) # NoOffset
      BY <3>1, <3>3 DEF ReplayOrReturn, Replay, RunInv
    <3> QED BY <3>2, <3>3
  <2>2. CASE ReplayCommand
    BY <2>2 DEF ReplayCommand, RunInv
  <2>3. CASE ReplayStop
    BY <2>3 DEF ReplayStop, Return, RunInv
  <2>4. CASE ReplayEnd
    BY <2>4 DEF ReplayEnd, Return, ReplayOver, AtEnd, RunInv
  <2>5. CASE FailReplay
    <3>1. phase' = "failed" /\ UNCHANGED <<demo, mode, started, end_tick>>
      BY <2>5 DEF FailReplay, Fails, replay
    <3> QED BY <3>1 DEF RunInv
  <2>6. CASE UNCHANGED vars
    BY <2>6 DEF vars, replay, RunInv
  <2>7. CASE SignonStep \/ FailSignon
    BY <2>7, SignonStepInv
  <2>8. CASE \/ (\E t \in Targets : ParseToTick(t))
             \/ (\E n \in Budgets : PlanSegments(n)) \/ DecodeSegment
             \/ (\E t \in Targets : CheckpointThrough(t)) \/ (\E t \in Targets : ReplayThrough(t))
    BY <2>8 DEF ParseToTick, PlanSegments, DecodeSegment, CheckpointThrough, ReplayThrough
  <2> QED BY <2>1, <2>2, <2>3, <2>4, <2>5, <2>6, <2>7, <2>8 DEF Next, ReplayStep
<1> QED BY <1>1, <1>2, IInvHolds, PTL DEF Spec

(* distinct_ticks(), read from headers alone, predicts the callbacks of a  *)
(* run to the end of any demo whose ticks do not descend.                  *)
THEOREM IndexPredictsTicksHolds == Spec => []IndexPredictsTicks
<1>1. ASSUME IInv, RunInv, CallbacksAreTicks, Returned("run"), TicksAscend
      PROVE  LET ticks   == TicksOf(Told)
                 indexed == {i \in DOMAIN ticks : \E k \in Streamed(demo) : demo[k].tick = ticks[i]}
             IN  Picked(ticks, indexed) = DistinctTicks(demo)
  <2>1. /\ demo \in Demos /\ StreamStart(demo) # NoOffset
        /\ Told = TicksBetween(demo, StreamStart(demo), DataLen(demo))
    BY <1>1 DEF Returned, IInv, TypeInv, Control, RunInv, CallbacksAreTicks
  <2>2. Ascends(demo)
    BY <1>1 DEF TicksAscend, Ascends
  <2> QED BY <2>1, <2>2, IndexedTicks, RunTicks
<1>2. IInv /\ RunInv /\ CallbacksAreTicks => IndexPredictsTicks
  BY <1>1 DEF IndexPredictsTicks
<1> QED BY <1>2, IInvHolds, RunHolds, CallbacksAreTicksHolds, PTL
----------------------------------------------------------------------------
(* The segments of a plan.                                                 *)

LEMMA QuotientIs ==
  ASSUME NEW a \in Nat, NEW b \in Nat \ {0}
  PROVE  a \div b \in Nat /\ b * (a \div b) <= a /\ a < b * ((a \div b) + 1)
OBVIOUS

LEMMA TimesMonotone ==
  ASSUME NEW a \in Nat, NEW b \in Nat, NEW c \in Nat, a <= b
  PROVE  c * a <= c * b
<1>1. PICK e \in Nat : b = a + e
  <2>1. b - a \in Nat /\ b = a + (b - a)
    OBVIOUS
  <2> QED BY <2>1
<1>2. c * b = c * a + c * e /\ c * e \in Nat /\ c * a \in Nat
  BY <1>1
<1> QED BY <1>2

(* Boundaries split the intervals into as many parts, none of them empty.  *)
LEMMA BoundaryIs ==
  ASSUME NEW n \in Nat, NEW count \in 1 .. n, NEW s \in 1 .. count - 1
  PROVE  /\ Boundary(n, count, s) \in 1 .. n - 1
         /\ s + 1 <= count - 1 => Boundary(n, count, s) < Boundary(n, count, s + 1)
<1> DEFINE q(t) == (t * n) \div count
<1>1. \A t \in Nat : /\ q(t) \in Nat /\ t * n \in Nat
                     /\ count * q(t) <= t * n /\ t * n < count * (q(t) + 1)
  <2>1. ASSUME NEW t \in Nat PROVE t * n \in Nat
    OBVIOUS
  <2> QED BY <2>1, QuotientIs
<1> HIDE DEF q
<1>2. n \in Int /\ count \in Int /\ s \in Nat /\ s + 1 \in Nat /\ 1 <= s /\ s < count /\ count <= n /\ 0 < count
  OBVIOUS
<1>3. 1 <= q(s)
  <2>1. n <= s * n
    BY <1>2
  <2>2. q(s) # 0
    <3> SUFFICES ASSUME q(s) = 0 PROVE FALSE
      OBVIOUS
    <3>1. s * n < count * 1
      BY <1>1, <1>2
    <3> QED BY <1>2, <2>1, <3>1
  <2> QED BY <1>1, <1>2, <2>2
<1>4. q(s) < n
  <2> SUFFICES ASSUME n <= q(s) PROVE FALSE
    BY <1>1, <1>2
  <2>1. count * n <= count * q(s) /\ count \in Nat
    <3>1. n \in Nat /\ q(s) \in Nat /\ count \in Nat
      BY <1>1, <1>2
    <3> QED BY <3>1, TimesMonotone
  <2>2. s * n < count * n
    BY <1>2
  <2>3. count * q(s) <= s * n
    BY <1>1, <1>2
  <2> DEFINE a == count * n
             b == s * n
             c == count * q(s)
  <2>4. a \in Int /\ b \in Int /\ c \in Int
    BY <1>1, <1>2, <2>1
  <2> HIDE DEF a, b, c
  <2>5. a <= c /\ b < a /\ c <= b
    BY <2>1, <2>2, <2>3 DEF a, b, c
  <2> QED BY <2>4, <2>5
<1>5. q(s) < q(s + 1)
  <2> SUFFICES ASSUME q(s + 1) <= q(s) PROVE FALSE
    BY <1>1, <1>2
  <2>1. count * (q(s + 1) + 1) <= count * (q(s) + 1)
    <3>1. /\ q(s + 1) + 1 \in Nat /\ q(s) + 1 \in Nat /\ count \in Nat
          /\ q(s + 1) + 1 <= q(s) + 1
      BY <1>1, <1>2
    <3> QED BY <3>1, TimesMonotone
  <2>2. count * (q(s) + 1) = count * q(s) + count
    BY <1>1, <1>2
  <2>3. (s + 1) * n = s * n + n
    BY <1>2
  <2>4. (s + 1) * n < count * (q(s + 1) + 1)
    BY <1>1, <1>2
  <2> DEFINE a == s * n
             b == (s + 1) * n
             e == count * (q(s + 1) + 1)
             f == count * (q(s) + 1)
             g == count * q(s)
  <2>5. a \in Int /\ b \in Int /\ e \in Int /\ f \in Int /\ g \in Int
    BY <1>1, <1>2
  <2>6. e <= f /\ f = g + count /\ b = a + n /\ b < e /\ g <= a
    BY <1>1, <1>2, <2>1, <2>2, <2>3, <2>4
  <2> HIDE DEF a, b, e, f, g
  <2> QED BY <1>2, <2>5, <2>6
<1> QED BY <1>1, <1>2, <1>3, <1>4, <1>5 DEF q, Boundary

(* The full packets of the stream, and what a plan makes of them.          *)
Keyframes(d) == {k \in Streamed(d) : d[k].cmd = "FULL"}

Partitions(d, p) ==
  /\ Len(p) \in Nat \ {0}
  /\ p[1].start = NoOffset /\ p[Len(p)].end = MaxTick
  /\ \A i \in 1 .. Len(p) - 1 :
       /\ p[i + 1].start \in Keyframes(d)
       /\ p[i].end = d[p[i + 1].start].tick
       /\ i > 1 => p[i].start < p[i + 1].start

LEMMA PlanPartitions ==
  ASSUME NEW d \in Demos, NEW budget \in Nat
  PROVE  Partitions(d, SegmentPlan(d, budget))
<1> DEFINE K     == Keyframes(d)
           m     == Cardinality(K)
           full  == InOrder(K)
           n     == m + 1
           count == SegmentCount(n, budget)
           at(s) == full[Boundary(n, count, s)]
           p     == SegmentPlan(d, budget)
<1>1. K \subseteq Int /\ IsFiniteSet(K)
  <2>1. Len(d) \in Nat /\ K \subseteq 1 .. Len(d)
    BY DemoTypes DEF Keyframes, Streamed, Indexed
  <2>2. 1 .. Len(d) \subseteq Int /\ IsFiniteSet(1 .. Len(d))
    BY <2>1, FS_Interval
  <2> HIDE DEF K
  <2> QED BY <2>1, <2>2, FS_Subset
<1>2. /\ m \in Nat /\ Len(full) = m
      /\ \A i \in 1 .. m : full[i] \in K
      /\ \A i, j \in 1 .. m : i < j => full[i] < full[j]
  <2> HIDE DEF K
  <2> QED BY <1>1, InOrderAscends, InOrderType
<1>3. p = [i \in 1 .. count |->
             [start |-> IF i = 1 THEN NoOffset ELSE at(i - 1),
              end   |-> IF i = count THEN MaxTick ELSE d[at(i)].tick]]
  <2>1. FullPackets(d) = full
    BY DEF FullPackets, Keyframes
  <2>2. Len(FullPackets(d)) + 1 = n
    BY <1>2, <2>1
  <2> HIDE DEF full, n
  <2> QED BY <2>1, <2>2 DEF SegmentPlan
<1> HIDE DEF K, m, full
<1>4. n \in Nat /\ count \in 1 .. n
  BY <1>2 DEF SegmentCount
<1> HIDE DEF n, count
<1>5. ASSUME NEW s \in 1 .. count - 1
      PROVE  /\ Boundary(n, count, s) \in 1 .. n - 1
             /\ s + 1 <= count - 1 => Boundary(n, count, s) < Boundary(n, count, s + 1)
  BY <1>4, BoundaryIs
<1>6. 1 .. n - 1 = 1 .. m
  <2>1. n - 1 = m
    BY <1>2 DEF n
  <2> QED BY <2>1
<1> DEFINE part == [s \in 1 .. count - 1 |-> Boundary(n, count, s)]
<1>7. \A s \in 1 .. count - 1 : part[s] = Boundary(n, count, s) /\ at(s) = full[part[s]]
  OBVIOUS
<1> HIDE DEF part, at
<1>8. ASSUME NEW s \in 1 .. count - 1
       PROVE  part[s] \in 1 .. m /\ (s + 1 <= count - 1 => part[s] < part[s + 1])
  <2>1. s + 1 <= count - 1 => s + 1 \in 1 .. count - 1
    BY <1>4
  <2>2. part[s] \in 1 .. n - 1 /\ (s + 1 <= count - 1 => Boundary(n, count, s) < Boundary(n, count, s + 1))
    BY <1>5, <1>7
  <2>3. part[s] = Boundary(n, count, s)
    BY <1>7
  <2>4. part[s] \in 1 .. m
    BY <1>6, <2>2
  <2>5. s + 1 <= count - 1 => part[s + 1] = Boundary(n, count, s + 1)
    BY <1>7, <2>1
  <2> QED BY <2>2, <2>3, <2>4, <2>5
<1>9. \A s \in 1 .. count - 1 : at(s) \in K /\ (s + 1 <= count - 1 => at(s) < at(s + 1))
  <2> SUFFICES ASSUME NEW s \in 1 .. count - 1
               PROVE  at(s) \in K /\ (s + 1 <= count - 1 => at(s) < at(s + 1))
    OBVIOUS
  <2>1. part[s] \in 1 .. m
    BY <1>8
  <2>2. ASSUME s + 1 <= count - 1 PROVE at(s) < at(s + 1)
    <3>1. s + 1 \in 1 .. count - 1
      BY <1>4, <2>2
    <3>2. part[s + 1] \in 1 .. m
      BY <1>8, <3>1
    <3>3. part[s] < part[s + 1]
      BY <1>8, <2>2
    <3> QED BY <1>2, <1>7, <2>1, <3>1, <3>2, <3>3
  <2> QED BY <1>2, <1>7, <2>1, <2>2
<1> HIDE DEF p
<1>10. Len(p) = count /\ \A i \in 1 .. count :
        /\ p[i].start = IF i = 1 THEN NoOffset ELSE at(i - 1)
        /\ p[i].end = IF i = count THEN MaxTick ELSE d[at(i)].tick
  BY <1>3, <1>4
<1>11. ASSUME NEW i \in 1 .. count - 1
      PROVE  /\ p[i + 1].start \in K
             /\ p[i].end = d[p[i + 1].start].tick
             /\ i > 1 => p[i].start < p[i + 1].start
  <2>1. i \in 1 .. count /\ i + 1 \in 1 .. count /\ i + 1 # 1 /\ (i + 1) - 1 = i /\ i # count
    BY <1>4
  <2>2. p[i + 1].start = at(i) /\ p[i].end = d[at(i)].tick
    BY <1>10, <2>1
  <2>3. ASSUME i > 1 PROVE p[i].start < p[i + 1].start
    <3>1. i - 1 \in 1 .. count - 1 /\ (i - 1) + 1 = i /\ i # 1 /\ i <= count - 1
      BY <1>4, <2>3
    <3>2. p[i].start = at(i - 1)
      BY <1>10, <2>1, <3>1
    <3>3. at(i - 1) < at((i - 1) + 1)
      BY <1>9, <3>1
    <3> QED BY <2>2, <3>1, <3>2, <3>3
  <2> QED BY <1>9, <2>2, <2>3
<1>12. count \in Nat \ {0} /\ 1 \in 1 .. count /\ count \in 1 .. count
  BY <1>4
<1>13. p[1].start = NoOffset /\ p[count].end = MaxTick
  BY <1>10, <1>12
<1> QED BY <1>10, <1>11, <1>12, <1>13 DEF Partitions, K, p

(* The ticks that are told once the commands before an offset are behind.  *)
TicksUpTo(d, at) == TicksOf(ToldUpTo(d, StreamStart(d), at))
TicksTold == TicksOf(ToldBy(delivered))

LEMMA TicksAppend ==
  ASSUME NEW told \in Seq(TickType), NEW t \in TickType
  PROVE  TicksOf(Append(told, t)) = Append(TicksOf(told), t.tick)
<1> DEFINE more == Append(told, t)
<1>1. /\ more \in Seq(TickType) /\ Len(more) = Len(told) + 1 /\ Len(told) \in Nat
      /\ more[Len(told) + 1] = t /\ \A i \in 1 .. Len(told) : more[i] = told[i]
      /\ DOMAIN more = 1 .. Len(told) + 1 /\ DOMAIN told = 1 .. Len(told)
  OBVIOUS
<1>2. \A i \in 1 .. Len(told) : told[i].tick \in Int
  <2>1. \A i \in 1 .. Len(told) : told[i] \in TickType
    OBVIOUS
  <2> QED BY <2>1 DEF TickType
<1>3. t.tick \in Int
  BY DEF TickType
<1> HIDE DEF more
<1>4. \A i \in 1 .. Len(told) + 1 : more[i].tick \in Int
  BY <1>1, <1>2, <1>3
<1> DEFINE old == TicksOf(told)
           new == TicksOf(more)
<1>5. /\ old \in Seq(Int) /\ Len(old) = Len(told)
      /\ \A i \in 1 .. Len(told) : old[i] = told[i].tick
  BY <1>1, <1>2 DEF TicksOf
<1>6. /\ new \in Seq(Int) /\ Len(new) = Len(told) + 1
      /\ \A i \in 1 .. Len(told) + 1 : new[i] = more[i].tick
  BY <1>1, <1>4 DEF TicksOf
<1> HIDE DEF old, new
<1>7. /\ \A i \in 1 .. Len(told) : new[i] = old[i]
      /\ new[Len(told) + 1] = t.tick
  BY <1>1, <1>5, <1>6
<1>8. new = Append(old, t.tick)
  BY <1>1, <1>5, <1>6, <1>7, OneMore
<1> QED BY <1>8 DEF old, new, more

(* A callback tells its tick, unless that is negative. *)
LEMMA TickTold ==
  ASSUME NEW calls \in Seq(CallbackType), NEW c \in CallbackType
  PROVE  TicksOf(ToldBy(Append(calls, c))) =
           IF c.tick >= 0 THEN Append(TicksOf(ToldBy(calls)), c.tick) ELSE TicksOf(ToldBy(calls))
<1>1. ToldBy(calls) \in Seq(TickType)
  BY ToldType
<1>2. Tells(c) \in TickType /\ Tells(c).tick = c.tick
  BY DEF Tells, TickType, CallbackType
<1>3. TicksOf(Append(ToldBy(calls), Tells(c))) = Append(TicksOf(ToldBy(calls)), c.tick)
  BY <1>1, <1>2, TicksAppend
<1> QED BY <1>3, ToldAppend

(* A stream without a STOP before an offset: the command before it closes  *)
(* its tick, unless the next has the same or the tick is negative.         *)
Reached(d, at) ==
  /\ StreamStart(d) # NoOffset /\ at \in StreamStart(d) .. DataLen(d)
  /\ \A k \in StreamStart(d) .. at - 1 : d[k].cmd # "STOP"

LEMMA ReachedIs ==
  ASSUME NEW d \in Demos, NEW at, Reached(d, at)
  PROVE  /\ StreamStart(d) \in 2 .. DataLen(d) /\ StreamStart(d) \in 1 .. DataLen(d)
         /\ at \in Nat /\ StreamStart(d) <= at /\ at <= DataLen(d)
         /\ DataLen(d) = Len(d) + 1 /\ Len(d) \in Nat
         /\ End(d, StreamStart(d)) \in Int /\ at - 1 <= End(d, StreamStart(d))
         /\ at <= Len(d) => at <= End(d, StreamStart(d))
         /\ at <= Len(d) /\ d[at].cmd = "STOP" => End(d, StreamStart(d)) = at
         /\ at = DataLen(d) => End(d, StreamStart(d)) = at - 1
         /\ End(d, StreamStart(d)) <= Len(d)
<1>1. DataLen(d) = Len(d) + 1 /\ Len(d) \in Nat
  BY DemoTypes
<1>2. StreamStart(d) \in 2 .. DataLen(d) /\ StreamStart(d) \in 1 .. DataLen(d)
  BY <1>1, StreamStartIs DEF Reached
<1>3. at \in Nat /\ StreamStart(d) <= at /\ at <= DataLen(d)
  BY <1>1, <1>2 DEF Reached
<1>4. at \in StreamStart(d) .. DataLen(d) /\ \A k \in StreamStart(d) .. at - 1 : d[k].cmd # "STOP"
  BY DEF Reached
<1> QED BY <1>1, <1>2, <1>3, <1>4, EndIs

LEMMA TicksNext ==
  ASSUME NEW d \in Demos, NEW at, Reached(d, at), at > StreamStart(d)
  PROVE  /\ d[at - 1].tick \in Int
         /\ TicksUpTo(d, at) =
              IF d[at - 1].tick >= 0 /\ (at = DataLen(d) \/ d[at].tick # d[at - 1].tick)
                THEN Append(TicksUpTo(d, at - 1), d[at - 1].tick)
                ELSE TicksUpTo(d, at - 1)
<1> DEFINE s == StreamStart(d)
           k == at - 1
           closes == d[k].tick >= 0 /\ (k = End(d, s) \/ d[k + 1].tick # d[k].tick)
<1>1. /\ s \in 1 .. DataLen(d) /\ at \in Nat /\ at <= DataLen(d) /\ at > s
      /\ DataLen(d) = Len(d) + 1 /\ Len(d) \in Nat
      /\ End(d, s) \in Int /\ at - 1 <= End(d, s)
      /\ at <= Len(d) => at <= End(d, s)
      /\ at = DataLen(d) => End(d, s) = at - 1
  BY ReachedIs
<1>2. k \in s .. Len(d) /\ k + 1 = at /\ k <= End(d, s) /\ k \in 1 .. Len(d) /\ k \in Int
  <2> HIDE DEF s
  <2> QED BY <1>1
<1>3. k = End(d, s) <=> at = DataLen(d)
  <2> HIDE DEF s
  <2> QED BY <1>1, <1>2
<1>4. ToldUpTo(d, s, k + 1) = IF closes THEN Append(ToldUpTo(d, s, k), ClosedTick(d, s, k))
                                       ELSE ToldUpTo(d, s, k)
  <2> HIDE DEF s, k
  <2> QED BY <1>1, <1>2, TellNext DEF closes
<1>5. /\ ToldUpTo(d, s, k) \in Seq(TickType)
      /\ ClosedTick(d, s, k) \in TickType /\ ClosedTick(d, s, k).tick = d[k].tick
  <2> HIDE DEF s, k
  <2>1. d[k].tick \in Int /\ InOrder(RunOf(d, s, k)) \in Seq(Int)
    BY <1>1, <1>2, DemoTypes, RunType
  <2> QED BY <1>1, <1>2, <2>1, ToldUpToType DEF ClosedTick, TickType
<1>6. TicksOf(Append(ToldUpTo(d, s, k), ClosedTick(d, s, k))) = Append(TicksUpTo(d, k), d[k].tick)
  <2> HIDE DEF k
  <2> QED BY <1>5, TicksAppend DEF TicksUpTo
<1>7. TicksUpTo(d, at) = IF closes THEN Append(TicksUpTo(d, k), d[k].tick) ELSE TicksUpTo(d, k)
  BY <1>2, <1>4, <1>6 DEF TicksUpTo
<1>8. closes <=> d[k].tick >= 0 /\ (at = DataLen(d) \/ d[at].tick # d[k].tick)
  BY <1>2, <1>3
<1>9. d[k].tick \in Int
  BY <1>2, DemoTypes
<1> QED BY <1>7, <1>8, <1>9

(* A STOP closes its own tick, and the feed. *)
LEMMA TicksStop ==
  ASSUME NEW d \in Demos, NEW at, Reached(d, at), at <= Len(d), d[at].cmd = "STOP"
  PROVE  /\ d[at].tick \in Int
         /\ TicksUpTo(d, DataLen(d)) = IF d[at].tick >= 0 THEN Append(TicksUpTo(d, at), d[at].tick)
                                                          ELSE TicksUpTo(d, at)
<1> DEFINE s == StreamStart(d)
           last == DataLen(d)
<1>1. /\ s \in 1 .. DataLen(d) /\ at \in Nat /\ at >= s
      /\ DataLen(d) = Len(d) + 1 /\ Len(d) \in Nat /\ End(d, s) = at
  BY ReachedIs
<1>2. at \in s .. Len(d) /\ at \in 1 .. Len(d) /\ at + 1 \in Int
  <2> HIDE DEF s
  <2> QED BY <1>1
<1>3. d[at].tick \in Int
  BY <1>2, DemoTypes
<1>4. ToldUpTo(d, s, at + 1) = IF d[at].tick >= 0
                                 THEN Append(ToldUpTo(d, s, at), ClosedTick(d, s, at))
                                 ELSE ToldUpTo(d, s, at)
  <2> HIDE DEF s
  <2> QED BY <1>1, <1>2, TellNext
<1>5. ToldUpTo(d, s, at + 1) = ToldUpTo(d, s, last)
  <2>1. last \in Int /\ last > End(d, s) /\ at + 1 > End(d, s)
    <3> HIDE DEF s
    <3> QED BY <1>1, <1>2
  <2> HIDE DEF s, last
  <2> QED BY <1>1, <1>2, <2>1, ToldAtEnds
<1>6. /\ ToldUpTo(d, s, at) \in Seq(TickType)
      /\ ClosedTick(d, s, at) \in TickType /\ ClosedTick(d, s, at).tick = d[at].tick
  <2> HIDE DEF s
  <2>1. InOrder(RunOf(d, s, at)) \in Seq(Int)
    BY <1>1, <1>2, RunType
  <2> QED BY <1>1, <1>3, <2>1, ToldUpToType DEF ClosedTick, TickType
<1>7. TicksOf(Append(ToldUpTo(d, s, at), ClosedTick(d, s, at))) = Append(TicksUpTo(d, at), d[at].tick)
  BY <1>6, TicksAppend DEF TicksUpTo
<1> QED BY <1>3, <1>4, <1>5, <1>7 DEF TicksUpTo

(* Offsets between which no tick closes. *)
LEMMA NothingCloses ==
  ASSUME NEW d \in Demos, NEW low \in Int, NEW high \in Int, low <= high,
         StreamStart(d) # NoOffset,
         \A k \in StreamStart(d) .. Len(d) : low <= k /\ k < high =>
           \/ d[k].tick < 0 \/ k > End(d, StreamStart(d))
           \/ k < End(d, StreamStart(d)) /\ d[k + 1].tick = d[k].tick
  PROVE  TicksUpTo(d, low) = TicksUpTo(d, high)
<1> DEFINE s == StreamStart(d)
           C == Closings(d, s)
<1>1. s \in 1 .. DataLen(d) /\ s \in Int /\ Len(d) \in Nat
  BY StreamStartIs, DemoTypes
<1>2. C \subseteq s .. Len(d)
  <2> HIDE DEF s
  <2> QED BY <1>1, ClosingsRange
<1>3. End(d, s) \in Int
  <2>1. \A k \in s .. s - 1 : d[k].cmd # "STOP"
    BY <1>1
  <2> HIDE DEF s
  <2>2. s \in s .. DataLen(d)
    BY <1>1, DemoTypes
  <2> QED BY <1>1, <2>1, <2>2, EndIs
<1>4. \A k \in C : /\ k \in 1 .. Len(d) /\ k \in Int /\ d[k].tick \in Int /\ d[k].tick >= 0
                   /\ k <= End(d, s) /\ (k = End(d, s) \/ d[k + 1].tick # d[k].tick)
  <2>1. \A k \in C : k \in 1 .. Len(d)
    <3> HIDE DEF C, s
    <3> QED BY <1>1, <1>2, DemoTypes
  <2>2. \A k \in C : /\ d[k].tick >= 0 /\ k <= End(d, s)
                     /\ k = End(d, s) \/ d[k + 1].tick # d[k].tick
    BY <1>1, <1>3 DEF Closings, Closes
  <2> HIDE DEF C, s
  <2> QED BY <2>1, <2>2, DemoTypes
<1>5. \A k \in C : ~(low <= k /\ k < high)
  <2> SUFFICES ASSUME NEW k \in C, low <= k, k < high PROVE FALSE
    OBVIOUS
  <2>1. k \in s .. Len(d)
    BY <1>2
  <2>2. d[k].tick < 0 \/ k > End(d, s) \/ (k < End(d, s) /\ d[k + 1].tick = d[k].tick)
    BY <2>1
  <2> HIDE DEF C, s
  <2> QED BY <1>4, <1>3, <2>2
<1>6. Before(C, low) = Before(C, high)
  <2> HIDE DEF C
  <2>1. \A k \in C : k \in Int
    BY <1>4
  <2>2. \A k \in C : k < low <=> k < high
    BY <1>5, <2>1
  <2> QED BY <2>2 DEF Before
<1> QED BY <1>6 DEF TicksUpTo, ToldUpTo

(* The plans of the theorem: those of a demo with a stream, whose ticks do *)
(* not descend, and with no boundary at the greatest tick.                 *)
Divisible == StreamStart(demo) # NoOffset /\ Ascends(demo) /\ EndsBelowMax

Begins == StartOr(plan[segment].start, StreamStart(demo))

(* Where the next segment begins, or the end of the data. *)
NextBegins == IF segment = Len(plan) THEN DataLen(demo) ELSE plan[segment + 1].start

SegmentTypes ==
  /\ delivered \in Seq(CallbackType) /\ changed \in Seq(Int) /\ updated \in Seq(Int)
  /\ segment \in 0 .. Len(plan)
  /\ phase \in {"idle", "replay", "failed"}

(* A segment is replayed: what is told ends before the tick in progress.   *)
SegmentOpen ==
  /\ segment > 0
  /\ end_tick = SegmentReplayEndTick(plan[segment].end)
  /\ Reached(demo, cursor)
  /\ IF last_tick = NoTick
       THEN cursor = Begins /\ TicksTold = TicksUpTo(demo, cursor)
       ELSE /\ cursor > Begins
            /\ last_tick = demo[cursor - 1].tick
            /\ end_tick # NoTick => last_tick <= end_tick
            /\ TicksTold = TicksUpTo(demo, cursor - 1)

SegmentInv ==
  /\ mode # "segments" => segment = 0
  /\ mode = "segments" =>
       /\ Partitions(demo, plan)
       /\ StreamStart(demo) = NoOffset =>
            phase \in {"done", "failed"} \/ (phase = "idle" /\ segment = 0)
       /\ Divisible =>
            /\ SegmentTypes
            /\ phase = "idle" /\ segment = 0 => delivered = <<>>
            /\ phase = "idle" /\ segment > 0 => TicksTold = TicksUpTo(demo, NextBegins)
            /\ phase = "replay" => SegmentOpen

(* The keyframe a segment ends before. *)
LEMMA BoundaryFrame ==
  ASSUME demo \in Demos, Partitions(demo, plan), Divisible, NEW i \in 1 .. Len(plan) - 1
  PROVE  LET f == plan[i + 1].start
         IN  /\ f \in Nat /\ StreamStart(demo) <= f /\ f <= Len(demo) /\ f # NoOffset
             /\ \A k \in 1 .. f : demo[k].cmd # "STOP"
             /\ Reached(demo, f)
             /\ demo[f].tick \in Int /\ MinTick <= demo[f].tick
             /\ SegmentReplayEndTick(plan[i].end) \in Int
             /\ SegmentReplayEndTick(plan[i].end) # NoTick
             /\ SegmentReplayEndTick(plan[i].end) =
                  IF demo[f].tick = MinTick THEN MinTick ELSE demo[f].tick - 1
             /\ i > 1 => plan[i].start \in Nat /\ plan[i].start < f /\ plan[i].start # NoOffset
                         /\ StreamStart(demo) <= plan[i].start
             /\ StartOr(plan[i].start, StreamStart(demo)) \in StreamStart(demo) .. f
<1> DEFINE f == plan[i + 1].start
           s == StreamStart(demo)
<1>1. Len(plan) \in Nat /\ i \in Nat /\ i >= 1 /\ i + 1 <= Len(plan)
  BY DEF Partitions
<1>2. /\ Len(demo) \in Nat /\ DataLen(demo) = Len(demo) + 1
      /\ s \in 2 .. DataLen(demo)
      /\ \A k \in 1 .. s - 2 : demo[k].cmd # "STOP"
  BY StreamStartIs, DemoTypes DEF Divisible
<1>3. ASSUME NEW k \in Keyframes(demo)
      PROVE  /\ k \in 1 .. Len(demo) /\ s <= k /\ \A j \in 1 .. k : demo[j].cmd # "STOP"
  BY <1>2, DemoTypes DEF Keyframes, Streamed, Indexed
<1>4. f \in Keyframes(demo) /\ plan[i].end = demo[f].tick
  BY DEF Partitions
<1>5. plan[i].end # MaxTick
  BY DEF Divisible, EndsBelowMax
<1>6. f \in 1 .. Len(demo) /\ s <= f /\ \A j \in 1 .. f : demo[j].cmd # "STOP"
  BY <1>3, <1>4
<1>7. demo[f].tick \in MinTick .. MaxTick
  <2> HIDE DEF f
  <2>1. demo[f] \in Frame
    BY <1>6, DemosAssumption
  <2> QED BY <2>1 DEF Frame
<1>8. Reached(demo, f)
  <2> HIDE DEF f, s
  <2>1. f \in s .. DataLen(demo) /\ \A k \in s .. f - 1 : k \in 1 .. f
    BY <1>2, <1>6
  <2> QED BY <1>6, <2>1 DEF Reached, Divisible, s
<1>9. SegmentReplayEndTick(plan[i].end) = IF demo[f].tick = MinTick THEN MinTick ELSE demo[f].tick - 1
  <2> HIDE DEF f
  <2> QED BY <1>4, <1>5 DEF SegmentReplayEndTick
<1>10. i > 1 => plan[i].start \in Keyframes(demo) /\ plan[i].start < f
  <2> SUFFICES ASSUME i > 1 PROVE plan[i].start \in Keyframes(demo) /\ plan[i].start < f
    OBVIOUS
  <2>1. i - 1 \in 1 .. Len(plan) - 1 /\ (i - 1) + 1 = i
    BY <1>1
  <2>2. plan[(i - 1) + 1].start \in Keyframes(demo)
    BY <2>1 DEF Partitions
  <2> QED BY <2>1, <2>2 DEF Partitions
<1>11. i > 1 => /\ plan[i].start \in Nat /\ plan[i].start < f /\ plan[i].start # NoOffset
                /\ s <= plan[i].start
  BY <1>3, <1>10 DEF NoOffset
<1>12. i = 1 => plan[i].start = NoOffset
  BY DEF Partitions
<1> HIDE DEF f, s
<1>13. StartOr(plan[i].start, s) \in s .. f
  <2>1. CASE i = 1
    BY <1>2, <1>6, <1>12, <2>1 DEF StartOr
  <2>2. CASE i > 1
    BY <1>2, <1>6, <1>11, <2>2 DEF StartOr
  <2> QED BY <1>1, <2>1, <2>2
<1>14. demo[f].tick \in Int /\ MinTick <= demo[f].tick /\ MinTick \in Int
  BY <1>7, TickRangeAssumption
<1>15. SegmentReplayEndTick(plan[i].end) \in Int /\ SegmentReplayEndTick(plan[i].end) # NoTick
  BY <1>9, <1>14, NoTickAssumption
<1>16. f \in Nat /\ f <= Len(demo) /\ f # NoOffset
  BY <1>2, <1>6 DEF NoOffset
<1> QED BY <1>6, <1>8, <1>9, <1>11, <1>13, <1>14, <1>15, <1>16 DEF f, s

(* Every segment begins within the stream. *)
LEMMA SegmentBegins ==
  ASSUME demo \in Demos, Partitions(demo, plan), Divisible, NEW i \in 1 .. Len(plan)
  PROVE  /\ Reached(demo, StartOr(plan[i].start, StreamStart(demo)))
         /\ StartOr(plan[i].start, StreamStart(demo)) # NoOffset
         /\ i > 1 => StartOr(plan[i].start, StreamStart(demo)) = plan[i].start
         /\ i = 1 => StartOr(plan[i].start, StreamStart(demo)) = StreamStart(demo)
<1>1. Len(plan) \in Nat /\ i \in Nat /\ i >= 1
  BY DEF Partitions
<1>2. CASE i = 1
  <2>1. StartOr(plan[i].start, StreamStart(demo)) = StreamStart(demo)
    BY <1>2 DEF Partitions, StartOr
  <2>2. Reached(demo, StreamStart(demo))
    BY StreamStartIs, DemoTypes DEF Reached, Divisible
  <2> QED BY <1>2, <2>1, <2>2 DEF Divisible
<1>3. CASE i > 1
  <2>1. i - 1 \in 1 .. Len(plan) - 1 /\ (i - 1) + 1 = i
    BY <1>1, <1>3
  <2>2. Reached(demo, plan[i].start) /\ plan[i].start # NoOffset
    BY <2>1, BoundaryFrame
  <2> QED BY <1>3, <2>2 DEF StartOr
<1> QED BY <1>1, <1>2, <1>3

(* While a segment is replayed its cursor does not pass the keyframe that  *)
(* the next begins with, unless both are at the least tick of all.         *)
LEMMA CursorBeforeFrame ==
  ASSUME demo \in Demos, Partitions(demo, plan), Divisible, SegmentOpen,
         segment \in 1 .. Len(plan) - 1
  PROVE  LET f == plan[segment + 1].start
         IN  /\ demo[f].tick # MinTick => cursor <= f
             /\ demo[f].tick = MinTick =>
                  \A k \in StreamStart(demo) .. Len(demo) : k < cursor \/ k <= f => demo[k].tick < 0
<1> DEFINE f == plan[segment + 1].start
           s == StreamStart(demo)
<1>1. /\ f \in Nat /\ s <= f /\ f <= Len(demo)
      /\ demo[f].tick \in Int /\ MinTick <= demo[f].tick
      /\ end_tick \in Int /\ end_tick # NoTick
      /\ end_tick = IF demo[f].tick = MinTick THEN MinTick ELSE demo[f].tick - 1
      /\ Begins \in s .. f
  BY BoundaryFrame DEF SegmentOpen, Begins
<1>2. /\ Len(demo) \in Nat /\ DataLen(demo) = Len(demo) + 1
      /\ s \in 2 .. DataLen(demo) /\ cursor \in Nat /\ s <= cursor /\ cursor <= DataLen(demo)
  <2>1. Reached(demo, cursor)
    BY DEF SegmentOpen
  <2> QED BY <2>1, ReachedIs
<1> HIDE DEF f
<1>3. \A i, j \in s .. Len(demo) : i <= j => /\ demo[i].tick \in Int /\ demo[j].tick \in Int
                                           /\ demo[i].tick <= demo[j].tick
  <2> SUFFICES ASSUME NEW i \in s .. Len(demo), NEW j \in s .. Len(demo), i <= j
               PROVE  /\ demo[i].tick \in Int /\ demo[j].tick \in Int
                      /\ demo[i].tick <= demo[j].tick
    OBVIOUS
  <2>1. i \in 1 .. Len(demo) /\ j \in 1 .. Len(demo) /\ s <= i
    <3> HIDE DEF s
    <3> QED BY <1>2
  <2>2. demo[i].tick \in Int /\ demo[j].tick \in Int /\ DOMAIN demo = 1 .. Len(demo)
    BY <2>1, DemoTypes
  <2>3. CASE i = j
    BY <2>2, <2>3
  <2>4. CASE i < j
    BY <2>1, <2>2, <2>4 DEF Ascends, Divisible
  <2> HIDE DEF s
  <2> QED BY <1>2, <2>2, <2>3, <2>4
<1>4. cursor > f => demo[cursor - 1].tick <= end_tick /\ cursor - 1 \in s .. Len(demo)
  <2> SUFFICES ASSUME cursor > f
               PROVE  demo[cursor - 1].tick <= end_tick /\ cursor - 1 \in s .. Len(demo)
    OBVIOUS
  <2> HIDE DEF s
  <2>1. cursor # Begins
    BY <1>1, <1>2
  <2>2. demo[cursor - 1].tick <= end_tick
    BY <1>1, <2>1 DEF SegmentOpen
  <2> QED BY <1>1, <1>2, <2>2
<1> HIDE DEF s
<1>5. f \in s .. Len(demo)
  BY <1>1, <1>2
<1>6. ASSUME demo[f].tick # MinTick PROVE cursor <= f
  <2> SUFFICES ASSUME cursor > f PROVE FALSE
    BY <1>1, <1>2
  <2>1. demo[f].tick <= demo[cursor - 1].tick /\ demo[cursor - 1].tick \in Int
    BY <1>1, <1>2, <1>3, <1>4, <1>5
  <2>2. demo[cursor - 1].tick <= demo[f].tick - 1
    BY <1>1, <1>4, <1>6
  <2> QED BY <1>1, <2>1, <2>2
<1>7. ASSUME demo[f].tick = MinTick, NEW k \in s .. Len(demo), k < cursor \/ k <= f
      PROVE  demo[k].tick < 0
  <2>1. MinTick \in Int /\ MinTick < 0 /\ k \in Int
    BY <1>2, TickRangeAssumption
  <2>2. CASE k <= f
    <3>1. demo[k].tick <= demo[f].tick /\ demo[k].tick \in Int
      BY <1>3, <1>5, <2>2
    <3> QED BY <1>7, <2>1, <3>1
  <2>3. CASE ~(k <= f)
    <3>1. k < cursor /\ k > f /\ cursor > f /\ k <= cursor - 1
      BY <1>1, <1>2, <1>7, <2>1, <2>3
    <3>2. demo[k].tick <= demo[cursor - 1].tick /\ demo[k].tick \in Int
          /\ demo[cursor - 1].tick \in Int
      BY <1>3, <1>4, <3>1
    <3>3. demo[cursor - 1].tick <= MinTick
      BY <1>1, <1>4, <1>7, <3>1
    <3> QED BY <2>1, <3>2, <3>3
  <2> QED BY <2>2, <2>3
<1> QED BY <1>6, <1>7 DEF f, s

(* A segment whose replay is over has told all before the next begins.     *)
LEMMA SegmentEnds ==
  ASSUME demo \in Demos, Partitions(demo, plan), Divisible, SegmentTypes, SegmentOpen, ReplayOver
  PROVE  TicksUpTo(demo, cursor) = TicksUpTo(demo, NextBegins)
<1> DEFINE s == StreamStart(demo)
<1>1. Reached(demo, cursor) /\ segment \in 1 .. Len(plan) /\ Len(plan) \in Nat /\ segment \in Nat
  BY DEF SegmentOpen, SegmentTypes, Partitions
<1>2. /\ Len(demo) \in Nat /\ DataLen(demo) = Len(demo) + 1
      /\ s \in 2 .. DataLen(demo) /\ cursor \in Nat /\ s <= cursor /\ cursor <= DataLen(demo)
  BY <1>1, ReachedIs
<1>3. CASE segment = Len(plan)
  <2>1. plan[segment].end = MaxTick
    BY <1>3 DEF Partitions
  <2>2. end_tick = NoTick
    BY <2>1 DEF SegmentOpen, SegmentReplayEndTick
  <2> QED BY <1>3, <2>2 DEF ReplayOver, AtEnd, NextBegins
<1>4. CASE segment # Len(plan)
  <2> DEFINE f == plan[segment + 1].start
  <2>1. segment \in 1 .. Len(plan) - 1 /\ NextBegins = f
    BY <1>1, <1>4 DEF NextBegins
  <2>2. /\ f \in Nat /\ s <= f /\ f <= Len(demo) /\ Reached(demo, f)
        /\ demo[f].tick \in Int /\ MinTick <= demo[f].tick
        /\ end_tick \in Int /\ end_tick # NoTick
        /\ end_tick = IF demo[f].tick = MinTick THEN MinTick ELSE demo[f].tick - 1
    BY <2>1, BoundaryFrame DEF SegmentOpen
  <2>3. /\ demo[f].tick # MinTick => cursor <= f
        /\ demo[f].tick = MinTick =>
             \A k \in s .. Len(demo) : k < cursor \/ k <= f => demo[k].tick < 0
    BY <2>1, CursorBeforeFrame
  <2>4. f <= End(demo, s) /\ End(demo, s) \in Int
    BY <2>2, ReachedIs
  <2> HIDE DEF f
  <2>5. CASE demo[f].tick = MinTick
    <3>1. \A k \in s .. Len(demo) : k < cursor \/ k <= f => demo[k].tick < 0
      BY <2>3, <2>5
    <3> HIDE DEF s
    <3>2. CASE f <= cursor
      <4>1. \A k \in s .. Len(demo) : f <= k /\ k < cursor => demo[k].tick < 0
        BY <3>1
      <4> QED BY <1>2, <2>1, <2>2, <3>2, <4>1, NothingCloses DEF s, Divisible
    <3>3. CASE cursor <= f
      <4>1. \A k \in s .. Len(demo) : cursor <= k /\ k < f => demo[k].tick < 0
        BY <1>2, <2>2, <3>1
      <4> QED BY <1>2, <2>1, <2>2, <3>3, <4>1, NothingCloses DEF s, Divisible
    <3> QED BY <1>2, <2>2, <3>2, <3>3
  <2>6. CASE demo[f].tick # MinTick
    <3>1. cursor <= f /\ cursor # DataLen(demo) /\ end_tick = demo[f].tick - 1
      BY <1>2, <2>2, <2>3, <2>6
    <3>2. demo[cursor].tick > demo[f].tick - 1
      BY <2>2, <3>1 DEF ReplayOver, AtEnd, Header
    <3>3. ASSUME NEW k \in s .. Len(demo), cursor <= k, k <= f
          PROVE  demo[k].tick = demo[f].tick
      <4> HIDE DEF s
      <4>1. /\ k \in 1 .. Len(demo) /\ cursor \in 1 .. Len(demo) /\ f \in 1 .. Len(demo)
            /\ s <= k /\ DOMAIN demo = 1 .. Len(demo) /\ k \in Int /\ cursor \in Int /\ f \in Int
        BY <1>2, <2>2, <3>1, <3>3, DemoTypes
      <4>2. /\ demo[k].tick \in Int /\ demo[cursor].tick \in Int
        BY <4>1, DemoTypes
      <4>3. cursor < k => demo[cursor].tick <= demo[k].tick
        BY <1>2, <4>1 DEF Ascends, Divisible, s
      <4>4. k < f => demo[k].tick <= demo[f].tick
        BY <4>1 DEF Ascends, Divisible, s
      <4>5. demo[cursor].tick <= demo[k].tick
        BY <3>3, <4>1, <4>2, <4>3
      <4>6. demo[k].tick <= demo[f].tick
        BY <2>2, <3>3, <4>1, <4>4
      <4> QED BY <2>2, <3>2, <4>2, <4>5, <4>6
    <3> HIDE DEF s
    <3>4. ASSUME NEW k \in s .. Len(demo), cursor <= k, k < f
          PROVE  k < End(demo, s) /\ demo[k + 1].tick = demo[k].tick
      <4>1. k + 1 \in s .. Len(demo) /\ cursor <= k + 1 /\ k + 1 <= f /\ k <= f /\ k < End(demo, s)
        BY <1>2, <2>2, <2>4, <3>4
      <4>2. demo[k + 1].tick = demo[f].tick /\ demo[k].tick = demo[f].tick
        BY <3>3, <3>4, <4>1
      <4> QED BY <4>1, <4>2
    <3> QED BY <1>2, <2>1, <2>2, <3>1, <3>4, NothingCloses DEF s, Divisible
  <2> QED BY <2>5, <2>6
<1> QED BY <1>3, <1>4

(* A STOP is behind every keyframe, so it is only met by the last segment, *)
(* or where nothing is told.                                               *)
LEMMA SegmentStops ==
  ASSUME demo \in Demos, Partitions(demo, plan), Divisible, SegmentTypes, SegmentOpen,
         ~ReplayOver, AtStop
  PROVE  TicksUpTo(demo, DataLen(demo)) = TicksUpTo(demo, NextBegins)
<1> DEFINE s == StreamStart(demo)
<1>1. Reached(demo, cursor) /\ segment \in 1 .. Len(plan) /\ Len(plan) \in Nat /\ segment \in Nat
  BY DEF SegmentOpen, SegmentTypes, Partitions
<1>2. /\ Len(demo) \in Nat /\ DataLen(demo) = Len(demo) + 1
      /\ s \in 2 .. DataLen(demo) /\ cursor \in Nat /\ s <= cursor /\ cursor <= Len(demo)
      /\ demo[cursor].cmd = "STOP" /\ cursor \in 1 .. Len(demo)
  <2>1. /\ Len(demo) \in Nat /\ DataLen(demo) = Len(demo) + 1
        /\ s \in 2 .. DataLen(demo) /\ cursor \in Nat /\ s <= cursor /\ cursor <= DataLen(demo)
    BY <1>1, ReachedIs
  <2>2. cursor # DataLen(demo) /\ demo[cursor].cmd = "STOP"
    BY DEF AtStop, AtEnd, Header
  <2> HIDE DEF s
  <2> QED BY <2>1, <2>2
<1>3. CASE segment = Len(plan)
  BY <1>3 DEF NextBegins
<1>4. CASE segment # Len(plan)
  <2> DEFINE f == plan[segment + 1].start
  <2>1. segment \in 1 .. Len(plan) - 1 /\ NextBegins = f
    BY <1>1, <1>4 DEF NextBegins
  <2>2. /\ f \in Nat /\ s <= f /\ f <= Len(demo)
        /\ \A k \in 1 .. f : demo[k].cmd # "STOP"
        /\ end_tick \in Int /\ end_tick # NoTick
        /\ end_tick = IF demo[f].tick = MinTick THEN MinTick ELSE demo[f].tick - 1
    BY <2>1, BoundaryFrame DEF SegmentOpen
  <2>3. /\ demo[f].tick # MinTick => cursor <= f
        /\ demo[f].tick = MinTick =>
             \A k \in s .. Len(demo) : k < cursor \/ k <= f => demo[k].tick < 0
    BY <2>1, CursorBeforeFrame
  <2>4. End(demo, s) = cursor
    BY <1>1, <1>2, ReachedIs
  <2> HIDE DEF f
  <2>5. demo[f].tick = MinTick
    <3> HIDE DEF s
    <3> SUFFICES ASSUME cursor <= f PROVE FALSE
      BY <2>3
    <3>1. cursor \in 1 .. f
      BY <1>2, <2>2
    <3> QED BY <1>2, <2>2, <3>1
  <2>6. demo[cursor].tick < 0
    <3>1. demo[cursor].tick <= MinTick
      <4>1. ~(demo[cursor].tick > end_tick)
        BY <2>2 DEF ReplayOver, AtEnd, AtStop, Header
      <4>2. demo[cursor].tick \in Int
        BY <1>2, DemoTypes
      <4> QED BY <2>2, <2>5, <4>1, <4>2
    <3>2. demo[cursor].tick \in Int
      BY <1>2, DemoTypes
    <3> QED BY <3>1, <3>2, TickRangeAssumption
  <2> HIDE DEF s
  <2>7. ASSUME NEW k \in s .. Len(demo)
        PROVE  demo[k].tick < 0 \/ k > End(demo, s)
    <3>1. k < cursor \/ k = cursor \/ k > cursor
      BY <1>2
    <3> QED BY <2>3, <2>4, <2>5, <2>6, <3>1
  <2>8. f \in Int /\ DataLen(demo) \in Int /\ f <= DataLen(demo)
    BY <1>2, <2>2
  <2> QED BY <2>1, <2>7, <2>8, NothingCloses DEF s, Divisible
<1> QED BY <1>3, <1>4

LEMMA SegmentBehindStart ==
  ASSUME demo \in Demos, Partitions(demo, plan), Divisible, SegmentTypes, segment > 0
  PROVE  /\ segment \in 1 .. Len(plan)
         /\ Begins \in Nat /\ StreamStart(demo) <= Begins /\ Begins # NoOffset
         /\ Reached(demo, Begins)
<1>1. segment \in 1 .. Len(plan)
  BY DEF SegmentTypes, Partitions
<1>2. Reached(demo, Begins) /\ Begins # NoOffset
  BY <1>1, SegmentBegins DEF Begins
<1> QED BY <1>1, <1>2, ReachedIs

(* At a command, what is told ends before it. *)
LEMMA SegmentFlushes ==
  ASSUME demo \in Demos, Partitions(demo, plan), Divisible, SegmentTypes, SegmentOpen,
         cursor # DataLen(demo)
  PROVE  /\ Flushed \in Seq(CallbackType) /\ Header.tick \in Int /\ cursor \in Nat
         /\ cursor <= Len(demo)
         /\ TicksOf(ToldBy(Flushed)) = TicksUpTo(demo, cursor)
         /\ Kept(changed) \in Seq(Int) /\ Kept(updated) \in Seq(Int)
<1>1. /\ Reached(demo, cursor) /\ Len(demo) \in Nat /\ DataLen(demo) = Len(demo) + 1
      /\ StreamStart(demo) \in 2 .. DataLen(demo)
      /\ cursor \in Nat /\ StreamStart(demo) <= cursor /\ cursor <= DataLen(demo)
  BY ReachedIs DEF SegmentOpen
<1>2. cursor \in 1 .. Len(demo)
  BY <1>1
<1>3. Header.tick \in Int /\ Header = demo[cursor]
  BY <1>2, DemoTypes DEF Header
<1>4. delivered \in Seq(CallbackType) /\ changed \in Seq(Int) /\ updated \in Seq(Int)
  BY DEF SegmentTypes
<1>5. Kept(changed) \in Seq(Int) /\ Kept(updated) \in Seq(Int)
  BY <1>4 DEF Kept
<1>6. Flushed \in Seq(CallbackType) /\ TicksOf(ToldBy(Flushed)) = TicksUpTo(demo, cursor)
  <2>1. CASE last_tick = NoTick
    BY <1>4, <2>1 DEF SegmentOpen, Flushed, TickChanges, TicksTold
  <2>2. CASE last_tick # NoTick
    <3>1. /\ cursor > Begins /\ last_tick = demo[cursor - 1].tick
          /\ TicksTold = TicksUpTo(demo, cursor - 1) /\ segment > 0
      BY <2>2 DEF SegmentOpen
    <3>2. cursor > StreamStart(demo)
      BY <1>1, <3>1, SegmentBehindStart
    <3>3. /\ last_tick \in Int
          /\ TicksUpTo(demo, cursor) =
               IF last_tick >= 0 /\ (cursor = DataLen(demo) \/ Header.tick # last_tick)
                 THEN Append(TicksUpTo(demo, cursor - 1), last_tick)
                 ELSE TicksUpTo(demo, cursor - 1)
      BY <1>1, <1>3, <3>1, <3>2, TicksNext
    <3>4. Callback(last_tick) \in CallbackType /\ Callback(last_tick).tick = last_tick
      BY <1>4, <3>3 DEF Callback, CallbackType
    <3>5. CASE TickChanges
      <4>1. Flushed = Append(delivered, Callback(last_tick)) /\ Header.tick # last_tick
        BY <3>5 DEF Flushed, TickChanges
      <4>2. Flushed \in Seq(CallbackType)
        BY <1>4, <3>4, <4>1
      <4>3. TicksOf(ToldBy(Flushed)) = IF last_tick >= 0 THEN Append(TicksTold, last_tick)
                                                         ELSE TicksTold
        BY <1>4, <3>4, <4>1, TickTold DEF TicksTold
      <4> QED BY <3>1, <3>3, <4>1, <4>2, <4>3
    <3>6. CASE ~TickChanges
      BY <1>4, <2>2, <3>1, <3>3, <3>6 DEF Flushed, TickChanges, TicksTold
    <3> QED BY <3>5, <3>6
  <2> QED BY <2>1, <2>2
<1> QED BY <1>1, <1>2, <1>3, <1>5, <1>6

(* Where a replay is over, the tick in progress is told.                   *)
LEMMA SegmentCloses ==
  ASSUME demo \in Demos, Partitions(demo, plan), Divisible, SegmentTypes, SegmentOpen, ReplayOver
  PROVE  LET calls == IF last_tick # NoTick /\ last_tick >= 0
                        THEN Append(delivered, Callback(last_tick)) ELSE delivered
         IN  /\ calls \in Seq(CallbackType)
             /\ TicksOf(ToldBy(calls)) = TicksUpTo(demo, cursor)
<1> DEFINE calls == IF last_tick # NoTick /\ last_tick >= 0
                      THEN Append(delivered, Callback(last_tick)) ELSE delivered
<1>1. delivered \in Seq(CallbackType) /\ changed \in Seq(Int) /\ updated \in Seq(Int)
  BY DEF SegmentTypes
<1>2. CASE last_tick = NoTick
  BY <1>1, <1>2 DEF SegmentOpen, TicksTold
<1>3. CASE last_tick # NoTick
  <2>1. /\ cursor > Begins /\ last_tick = demo[cursor - 1].tick
        /\ end_tick # NoTick => last_tick <= end_tick
        /\ TicksTold = TicksUpTo(demo, cursor - 1) /\ segment > 0 /\ Reached(demo, cursor)
    BY <1>3 DEF SegmentOpen
  <2>2. /\ cursor \in Nat /\ StreamStart(demo) \in Nat /\ cursor > StreamStart(demo)
        /\ cursor <= DataLen(demo) /\ DataLen(demo) = Len(demo) + 1 /\ Len(demo) \in Nat
    BY <2>1, ReachedIs, SegmentBehindStart
  <2>3. /\ last_tick \in Int
        /\ TicksUpTo(demo, cursor) =
             IF last_tick >= 0 /\ (cursor = DataLen(demo) \/ demo[cursor].tick # last_tick)
               THEN Append(TicksUpTo(demo, cursor - 1), last_tick)
               ELSE TicksUpTo(demo, cursor - 1)
    BY <2>1, <2>2, TicksNext
  <2>4. cursor = DataLen(demo) \/ demo[cursor].tick # last_tick
    <3> SUFFICES ASSUME cursor # DataLen(demo), demo[cursor].tick = last_tick PROVE FALSE
      OBVIOUS
    <3>1. end_tick # NoTick /\ last_tick > end_tick
      BY DEF ReplayOver, AtEnd, Header
    <3>2. end_tick \in Int
      <4>1. segment \in 1 .. Len(plan) /\ Len(plan) \in Nat
        BY <2>1, SegmentBehindStart DEF Partitions
      <4>2. segment # Len(plan)
        BY <3>1 DEF SegmentOpen, SegmentReplayEndTick, Partitions
      <4>3. segment \in 1 .. Len(plan) - 1
        BY <4>1, <4>2
      <4> QED BY <4>3, BoundaryFrame DEF SegmentOpen
    <3> QED BY <2>1, <2>3, <3>1, <3>2
  <2>5. Callback(last_tick) \in CallbackType /\ Callback(last_tick).tick = last_tick
    BY <1>1, <2>3 DEF Callback, CallbackType
  <2>6. CASE last_tick >= 0
    <3>1. calls = Append(delivered, Callback(last_tick))
      BY <1>3, <2>6
    <3>2. TicksOf(ToldBy(calls)) = Append(TicksTold, last_tick)
      BY <1>1, <2>5, <2>6, <3>1, TickTold DEF TicksTold
    <3>3. calls \in Seq(CallbackType)
      BY <1>1, <2>5, <3>1
    <3> QED BY <2>1, <2>3, <2>4, <2>6, <3>2, <3>3
  <2>7. CASE ~(last_tick >= 0)
    BY <1>1, <2>1, <2>3, <2>7 DEF TicksTold
  <2> QED BY <2>6, <2>7
<1> QED BY <1>2, <1>3

LEMMA SegmentStarts ==
  ASSUME IInv, SegmentInv, mode = "segments", DecodeSegment
  PROVE  SegmentInv'
<1>1. /\ demo \in Demos /\ saved \in SavedType /\ Partitions(demo, plan)
      /\ mode' = "segments" /\ demo' = demo /\ plan' = plan
      /\ phase = "idle" /\ segment < Len(plan) /\ segment' = segment + 1
      /\ changed' = <<>> /\ delivered' = delivered /\ updated' = saved.updated
  BY DEF IInv, TypeInv, SegmentInv, DecodeSegment, Restored, SavedType
<1>2. Divisible' <=> Divisible
  BY <1>1 DEF Divisible, EndsBelowMax
<1>3. ASSUME Divisible
      PROVE  SegmentTypes' /\ phase' = "replay" /\ SegmentOpen'
  <2> DEFINE i == segment + 1
             start == StartOr(plan[i].start, StreamStart(demo))
  <2>1. /\ SegmentTypes /\ segment \in Nat /\ i \in 1 .. Len(plan) /\ Len(plan) \in Nat
        /\ segment = 0 => delivered = <<>>
        /\ segment > 0 => TicksTold = TicksUpTo(demo, plan[i].start)
    <3>1. SegmentTypes /\ Len(plan) \in Nat \ {0}
      BY <1>1, <1>3 DEF SegmentInv, Partitions
    <3>2. segment \in Nat /\ i \in 1 .. Len(plan)
      BY <1>1, <3>1 DEF SegmentTypes
    <3>3. segment # Len(plan)
      BY <1>1, <3>1, <3>2
    <3> QED BY <1>1, <1>3, <3>1, <3>2, <3>3 DEF SegmentInv, NextBegins
  <2>2. Reached(demo, start) /\ start # NoOffset
    BY <1>1, <1>3, <2>1, SegmentBegins
  <2>3. /\ phase' = "replay" /\ cursor' = start /\ last_tick' = NoTick
        /\ end_tick' = SegmentReplayEndTick(plan[i].end)
    BY <2>2 DEF DecodeSegment, ReplayOrReturn, Replay
  <2>4. SegmentTypes'
    BY <1>1, <2>1, <2>3 DEF SegmentTypes, SavedType
  <2>5. TicksTold = TicksUpTo(demo, start)
    <3>1. CASE segment = 0
      <4>1. start = StreamStart(demo)
        BY <1>1, <1>3, <2>1, <3>1, SegmentBegins
      <4>2. StreamStart(demo) \in 1 .. DataLen(demo)
        BY <1>1, <2>2, ReachedIs
      <4>3. ToldUpTo(demo, StreamStart(demo), StreamStart(demo)) = <<>>
        BY <1>1, <4>2, ToldAtEnds
      <4>4. ToldBy(delivered) = <<>>
        BY <2>1, <3>1, ToldNothing
      <4> QED BY <4>1, <4>3, <4>4 DEF TicksTold, TicksUpTo
    <3>2. CASE segment > 0
      <4>1. start = plan[i].start
        BY <1>1, <1>3, <2>1, <3>2, SegmentBegins
      <4> QED BY <2>1, <3>2, <4>1
    <3> QED BY <2>1, <3>1, <3>2
  <2>6. SegmentOpen'
    <3>1. segment' > 0 /\ segment' = i
      BY <1>1, <2>1
    <3>2. Begins' = start
      BY <1>1, <3>1 DEF Begins
    <3>3. TicksTold' = TicksTold
      BY <1>1 DEF TicksTold
    <3>4. (Reached(demo, cursor))'
      BY <1>1, <2>2, <2>3
    <3>5. (TicksUpTo(demo, cursor))' = TicksUpTo(demo, start)
      BY <1>1, <2>3
    <3> HIDE DEF start
    <3> QED BY <1>1, <2>3, <2>5, <3>1, <3>2, <3>3, <3>4, <3>5 DEF SegmentOpen
  <2> QED BY <2>3, <2>4, <2>6
<1>4. (Partitions(demo, plan))'
  BY <1>1
<1>5. StreamStart(demo) = NoOffset => phase' = "done"
  <2> SUFFICES ASSUME StreamStart(demo) = NoOffset PROVE phase' = "done"
    OBVIOUS
  <2>1. segment = 0
    BY <1>1 DEF SegmentInv
  <2>2. StartOr(plan[segment + 1].start, StreamStart(demo)) = NoOffset
    BY <1>1, <2>1 DEF StartOr, Partitions
  <2> QED BY <2>2 DEF DecodeSegment, ReplayOrReturn
<1> QED BY <1>1, <1>2, <1>3, <1>4, <1>5 DEF SegmentInv

LEMMA SegmentCommand ==
  ASSUME IInv, SegmentInv, mode = "segments", ReplayCommand
  PROVE  SegmentInv'
<1>1. /\ demo \in Demos /\ Partitions(demo, plan)
      /\ phase = "replay" /\ ~ReplayOver /\ ~AtStop
      /\ UNCHANGED <<demo, phase, mode, end_tick, segment, plan>>
      /\ delivered' = Flushed /\ last_tick' = Header.tick /\ cursor' = cursor + 1
      /\ changed' = Append(Kept(changed), cursor) /\ updated' = Append(Kept(updated), cursor)
  BY DEF IInv, TypeInv, SegmentInv, ReplayCommand
<1>2. Divisible' <=> Divisible
  BY <1>1 DEF Divisible, EndsBelowMax
<1>3. ASSUME Divisible
      PROVE  SegmentTypes' /\ SegmentOpen'
  <2>1. SegmentTypes /\ SegmentOpen /\ cursor # DataLen(demo)
    BY <1>1, <1>3 DEF SegmentInv, ReplayOver, AtEnd
  <2>2. /\ Flushed \in Seq(CallbackType) /\ Header.tick \in Int /\ cursor \in Nat
        /\ cursor <= Len(demo)
        /\ TicksOf(ToldBy(Flushed)) = TicksUpTo(demo, cursor)
        /\ Kept(changed) \in Seq(Int) /\ Kept(updated) \in Seq(Int)
    BY <1>1, <1>3, <2>1, SegmentFlushes
  <2>3. SegmentTypes'
    BY <1>1, <2>1, <2>2 DEF SegmentTypes
  <2>4. /\ Reached(demo, cursor) /\ StreamStart(demo) \in Nat /\ StreamStart(demo) <= cursor
        /\ Len(demo) \in Nat /\ DataLen(demo) = Len(demo) + 1 /\ cursor + 1 <= DataLen(demo)
    BY <1>1, <2>1, <2>2, ReachedIs DEF SegmentOpen
  <2>5. Reached(demo, cursor + 1)
    <3>1. demo[cursor].cmd # "STOP"
      BY <1>1, <2>1 DEF AtStop, AtEnd, Header
    <3>2. cursor + 1 \in StreamStart(demo) .. DataLen(demo)
      BY <2>2, <2>4
    <3>3. \A k \in StreamStart(demo) .. (cursor + 1) - 1 :
            k = cursor \/ k \in StreamStart(demo) .. cursor - 1
      BY <2>2, <2>4
    <3> QED BY <2>4, <3>1, <3>2, <3>3 DEF Reached
  <2>6. /\ Begins \in Nat /\ cursor >= Begins
    <3>1. Begins \in Nat
      BY <1>1, <1>3, <2>1, SegmentBehindStart DEF SegmentOpen
    <3>2. cursor = Begins \/ cursor > Begins
      BY <2>1 DEF SegmentOpen
    <3> QED BY <2>2, <3>1, <3>2
  <2>7. end_tick # NoTick => Header.tick <= end_tick
    <3> SUFFICES ASSUME end_tick # NoTick PROVE Header.tick <= end_tick
      OBVIOUS
    <3>1. ~(Header.tick > end_tick)
      BY <1>1, <2>1 DEF ReplayOver, AtEnd
    <3>2. end_tick \in Int
      <4>1. segment \in 1 .. Len(plan) /\ Len(plan) \in Nat
        BY <1>1, <1>3, <2>1, SegmentBehindStart DEF Partitions, SegmentOpen
      <4>2. segment # Len(plan)
        BY <1>1, <2>1 DEF SegmentOpen, SegmentReplayEndTick, Partitions
      <4>3. segment \in 1 .. Len(plan) - 1
        BY <4>1, <4>2
      <4> QED BY <1>1, <1>3, <2>1, <4>3, BoundaryFrame DEF SegmentOpen
    <3> QED BY <2>2, <3>1, <3>2
  <2>8. SegmentOpen'
    <3>1. last_tick' # NoTick
      BY <1>1, <2>2, NoTickAssumption
    <3>2. Begins' = Begins /\ cursor' > Begins
      BY <1>1, <2>2, <2>6 DEF Begins
    <3>3. cursor' - 1 = cursor /\ last_tick' = demo[cursor].tick
      BY <1>1, <2>2 DEF Header
    <3>4. TicksTold' = TicksUpTo(demo, cursor)
      BY <1>1, <2>2 DEF TicksTold
    <3>5. segment' > 0 /\ end_tick' = (SegmentReplayEndTick(plan[segment].end))'
      BY <1>1, <2>1 DEF SegmentOpen
    <3> QED BY <1>1, <2>5, <2>7, <3>1, <3>2, <3>3, <3>4, <3>5 DEF SegmentOpen
  <2> QED BY <2>3, <2>8
<1>4. (Partitions(demo, plan))' /\ StreamStart(demo) # NoOffset
  BY <1>1 DEF SegmentInv
<1> QED BY <1>1, <1>2, <1>3, <1>4 DEF SegmentInv

LEMMA SegmentReturn ==
  ASSUME IInv, SegmentInv, mode = "segments", ReplayStop \/ ReplayEnd
  PROVE  SegmentInv'
<1>1. /\ demo \in Demos /\ Partitions(demo, plan) /\ phase = "replay"
      /\ UNCHANGED <<demo, mode, segment, plan>> /\ phase' = "idle"
  BY DEF IInv, TypeInv, SegmentInv, ReplayStop, ReplayEnd, Return
<1>2. Divisible' <=> Divisible
  BY <1>1 DEF Divisible, EndsBelowMax
<1>3. ASSUME Divisible
      PROVE  SegmentTypes' /\ TicksTold' = TicksUpTo(demo, NextBegins)
  <2>1. SegmentTypes /\ SegmentOpen
    BY <1>1, <1>3 DEF SegmentInv
  <2>2. CASE ReplayStop
    <3>1. /\ ~ReplayOver /\ AtStop /\ cursor # DataLen(demo)
          /\ changed' = Kept(changed) /\ updated' = Kept(updated)
          /\ delivered' = IF Header.tick >= 0
               THEN Append(Flushed, [tick |-> Header.tick, changed |-> Kept(changed),
                                     updated |-> Kept(updated)])
               ELSE Flushed
      BY <2>2 DEF ReplayStop, Return, ReplayOver, AtEnd
    <3>2. /\ Flushed \in Seq(CallbackType) /\ Header.tick \in Int /\ cursor \in Nat
          /\ cursor <= Len(demo)
          /\ TicksOf(ToldBy(Flushed)) = TicksUpTo(demo, cursor)
          /\ Kept(changed) \in Seq(Int) /\ Kept(updated) \in Seq(Int)
      BY <1>1, <1>3, <2>1, <3>1, SegmentFlushes
    <3> DEFINE final == [tick |-> Header.tick, changed |-> Kept(changed), updated |-> Kept(updated)]
    <3>3. final \in CallbackType /\ final.tick = Header.tick
      BY <3>2 DEF CallbackType
    <3>4. /\ delivered' = IF Header.tick >= 0 THEN Append(Flushed, final) ELSE Flushed
      BY <3>1
    <3> HIDE DEF final
    <3>5. delivered' \in Seq(CallbackType)
      BY <3>2, <3>3, <3>4
    <3>6. TicksTold' = IF Header.tick >= 0 THEN Append(TicksUpTo(demo, cursor), Header.tick)
                                           ELSE TicksUpTo(demo, cursor)
      <4>1. CASE Header.tick >= 0
        BY <3>2, <3>3, <3>4, <4>1, TickTold DEF TicksTold
      <4>2. CASE ~(Header.tick >= 0)
        BY <3>2, <3>4, <4>2 DEF TicksTold
      <4> QED BY <4>1, <4>2
    <3>7. TicksTold' = TicksUpTo(demo, DataLen(demo))
      <4>1. demo[cursor].cmd = "STOP" /\ Header = demo[cursor] /\ Reached(demo, cursor)
        BY <2>1, <3>1 DEF AtStop, AtEnd, Header, SegmentOpen
      <4> QED BY <1>1, <3>2, <3>6, <4>1, TicksStop
    <3>8. TicksTold' = TicksUpTo(demo, NextBegins)
      BY <1>1, <1>3, <2>1, <3>1, <3>7, SegmentStops
    <3> QED BY <1>1, <2>1, <3>1, <3>2, <3>5, <3>8 DEF SegmentTypes
  <2>3. CASE ReplayEnd
    <3>1. /\ ReplayOver /\ changed' = changed /\ updated' = updated
          /\ delivered' = IF last_tick # NoTick /\ last_tick >= 0
                            THEN Append(delivered, Callback(last_tick)) ELSE delivered
      BY <2>3 DEF ReplayEnd, Return
    <3>2. /\ delivered' \in Seq(CallbackType)
          /\ TicksTold' = TicksUpTo(demo, cursor)
      BY <1>1, <1>3, <2>1, <3>1, SegmentCloses DEF TicksTold
    <3>3. TicksTold' = TicksUpTo(demo, NextBegins)
      BY <1>1, <1>3, <2>1, <3>1, <3>2, SegmentEnds
    <3> QED BY <1>1, <2>1, <3>1, <3>2, <3>3 DEF SegmentTypes
  <2> QED BY <2>2, <2>3
<1>4. (Partitions(demo, plan))' /\ (TicksUpTo(demo, NextBegins))' = TicksUpTo(demo, NextBegins)
  BY <1>1 DEF NextBegins
<1>5. StreamStart(demo) # NoOffset
  BY <1>1 DEF SegmentInv
<1>6. Divisible' => (SegmentTypes /\ TicksTold = TicksUpTo(demo, NextBegins) /\ segment > 0)'
  <2>1. Divisible => segment > 0
    BY <1>1 DEF SegmentInv, SegmentOpen
  <2> QED BY <1>1, <1>2, <1>3, <1>4, <2>1
<1>7. /\ mode' = "segments" /\ phase' = "idle" /\ segment' = segment
      /\ (StreamStart(demo) # NoOffset)' /\ (Partitions(demo, plan))'
  BY <1>1, <1>4, <1>5
<1>8. Divisible' => segment' # 0
  BY <1>1, <1>2 DEF SegmentInv, SegmentOpen
<1> QED BY <1>6, <1>7, <1>8 DEF SegmentInv

(* A plan is made once, before anything is told. *)
LEMMA SegmentPlanned ==
  ASSUME IInv, SegmentInv, NEW n \in Budgets, PlanSegments(n)
  PROVE  SegmentInv'
<1>1. /\ demo \in Demos /\ phase = "idle" /\ mode = "none" /\ segment = 0
      /\ delivered = <<>> /\ changed \in Seq(Int) /\ updated \in Seq(Int)
      /\ plan' = SegmentPlan(demo, n) /\ UNCHANGED <<demo, phase, segment, changed, updated, delivered>>
      /\ mode' = "segments"
  BY DEF IInv, TypeInv, Control, SegmentInv, PlanSegments, state
<1>2. Partitions(demo, plan')
  BY <1>1, BudgetsAssumption, PlanPartitions
<1>3. SegmentTypes'
  <2>1. 0 \in 0 .. Len(plan')
    BY <1>2 DEF Partitions
  <2> QED BY <1>1, <2>1 DEF SegmentTypes
<1>4. (Partitions(demo, plan))'
  BY <1>1, <1>2
<1>5. /\ phase' = "idle" /\ segment' = 0 /\ delivered' = <<>> /\ mode' = "segments"
  BY <1>1
<1> QED BY <1>3, <1>4, <1>5 DEF SegmentInv

LEMMA SegmentHolds == Spec => []SegmentInv
<1>1. Init => SegmentInv
  BY DEF Init, SegmentInv
<1>2. IInv /\ SegmentInv /\ [Next]_vars => SegmentInv'
  <2> SUFFICES ASSUME IInv, SegmentInv, [Next]_vars PROVE SegmentInv'
    OBVIOUS
  <2>1. CASE mode # "segments"
    <3>1. CASE \E n \in Budgets : PlanSegments(n)
      BY <3>1, SegmentPlanned
    <3>2. CASE UNCHANGED vars
      BY <2>1, <3>2 DEF vars, SegmentInv
    <3>3. CASE ~(\E n \in Budgets : PlanSegments(n)) /\ ~(UNCHANGED vars)
      <4>1. segment = 0
        BY <2>1 DEF SegmentInv
      <4>2. \/ SignonStep \/ RunToEnd \/ (\E t \in Targets : ParseToTick(t))
            \/ (\E t \in Targets : CheckpointThrough(t)) \/ (\E t \in Targets : ReplayThrough(t))
            \/ ReplayStep \/ FailSignon \/ FailReplay
        BY <2>1, <3>3 DEF Next, DecodeSegment
      <4>3. segment' = segment
        BY <4>2 DEF SignonStep, SignonCommand, EndSignon, RejectSignon, FailSignon, Fails,
                    RunToEnd, ParseToTick, CheckpointThrough, ReplayThrough,
                    ReplayStep, ReplayCommand, ReplayStop, ReplayEnd, Return, FailReplay
      <4>4. mode' # "segments"
        BY <2>1, <4>2 DEF SignonStep, SignonCommand, EndSignon, RejectSignon, FailSignon, Fails,
                    RunToEnd, ParseToTick, CheckpointThrough, ReplayThrough,
                    ReplayStep, ReplayCommand, ReplayStop, ReplayEnd, Return, FailReplay
      <4> QED BY <4>1, <4>3, <4>4 DEF SegmentInv
    <3> QED BY <3>1, <3>2, <3>3
  <2>2. CASE mode = "segments"
    <3>1. CASE DecodeSegment
      BY <2>2, <3>1, SegmentStarts
    <3>2. CASE ReplayCommand
      BY <2>2, <3>2, SegmentCommand
    <3>3. CASE ReplayStop \/ ReplayEnd
      BY <2>2, <3>3, SegmentReturn
    <3>4. CASE FailReplay
      <4>1. /\ phase' = "failed"
            /\ UNCHANGED <<demo, mode, segment, plan, delivered, changed, updated>>
        BY <2>2, <3>4 DEF FailReplay, Fails, state
      <4> QED BY <2>2, <4>1 DEF SegmentInv, SegmentTypes, Divisible, EndsBelowMax
    <3>5. CASE UNCHANGED vars
      <4>1. UNCHANGED <<demo, phase, mode, cursor, end_tick, last_tick, started, tick, applied,
                        changed, updated, delivered, segment, plan, saved>>
        BY <3>5 DEF vars, state, replay
      <4> QED BY <4>1 DEF SegmentInv, SegmentTypes, SegmentOpen, Divisible, EndsBelowMax,
                          TicksTold, Begins, NextBegins
    <3>6. CASE SignonStep \/ FailSignon
      <4>1. phase = "signon"
        BY <3>6 DEF SignonStep, SignonCommand, EndSignon, RejectSignon, FailSignon
      <4> QED BY <2>2, <4>1 DEF IInv, Control
    <3>7. CASE \/ RunToEnd \/ (\E t \in Targets : ParseToTick(t))
               \/ (\E n \in Budgets : PlanSegments(n)) \/ (\E t \in Targets : CheckpointThrough(t))
               \/ (\E t \in Targets : ReplayThrough(t))
      BY <2>2, <3>7 DEF RunToEnd, ParseToTick, PlanSegments, CheckpointThrough, ReplayThrough
    <3> QED BY <3>1, <3>2, <3>3, <3>4, <3>5, <3>6, <3>7 DEF Next, ReplayStep
  <2> QED BY <2>1, <2>2
<1> QED BY <1>1, <1>2, IInvHolds, PTL DEF Spec

(* The segments of a plan, decoded by sessions of their own, tell the      *)
(* ticks of one run to the end, each once and in order, for every demo     *)
(* whose ticks do not descend and every budget.                            *)
THEOREM SegmentsVisitTicksOnceHolds == Spec => []SegmentsVisitTicksOnce
<1>1. ASSUME IInv, SegmentInv, AllSegmentsDecoded, TicksAscend, EndsBelowMax
      PROVE  TicksOf(Told) = TicksOf(TicksBetween(demo, StreamStart(demo), DataLen(demo)))
  <2>1. /\ demo \in Demos /\ mode = "segments" /\ phase = "idle" /\ segment > 0
        /\ segment = Len(plan) /\ Ascends(demo)
    BY <1>1 DEF IInv, TypeInv, AllSegmentsDecoded, TicksAscend, Ascends
  <2>2. StreamStart(demo) # NoOffset
    BY <1>1, <2>1 DEF SegmentInv
  <2>3. TicksTold = TicksUpTo(demo, DataLen(demo))
    BY <1>1, <2>1, <2>2 DEF SegmentInv, Divisible, NextBegins
  <2>4. ToldUpTo(demo, StreamStart(demo), DataLen(demo))
          = TicksBetween(demo, StreamStart(demo), DataLen(demo))
    <3> DEFINE s == StreamStart(demo)
    <3>1. /\ Len(demo) \in Nat /\ DataLen(demo) = Len(demo) + 1
          /\ s \in 2 .. DataLen(demo) /\ s \in 1 .. DataLen(demo)
      BY <2>1, <2>2, StreamStartIs, DemoTypes
    <3>2. Reached(demo, s)
      BY <2>2, <3>1 DEF Reached
    <3>3. End(demo, s) \in Int /\ End(demo, s) <= Len(demo)
      BY <2>1, <3>2, ReachedIs
    <3>4. DataLen(demo) \in Int /\ DataLen(demo) > End(demo, s)
      <4> HIDE DEF s
      <4> QED BY <3>1, <3>3
    <3> HIDE DEF s
    <3>5. ToldUpTo(demo, s, DataLen(demo)) = TicksBetween(demo, s, DataLen(demo))
      BY <2>1, <3>1, <3>4, ToldAtEnds
    <3> QED BY <3>5 DEF s
  <2> QED BY <2>3, <2>4 DEF TicksTold, TicksUpTo, Told
<1>2. IInv /\ SegmentInv => SegmentsVisitTicksOnce
  BY <1>1 DEF SegmentsVisitTicksOnce
<1> QED BY <1>2, IInvHolds, SegmentHolds, PTL
=============================================================================
