---------------------------- MODULE SchemaProofs ----------------------------
(***************************************************************************)
(* The parts the run of Schema checks: the paths that are read and their   *)
(* keys (FieldPathReader), the class table (ClassTable), the table of      *)
(* serializers (SerializerTable), and the property filters that are        *)
(* compiled against it (Schema).                                           *)
(*                                                                         *)
(* The paths the reader stores fit their keys, whatever the limits of the  *)
(* components, the operands and the number of paths.                       *)
(* The running path is canonical except that, before the first increment,  *)
(* its root is -1: every step of an operation keeps that, and the last     *)
(* check of an operation is what makes the path canonical.                 *)
(*                                                                         *)
(* Of a packed key they show that what its components down to a depth add  *)
(* to it (Low) stays below the weight of that depth, so that division and  *)
(* remainder take the key apart where Pack put it together.  Induction is  *)
(* over the depths at which a fact holds, a set (Stepwise); the recursive  *)
(* functions of FieldPaths exist because a recursion over an interval does *)
(* (Recursion).                                                            *)
(*                                                                         *)
(* Of a class table (ClassTable) they show, by the same means, that the    *)
(* powers of two outgrow the numbers, so that some width holds the         *)
(* greatest id of a list and the least such width holds every id.          *)
(*                                                                         *)
(* Of a table of serializers they show that at any time of a build each    *)
(* field has found its serializer among the definitions that are complete, *)
(* or will find none (Settled); what it found is not replaced when every   *)
(* name is defined once.                                                   *)
(*                                                                         *)
(* Of a search by name they show that it answers with the key of a path    *)
(* the name spells, or not at all (SearchAnswers): depth by depth, from    *)
(* the deepest up, a path is put in front of the one found below it and    *)
(* its pieces in front of the others (FindsBelow).  The serializers the    *)
(* search goes through are trees: whatever a build makes has fields that   *)
(* lead to what it made before (TreesInv).                                 *)
(*                                                                         *)
(* Of a filter they show that a masked key lets through what its own path  *)
(* is a prefix of (SelectedIs), and that a filter with the identity of the *)
(* installed serializers was compiled against them (FiltersInv).           *)
(***************************************************************************)
EXTENDS FieldPathReader, Schema, FiniteSetTheorems, WellFoundedInduction, TLAPS

(* What a running path is between two steps of an operation. *)
InBounds(p) == \A d \in Depths : p.data[d] \in Component(d) \/ (d = 0 /\ p.data[d] = -1)
Clean(p)    == \A d \in Depths : d > p.last => p.data[d] = 0
Running(p)  == p \in Path /\ InBounds(p) /\ Clean(p)

PathsInv ==
  /\ TypeOK
  /\ Running(fp)
  /\ PathsCanonical

----------------------------------------------------------------------------
(* The steps of an operation.                                              *)

(* A number below a limit: there is room for 0 at every depth. *)
LEMMA ZeroFits ==
  ASSUME NEW d \in Depths
  PROVE  0 \in Component(d)
BY LimitAssumption, SMT DEF Component

(* Popping clears what it leaves. *)
LEMMA PopRuns ==
  ASSUME NEW p, Running(p), NEW n \in Nat, CanPop(p, n)
  PROVE  Running(Pop(p, n)) /\ Pop(p, n).last = p.last - n
<1> DEFINE q == Pop(p, n)
<1>1. p \in Path /\ p.last \in Depths /\ p.data \in [Depths -> Int]
  BY DEF Running, Path
<1>2. q.last = p.last - n /\ q.last \in Depths
  BY <1>1, TopAssumption DEF Pop, CanPop, Depths
<1>3. ASSUME NEW d \in Depths
      PROVE  q.data[d] = IF p.last - n < d /\ d <= p.last THEN 0 ELSE p.data[d]
  BY <1>3 DEF Pop
<1>4. q \in Path
  BY <1>1, <1>2 DEF Pop, Path
<1>5. InBounds(q)
  BY <1>3, ZeroFits DEF Running, InBounds
<1>6. Clean(q)
  BY <1>1, <1>2, <1>3 DEF Running, Clean, Depths
<1> QED BY <1>2, <1>4, <1>5, <1>6 DEF Running

(* An increment in bounds reaches no deeper than the path does. *)
LEMMA IncRuns ==
  ASSUME NEW p, Running(p), NEW delta, DOMAIN delta \subseteq 0 .. p.last, CanInc(p, delta)
  PROVE  Running(Inc(p, delta)) /\ Inc(p, delta).last = p.last
<1> DEFINE q == Inc(p, delta)
<1>1. p \in Path /\ p.last \in Depths /\ p.data \in [Depths -> Int]
  BY DEF Running, Path
<1>2. q = [data |-> [d \in Depths |-> IF d \in DOMAIN delta THEN p.data[d] + delta[d]
                                                             ELSE p.data[d]],
           last |-> p.last]
  BY <1>1 DEF Inc, Path
<1>3. ASSUME NEW d \in Depths, d \in DOMAIN delta
      PROVE  q.data[d] \in Component(d) /\ ~(d > p.last)
  <2>1. q.data[d] = p.data[d] + delta[d]
    BY <1>2, <1>3
  <2>2. q.data[d] \in Component(d)
    BY <2>1, <1>3 DEF CanInc
  <2>3. d \in 0 .. p.last
    BY <1>3
  <2> QED BY <1>1, <2>2, <2>3 DEF Depths
<1>4. ASSUME NEW d \in Depths, d \notin DOMAIN delta
      PROVE  q.data[d] = p.data[d]
  BY <1>2, <1>4
<1>5. \A d \in Depths : q.data[d] \in Int
  BY <1>1, <1>3, <1>4, LimitAssumption DEF Component
<1>6. q \in Path
  BY <1>1, <1>2, <1>5 DEF Path
<1>7. InBounds(q)
  BY <1>3, <1>4 DEF Running, InBounds
<1>8. Clean(q)
  BY <1>2, <1>3, <1>4 DEF Running, Clean
<1> QED BY <1>2, <1>6, <1>7, <1>8 DEF Running

(* A push fills the levels it adds. *)
LEMMA PushRuns ==
  ASSUME NEW p, Running(p), NEW values, Len(values) \in Nat, CanPush(p, values)
  PROVE  Running(Push(p, values))
<1> DEFINE q == Push(p, values)
<1>1. p \in Path /\ p.last \in Depths /\ p.data \in [Depths -> Int]
  BY DEF Running, Path
<1>2. q.last = p.last + Len(values) /\ q.last \in Depths
  BY <1>1, TopAssumption DEF Push, CanPush, Depths
<1>3. ASSUME NEW d \in Depths, d - p.last \in 1 .. Len(values)
      PROVE  q.data[d] \in Component(d) /\ ~(d > q.last)
  <2>1. q.data[d] = values[d - p.last]
    BY <1>3 DEF Push
  <2>2. values[d - p.last] \in Component(p.last + (d - p.last))
    BY <1>3 DEF CanPush
  <2>3. p.last + (d - p.last) = d /\ ~(d > q.last)
    BY <1>1, <1>2, <1>3, TopAssumption DEF Depths
  <2> QED BY <2>1, <2>2, <2>3
<1>4. ASSUME NEW d \in Depths, d - p.last \notin 1 .. Len(values)
      PROVE  q.data[d] = p.data[d]
  BY <1>4 DEF Push
<1>5. \A d \in Depths : q.data[d] \in Int
  BY <1>1, <1>3, <1>4, LimitAssumption DEF Component
<1>6. q \in Path
  BY <1>2, <1>5 DEF Push, Path
<1>7. InBounds(q)
  BY <1>3, <1>4 DEF Running, InBounds
<1>8. Clean(q)
  <2> SUFFICES ASSUME NEW d \in Depths, d > q.last PROVE q.data[d] = 0
    BY DEF Clean
  <2>1. d - p.last \notin 1 .. Len(values)
    BY <1>3
  <2>2. d > p.last
    BY <1>1, <1>2, TopAssumption DEF Depths
  <2> QED BY <1>4, <2>1, <2>2 DEF Running, Clean
<1> QED BY <1>6, <1>7, <1>8 DEF Running

(* A running path with a root is one that a key can hold. *)
LEMMA RootedIsCanonical ==
  ASSUME NEW p, Running(p), p.data[0] >= 0
  PROVE  Canonical(p)
<1>1. \A d \in Depths : p.data[d] \in Component(d)
  BY TopAssumption DEF Running, InBounds, Depths
<1> QED BY <1>1 DEF Running, Clean, Canonical, TryPack

----------------------------------------------------------------------------
(* Operations.                                                             *)

(* Every operation, whatever its operands, keeps the invariant. *)
LEMMA OperationKeeps ==
  ASSUME PathsInv, NEW n \in Nat, NEW delta, NEW values, Len(values) \in Nat,
         CanPop(fp, n) => DOMAIN delta \subseteq 0 .. fp.last - n,
         Operation(n, delta, values)
  PROVE  PathsInv'
<1> DEFINE popped == Pop(fp, n)
           moved  == Inc(popped, delta)
           next   == Push(moved, values)
           stores == /\ CanPop(fp, n) /\ CanInc(popped, delta) /\ CanPush(moved, values)
                     /\ next.data[0] >= 0 /\ Room
                     /\ fp' = next /\ buf' = Append(buf, next) /\ UNCHANGED status
           fails  == status' = "failed" /\ UNCHANGED <<fp, buf>>
<1>1. stores \/ fails
  BY DEF Operation
<1>2. ASSUME fails PROVE PathsInv'
  BY <1>2 DEF PathsInv, TypeOK, Running, InBounds, Clean, PathsCanonical, Canonical, TryPack
<1>3. ASSUME stores PROVE PathsInv'
  <2>1. Running(popped) /\ popped.last = fp.last - n
    BY <1>3, PopRuns DEF PathsInv
  <2>2. Running(moved)
    BY <1>3, <2>1, IncRuns
  <2>3. Running(next)
    BY <1>3, <2>2, PushRuns
  <2>4. Canonical(next)
    BY <1>3, <2>3, RootedIsCanonical
  <2>5. next \in Path
    BY <2>3 DEF Running
  <2> HIDE DEF next
  <2>6. buf \in Seq(Path)
    BY DEF PathsInv, TypeOK
  <2>7. buf' \in Seq(Path) /\ Len(buf') <= MaxPaths
    BY <1>3, <2>5, <2>6 DEF Room
  <2>8. TypeOK'
    BY <1>3, <2>5, <2>7 DEF PathsInv, TypeOK
  <2>9. Running(fp)'
    BY <1>3, <2>3 DEF Running, InBounds, Clean
  <2>10. PathsCanonical'
    <3> SUFFICES ASSUME NEW k \in DOMAIN buf' PROVE Canonical(buf'[k])
      BY DEF PathsCanonical, Canonical, TryPack
    <3>1. CASE k \in DOMAIN buf
      BY <1>3, <2>5, <2>6, <3>1 DEF PathsInv, PathsCanonical
    <3>2. CASE k \notin DOMAIN buf
      <4>1. buf'[k] = next
        BY <1>3, <2>5, <2>6, <3>2
      <4> QED BY <4>1, <2>4
    <3> QED BY <3>1, <3>2
  <2> QED BY <2>8, <2>9, <2>10 DEF PathsInv
<1> QED BY <1>1, <1>2, <1>3

(* An operation that changes the last component only, and one that pops    *)
(* first.                                                                  *)
LEMMA LastKeeps ==
  ASSUME PathsInv, NEW delta, NEW values, Len(values) \in Nat,
         DOMAIN delta \subseteq 0 .. fp.last,
         Operation(0, delta, values)
  PROVE  PathsInv'
<1>1. fp.last \in Nat
  BY TopAssumption DEF PathsInv, Running, Path, Depths
<1>2. fp.last - 0 = fp.last
  BY <1>1
<1> QED BY <1>2, OperationKeeps

LEMMA LastDomain ==
  ASSUME PathsInv, NEW k
  PROVE  DOMAIN Last(k) \subseteq 0 .. fp.last /\ DOMAIN None \subseteq 0 .. fp.last
<1>1. fp.last \in Nat
  BY TopAssumption DEF PathsInv, Running, Path, Depths
<1> QED BY <1>1 DEF Last, At, None

LEMMA PopToKeeps ==
  ASSUME PathsInv, NEW n \in Nat, NEW k, PopTo(n, k)
  PROVE  PathsInv'
<1>1. fp.last \in Nat
  BY TopAssumption DEF PathsInv, Running, Path, Depths
<1>2. CanPop(fp, n) => DOMAIN At(fp.last - n, k) \subseteq 0 .. fp.last - n
  BY <1>1 DEF CanPop, At
<1>3. Len(<<>>) \in Nat
  OBVIOUS
<1> QED BY <1>2, <1>3, OperationKeeps DEF PopTo

LEMMA ScatteredDomain ==
  ASSUME NEW last, NEW deltas, NEW delta \in Scattered(last, deltas)
  PROVE  DOMAIN delta \subseteq 0 .. last
BY DEF Scattered

LEMMA PushesLen ==
  ASSUME NEW n \in Nat, NEW values \in Pushes(n)
  PROVE  Len(values) \in Nat
<1>1. values \in Seq(Operands)
  BY DEF Pushes
<1> QED BY <1>1

----------------------------------------------------------------------------
LEMMA PathsInit ==
  ASSUME Init
  PROVE  PathsInv
<1>1. Root \in Path
  BY TopAssumption DEF Root, Path, Depths
<1>2. InBounds(Root)
  BY ZeroFits DEF InBounds, Root
<1>3. Clean(Root)
  BY DEF Clean, Root
<1>4. TypeOK
  BY <1>1, MaxPathsAssumption DEF Init, TypeOK
<1> QED BY <1>1, <1>2, <1>3, <1>4 DEF Init, PathsInv, Running, PathsCanonical

LEMMA PathsStep ==
  ASSUME PathsInv, [Next]_vars
  PROVE  PathsInv'
<1>1. CASE BeginPaths
  <2>1. Root \in Path
    BY TopAssumption DEF Root, Path, Depths
  <2>2. InBounds(Root) /\ Clean(Root)
    BY ZeroFits DEF InBounds, Clean, Root
  <2>3. TypeOK'
    BY <1>1, <2>1, MaxPathsAssumption DEF BeginPaths, TypeOK
  <2>4. Running(fp)'
    BY <1>1, <2>1, <2>2 DEF BeginPaths, Running, InBounds, Clean
  <2>5. PathsCanonical'
    BY <1>1 DEF BeginPaths, PathsCanonical
  <2> QED BY <2>3, <2>4, <2>5 DEF PathsInv
<1>2. CASE Plus
  <2>1. PICK k : Operation(0, Last(k), <<>>)
    BY <1>2 DEF Plus
  <2> QED BY <2>1, LastDomain, LastKeeps
<1>3. CASE PushOne
  <2>1. PICK v, k : \/ Operation(0, None, <<v>>)
                    \/ Operation(0, Last(k), <<v>>)
    BY <1>3 DEF PushOne
  <2>2. Len(<<v>>) \in Nat
    OBVIOUS
  <2> QED BY <2>1, <2>2, LastDomain, LastKeeps
<1>4. CASE PushTwoOrThree
  <2>1. PICK values \in Pushes(2) \cup Pushes(3) :
          \E k : Operation(0, None, values) \/ Operation(0, Last(k), values)
    BY <1>4 DEF PushTwoOrThree
  <2>2. Len(values) \in Nat
    BY PushesLen
  <2> QED BY <2>1, <2>2, LastDomain, LastKeeps
<1>5. CASE PushN
  <2>1. PICK count \in PushCounts : \E n \in Operands, values \in Pushes(count) :
          Operation(0, Last(n), values)
    BY <1>5 DEF PushN
  <2>2. count \in Nat
    BY DEF PushCounts
  <2>3. PICK n \in Operands, values \in Pushes(count) : Operation(0, Last(n), values)
    BY <2>1
  <2>4. Len(values) \in Nat
    BY <2>2, PushesLen
  <2> QED BY <2>3, <2>4, LastDomain, LastKeeps
<1>6. CASE PushNAndNonTopological
  <2>1. PICK delta \in Scattered(fp.last, {v + 1 : v \in Signed}), count \in PushCounts :
          \E values \in Pushes(count) : Operation(0, delta, values)
    BY <1>6 DEF PushNAndNonTopological
  <2>2. PICK values \in Pushes(count) : Operation(0, delta, values)
    BY <2>1
  <2>3. count \in Nat
    BY DEF PushCounts
  <2>4. Len(values) \in Nat
    BY <2>3, PushesLen
  <2>5. DOMAIN delta \subseteq 0 .. fp.last
    BY ScatteredDomain
  <2> QED BY <2>2, <2>4, <2>5, LastKeeps
<1>7. CASE PopOne
  BY <1>7, PopToKeeps DEF PopOne
<1>8. CASE PopAllButOne
  <2>1. fp.last \in Nat
    BY TopAssumption DEF PathsInv, Running, Path, Depths
  <2> QED BY <1>8, <2>1, PopToKeeps DEF PopAllButOne
<1>9. CASE PopN
  BY <1>9, PopToKeeps, OperandsAssumption DEF PopN
<1>10. CASE PopNAndNonTopological
  <2>1. PICK n \in Operands : \E delta \in Scattered(fp.last - n, Signed) :
          Operation(n, delta, <<>>)
    BY <1>10 DEF PopNAndNonTopological
  <2>2. PICK delta \in Scattered(fp.last - n, Signed) : Operation(n, delta, <<>>)
    BY <2>1
  <2>3. n \in Nat /\ Len(<<>>) \in Nat
    BY OperandsAssumption
  <2>4. DOMAIN delta \subseteq 0 .. fp.last - n
    BY ScatteredDomain
  <2> QED BY <2>2, <2>3, <2>4, OperationKeeps
<1>11. CASE NonTopological
  <2>1. PICK delta \in Scattered(fp.last, Signed) : Operation(0, delta, <<>>)
    BY <1>11 DEF NonTopological
  <2>2. DOMAIN delta \subseteq 0 .. fp.last
    BY ScatteredDomain
  <2> QED BY <2>1, <2>2, LastKeeps
<1>12. CASE NonTopologicalPenultimate
  <2>1. CASE fp.last = 0
    BY <1>12, <2>1 DEF NonTopologicalPenultimate, PathsInv, TypeOK, Running, InBounds, Clean,
                       PathsCanonical, Canonical, TryPack
  <2>2. CASE fp.last # 0
    <3>1. Operation(0, At(fp.last - 1, 1), <<>>)
      BY <1>12, <2>2 DEF NonTopologicalPenultimate
    <3>2. fp.last \in Nat \ {0}
      BY <2>2, TopAssumption DEF PathsInv, Running, Path, Depths
    <3>3. DOMAIN At(fp.last - 1, 1) \subseteq 0 .. fp.last
      BY <3>2 DEF At
    <3> QED BY <3>1, <3>3, LastKeeps
  <2> QED BY <2>1, <2>2
<1>13. CASE Finish \/ Truncated \/ UNCHANGED vars
  BY <1>13 DEF Finish, Truncated, vars, PathsInv, TypeOK, Running, InBounds, Clean,
               PathsCanonical, Canonical, TryPack
<1> QED
  BY <1>1, <1>2, <1>3, <1>4, <1>5, <1>6, <1>7, <1>8, <1>9, <1>10, <1>11, <1>12, <1>13
  DEF Next, ReadOperation

(* The running path and the buffer are what their types say, and no more   *)
(* paths are kept than max_field_paths allows (read_field_paths).          *)
THEOREM PathTypesCorrect == Spec => []TypeOK
<1>1. Init => PathsInv
  BY PathsInit
<1>2. PathsInv /\ [Next]_vars => PathsInv'
  BY PathsStep
<1>3. PathsInv => TypeOK
  BY DEF PathsInv
<1> QED BY <1>1, <1>2, <1>3, PTL DEF Spec

(* Every path the reader hands out fits its key: pack_decoded, which does  *)
(* not check, is only reached by paths that try_pack would accept.         *)
THEOREM StoredPathsCanonical == Spec => []PathsCanonical
<1>1. Init => PathsInv
  BY PathsInit
<1>2. PathsInv /\ [Next]_vars => PathsInv'
  BY PathsStep
<1>3. PathsInv => PathsCanonical
  BY DEF PathsInv
<1> QED BY <1>1, <1>2, <1>3, PTL DEF Spec

----------------------------------------------------------------------------
(* Numbers.                                                                *)

(* A set of numbers that is not empty has a least element. *)
LEMMA LeastElement ==
  ASSUME NEW S, S \subseteq Nat, S # {}
  PROVE  \E least \in S : \A k \in S : least <= k
<1> DEFINE Upto == {0 .. k : k \in S}
<1>1. Upto \subseteq FiniteSubsetsOf(Nat) /\ Upto # {}
  <2>1. ASSUME NEW k \in S PROVE 0 .. k \in FiniteSubsetsOf(Nat)
    BY FS_Interval DEF FiniteSubsetsOf
  <2> QED BY <2>1
<1>2. PICK small \in Upto :
        \A other \in Upto : ~(<<other, small>> \in StrictSubsetOrdering(Nat))
  BY <1>1, FS_StrictSubsetOrderingWellFounded, WFMin
<1>3. PICK least \in S : small = 0 .. least
  OBVIOUS
<1>4. ASSUME NEW k \in S PROVE least <= k
  <2> SUFFICES ASSUME k < least PROVE FALSE
    OBVIOUS
  <2>1. 0 .. k \in Upto /\ 0 .. k \subseteq 0 .. least /\ 0 .. k # 0 .. least
    OBVIOUS
  <2> HIDE DEF Upto
  <2>2. <<0 .. k, small>> \in StrictSubsetOrdering(Nat)
    BY <1>3, <2>1 DEF StrictSubsetOrdering
  <2> QED BY <1>2, <2>1, <2>2
<1> QED BY <1>4

(* What holds at 0 and goes from each number to the next. *)
LEMMA Stepwise ==
  ASSUME NEW n \in Nat, NEW S, 0 \in S, \A k \in 0 .. n - 1 : k \in S => k + 1 \in S
  PROVE  \A k \in 0 .. n : k \in S
<1> DEFINE T == {k \in 0 .. n : k \notin S}
<1> SUFFICES ASSUME T # {} PROVE FALSE
  OBVIOUS
<1>1. T \subseteq Nat
  OBVIOUS
<1>2. PICK least \in T : \A k \in T : least <= k
  <2> HIDE DEF T
  <2> QED BY <1>1, LeastElement
<1>3. least \in 0 .. n /\ least \notin S /\ least # 0
  OBVIOUS
<1>4. least - 1 \in 0 .. n - 1 /\ (least - 1) + 1 = least /\ least - 1 \in 0 .. n /\ ~(least <= least - 1)
  BY <1>3
<1>5. least - 1 \in S
  BY <1>2, <1>4
<1> QED BY <1>3, <1>4, <1>5

(* f is what a recursion over 0 .. n defines, from its start and its steps. *)
Recurses(f, n, V, start, step) ==
  /\ f \in [0 .. n -> V]
  /\ f[0] = start
  /\ \A k \in 1 .. n : f[k] = step[k][f[k - 1]]

(* A recursion over an interval defines a function. *)
LEMMA Recursion ==
  ASSUME NEW n \in Nat, NEW V, NEW start \in V, NEW step \in [1 .. n -> [V -> V]]
  PROVE  \E f : Recurses(f, n, V, start, step)
<1> DEFINE Upto(m, f) == f[0] = start /\ \A k \in 1 .. m : f[k] = step[k][f[k - 1]]
           S == {m \in 0 .. n : \E f \in [0 .. m -> V] : Upto(m, f)}
<1>1. 0 \in S
  <2> DEFINE f == [k \in 0 .. 0 |-> start]
  <2>1. f \in [0 .. 0 -> V] /\ Upto(0, f)
    OBVIOUS
  <2>2. 0 \in 0 .. n
    OBVIOUS
  <2> QED BY <2>1, <2>2
<1>2. ASSUME NEW m \in 0 .. n - 1, m \in S PROVE m + 1 \in S
  <2>1. PICK f \in [0 .. m -> V] : Upto(m, f)
    BY <1>2
  <2> DEFINE g == [k \in 0 .. m + 1 |-> IF k <= m THEN f[k] ELSE step[m + 1][f[m]]]
  <2>2. m + 1 \in 0 .. n /\ m + 1 \in 1 .. n /\ m \in 0 .. m /\ m \in Nat
    OBVIOUS
  <2>3. step[m + 1][f[m]] \in V
    BY <2>2
  <2>4. g \in [0 .. m + 1 -> V]
    BY <2>2, <2>3
  <2>5. ASSUME NEW k \in 1 .. m + 1
        PROVE  g[k] = step[k][g[k - 1]]
    <3>1. CASE k <= m
      <4>1. g[k] = f[k] /\ k \in 1 .. m
        BY <2>2, <3>1
      <4>2. k - 1 \in 0 .. m + 1 /\ k - 1 <= m
        BY <2>2, <3>1
      <4>3. g[k - 1] = f[k - 1]
        BY <4>2
      <4>4. f[k] = step[k][f[k - 1]]
        BY <2>1, <4>1
      <4> QED BY <4>1, <4>3, <4>4
    <3>2. CASE ~(k <= m)
      <4>1. k = m + 1 /\ k - 1 = m /\ m \in 0 .. m + 1
        BY <2>2, <3>2
      <4>2. g[k] = step[m + 1][f[m]] /\ g[m] = f[m]
        BY <2>2, <3>2, <4>1
      <4> QED BY <4>1, <4>2
    <3> QED BY <3>1, <3>2
  <2>6. g[0] = start
    BY <2>1, <2>2
  <2> HIDE DEF g
  <2>7. Upto(m + 1, g)
    BY <2>5, <2>6
  <2> QED BY <2>2, <2>4, <2>7
<1>3. n \in S
  <2> HIDE DEF S
  <2>1. \A k \in 0 .. n : k \in S
    BY <1>1, <1>2, Stepwise
  <2> QED BY <2>1
<1>4. PICK f \in [0 .. n -> V] : Upto(n, f)
  BY <1>3
<1>5. Recurses(f, n, V, start, step)
  BY <1>4 DEF Recurses
<1> QED BY <1>5

(* Dividing what was put together from a quotient and a remainder. *)
LEMMA RemainderAndQuotient ==
  ASSUME NEW h \in Nat \ {0}, NEW q \in Nat, NEW r \in 0 .. h - 1
  PROVE  (h * q + r) % h = r /\ (h * q + r) \div h = q
<1> DEFINE x == h * q + r
           s == x % h
           t == x \div h
<1>1. x \in Int
  BY SMTT(20)
<1>2. x = h * t + s /\ t \in Int /\ s \in 0 .. h - 1
  BY <1>1, SMTT(20)
<1>3. h * (q - t) = h * q - h * t /\ h * q \in Int /\ h * t \in Int
  BY <1>2, SMTT(20)
<1> HIDE DEF s, t
<1>4. h * (q - t) < h /\ -h < h * (q - t)
  BY <1>2, <1>3
<1>5. q - t = 0
  <2>1. ASSUME NEW c \in Int, h * c < h, -h < h * c PROVE c = 0
    <3>1. CASE c >= 1
      <4>1. h * c >= h * 1
        BY <3>1, SMTT(20)
      <4> QED BY <2>1, <4>1
    <3>2. CASE c <= -1
      <4>1. h * c <= h * (-1) /\ h * (-1) = -h
        BY <3>2, SMTT(20)
      <4> QED BY <2>1, <4>1
    <3> QED BY <3>1, <3>2
  <2> QED BY <1>2, <1>4, <2>1
<1>6. t = q /\ s = r
  BY <1>1, <1>2, <1>3, <1>5
<1> QED BY <1>6 DEF s, t

(* A product of natural numbers is one. *)
LEMMA ProductIn == ASSUME NEW a \in Nat, NEW b \in Nat PROVE a * b \in Nat
  OBVIOUS
----------------------------------------------------------------------------
(* Weights.                                                                *)

Levels == 0 .. Top + 1

(* Weight, which FieldPaths defines by recursion, is what it says. *)
LEMMA WeightIs ==
  /\ Weight \in [Levels -> Nat \ {0}]
  /\ Weight[0] = 1
  /\ \A d \in Depths : Weight[d + 1] = Weight[d] * Limit[d]
<1> DEFINE n == Top + 1
           V == Nat \ {0}
           step == [k \in 1 .. n |-> [v \in V |-> v * Limit[k - 1]]]
<1>1. n \in Nat
  BY TopAssumption
<1>2. step \in [1 .. n -> [V -> V]]
  <2>1. ASSUME NEW k \in 1 .. n, NEW v \in V PROVE v * Limit[k - 1] \in V
    <3>1. k - 1 \in Depths
      BY TopAssumption DEF Depths
    <3>2. Limit[k - 1] \in V
      BY <3>1, LimitAssumption
    <3> QED BY <3>2
  <2> QED BY <2>1
<1>3. PICK f \in [0 .. n -> V] : f[0] = 1 /\ \A k \in 1 .. n : f[k] = step[k][f[k - 1]]
  <2> DEFINE start == 1
  <2>1. start \in V
    OBVIOUS
  <2> HIDE DEF n, step, V, start
  <2>2. PICK f : Recurses(f, n, V, start, step)
    BY <1>1, <1>2, <2>1, Recursion
  <2> QED BY <2>2 DEF start, Recurses
<1> DEFINE R(g) == g = [d \in 0 .. Top + 1 |-> IF d = 0 THEN 1 ELSE g[d - 1] * Limit[d - 1]]
<1>4. R(f)
  <2>1. ASSUME NEW k \in 0 .. n, k # 0 PROVE f[k] = f[k - 1] * Limit[k - 1]
    <3>1. k \in 1 .. n /\ k - 1 \in 0 .. n
      BY <1>1, <2>1
    <3>2. f[k - 1] \in V
      BY <3>1
    <3>3. step[k][f[k - 1]] = f[k - 1] * Limit[k - 1]
      BY <3>1, <3>2
    <3> QED BY <1>3, <3>1, <3>3
  <2> HIDE DEF step
  <2> QED BY <1>3, <2>1
<1>5. Weight = CHOOSE g : R(g)
  BY DEF Weight
<1>6. R(Weight)
  <2> HIDE DEF R
  <2> QED BY <1>4, <1>5
<1>7. Weight[0] = 1 /\ \A d \in Depths : Weight[d + 1] = Weight[d] * Limit[d]
  <2>1. 0 \in 0 .. Top + 1 /\ \A d \in Depths : d + 1 \in 0 .. Top + 1 /\ d + 1 # 0 /\ (d + 1) - 1 = d
    BY TopAssumption DEF Depths
  <2> QED BY <1>6, <2>1
<1>8. \A d \in 0 .. n : Weight[d] \in V
  <2> DEFINE S == {d \in 0 .. n : Weight[d] \in V}
  <2>1. 0 \in S
    BY <1>1, <1>7
  <2>2. ASSUME NEW d \in 0 .. n - 1, d \in S PROVE d + 1 \in S
    <3>1. d \in Depths /\ d + 1 \in 0 .. n
      BY TopAssumption DEF Depths
    <3>2. Limit[d] \in V /\ Weight[d] \in V
      BY <2>2, <3>1, LimitAssumption
    <3>3. Weight[d] * Limit[d] \in V
      BY <3>2
    <3> QED BY <1>7, <3>1, <3>3
  <2> HIDE DEF S, n
  <2>3. \A d \in 0 .. n : d \in S
    BY <1>1, <2>1, <2>2, Stepwise
  <2> QED BY <2>3 DEF S
<1>9. Weight = [d \in 0 .. n |-> Weight[d]]
  BY <1>6
<1> QED BY <1>7, <1>8, <1>9 DEF Levels

(* A deeper weight is a multiple of a shallower one. *)
LEMMA WeightsDivide ==
  ASSUME NEW d \in Levels, NEW e \in Levels, d <= e
  PROVE  \E w \in Nat \ {0} : Weight[e] = Weight[d] * w
<1> DEFINE n == e - d
           S == {k \in 0 .. n : \E w \in Nat \ {0} : Weight[d + k] = Weight[d] * w}
<1>1. n \in Nat /\ d \in Nat
  BY TopAssumption DEF Levels
<1>2. 0 \in S
  <2>1. d + 0 = d /\ 0 \in 0 .. n /\ 1 \in Nat \ {0}
    BY <1>1
  <2>2. Weight[d] = Weight[d] * 1
    BY WeightIs
  <2> QED BY <2>1, <2>2
<1>3. ASSUME NEW k \in 0 .. n - 1, k \in S PROVE k + 1 \in S
  <2>1. PICK w \in Nat \ {0} : Weight[d + k] = Weight[d] * w
    BY <1>3
  <2>2. /\ d + k \in Depths /\ (d + k) + 1 = d + (k + 1)
        /\ k + 1 \in 0 .. n
    BY <1>1, TopAssumption DEF Levels, Depths
  <2>3. Weight[d + (k + 1)] = Weight[d + k] * Limit[d + k]
    BY <2>2, WeightIs
  <2>4. Limit[d + k] \in Nat \ {0} /\ Weight[d] \in Nat \ {0}
    BY <2>2, LimitAssumption, WeightIs
  <2>5. w * Limit[d + k] \in Nat \ {0}
    BY <2>4
  <2>6. Weight[d + (k + 1)] = Weight[d] * (w * Limit[d + k])
    <3> DEFINE a == Weight[d]
               b == Limit[d + k]
    <3>1. a \in Nat /\ b \in Nat
      BY <2>4
    <3>2. Weight[d + (k + 1)] = (a * w) * b
      BY <2>1, <2>3
    <3> HIDE DEF a, b
    <3>3. (a * w) * b = a * (w * b)
      BY <3>1
    <3> QED BY <3>2, <3>3 DEF a, b
  <2> QED BY <2>2, <2>5, <2>6
<1>4. n \in S
  <2> HIDE DEF S
  <2>1. \A k \in 0 .. n : k \in S
    <3> HIDE DEF n
    <3> QED BY <1>1, <1>2, <1>3, Stepwise
  <2> QED BY <1>1, <2>1
<1>5. d + n = e
  BY <1>1 DEF Levels
<1> HIDE DEF n
<1> QED BY <1>4, <1>5

----------------------------------------------------------------------------
(* Keys.                                                                   *)

(* The sums that Pack adds up. *)
Sums(p) ==
  LET sum[d \in 0 .. Top + 1] ==
        IF d = 0 THEN p.last * DepthWeight ELSE sum[d - 1] + p.data[d - 1] * Weight[d - 1]
  IN  sum

(* What the components above depth d add to a key. *)
Low(p, d) == Sums(p)[d] - p.last * DepthWeight

(* A path the reader may store. *)
Packable(p) == p \in Path /\ TryPack(p)

(* Pack is the last of its sums. *)
LEMMA PackSums ==
  ASSUME NEW p
  PROVE  Pack(p) = Sums(p)[Top + 1]
BY DEF Pack, Sums

(* The depth of a path lies above all its components. *)
LEMMA DepthWeightIs ==
  /\ DepthWeight \in Nat \ {0}
  /\ \A d \in Levels : \E w \in Nat \ {0} : DepthWeight = Weight[d] * w
  /\ Weight[Top + 1] <= DepthWeight
<1> DEFINE a == Weight[Top + 1]
<1>1. Top + 1 \in Levels /\ \A d \in Levels : d <= Top + 1
  BY TopAssumption DEF Levels
<1>2. a \in Nat \ {0} /\ Gap \in Nat \ {0} /\ DepthWeight = a * Gap
  BY <1>1, WeightIs, GapAssumption DEF DepthWeight
<1>3. a * Gap \in Nat \ {0} /\ a <= a * Gap
  <2> HIDE DEF a
  <2>1. a * Gap \in Nat /\ a * Gap >= a * 1
    BY <1>2, SMTT(20)
  <2> QED BY <1>2, <2>1
<1>4. ASSUME NEW d \in Levels
      PROVE  \E w \in Nat \ {0} : DepthWeight = Weight[d] * w
  <2>1. PICK v \in Nat \ {0} : a = Weight[d] * v
    BY <1>1, WeightsDivide
  <2>2. v * Gap \in Nat \ {0}
    BY <1>2
  <2> DEFINE b == Weight[d]
  <2>3. b \in Nat /\ DepthWeight = (b * v) * Gap
    BY <1>2, <2>1, WeightIs
  <2>4. DepthWeight = b * (v * Gap)
    <3> HIDE DEF b
    <3>1. (b * v) * Gap = b * (v * Gap)
      BY <1>2, <2>3
    <3> QED BY <2>3, <3>1
  <2> QED BY <2>2, <2>4
<1> QED BY <1>2, <1>3, <1>4

(* The sums of Pack, by their recursion. *)
LEMMA SumsAre ==
  ASSUME NEW p, Packable(p)
  PROVE  /\ Sums(p) \in [Levels -> Int]
         /\ Sums(p)[0] = p.last * DepthWeight
         /\ \A d \in Depths : Sums(p)[d + 1] = Sums(p)[d] + p.data[d] * Weight[d]
<1> DEFINE n == Top + 1
           start == p.last * DepthWeight
           step == [k \in 1 .. n |-> [v \in Int |-> v + p.data[k - 1] * Weight[k - 1]]]
           R(g) == g = [d \in 0 .. Top + 1 |->
                          IF d = 0 THEN p.last * DepthWeight
                                   ELSE g[d - 1] + p.data[d - 1] * Weight[d - 1]]
<1>1. n \in Nat
  BY TopAssumption
<1>2. start \in Int
  <2>1. p.last \in Nat
    BY TopAssumption DEF Packable, Path, Depths
  <2> QED BY <2>1, DepthWeightIs
<1>3. ASSUME NEW k \in 1 .. n PROVE k - 1 \in Depths /\ p.data[k - 1] * Weight[k - 1] \in Int
  <2>1. k - 1 \in Depths /\ k - 1 \in Levels
    BY TopAssumption DEF Depths, Levels
  <2>2. p.data[k - 1] \in Int /\ Weight[k - 1] \in Int
    BY <2>1, WeightIs DEF Packable, Path
  <2> QED BY <2>1, <2>2
<1>4. step \in [1 .. n -> [Int -> Int]]
  <2>1. ASSUME NEW k \in 1 .. n PROVE [v \in Int |-> v + p.data[k - 1] * Weight[k - 1]] \in [Int -> Int]
    <3> DEFINE term == p.data[k - 1] * Weight[k - 1]
    <3>1. term \in Int
      BY <1>3
    <3> HIDE DEF term
    <3>2. [v \in Int |-> v + term] \in [Int -> Int]
      BY <3>1
    <3> QED BY <3>2 DEF term
  <2> QED BY <2>1
<1>5. PICK f : Recurses(f, n, Int, start, step)
  <2> HIDE DEF n, step, start
  <2> QED BY <1>1, <1>2, <1>4, Recursion
<1>6. f \in [0 .. n -> Int] /\ f[0] = start
  BY <1>5 DEF Recurses
<1>7. ASSUME NEW k \in 0 .. n, k # 0 PROVE f[k] = f[k - 1] + p.data[k - 1] * Weight[k - 1]
  <2>1. k \in 1 .. n /\ k - 1 \in 0 .. n
    BY <1>1, <1>7
  <2>2. f[k - 1] \in Int
    BY <1>6, <2>1
  <2>3. step[k][f[k - 1]] = f[k - 1] + p.data[k - 1] * Weight[k - 1]
    BY <2>1, <2>2
  <2> HIDE DEF step
  <2> QED BY <1>5, <2>1, <2>3 DEF Recurses
<1>8. R(f)
  <2> HIDE DEF step
  <2> QED BY <1>6, <1>7
<1>9. R(Sums(p))
  <2>1. Sums(p) = CHOOSE g : R(g)
    BY DEF Sums
  <2> HIDE DEF R
  <2> QED BY <1>8, <2>1
<1> DEFINE s == Sums(p)
<1>10. s[0] = start /\ \A d \in Depths : s[d + 1] = s[d] + p.data[d] * Weight[d]
  <2>1. 0 \in 0 .. Top + 1 /\ \A d \in Depths : d + 1 \in 0 .. Top + 1 /\ d + 1 # 0 /\ (d + 1) - 1 = d
    BY TopAssumption DEF Depths
  <2> HIDE DEF step
  <2> QED BY <1>9, <2>1
<1>11. ASSUME NEW d \in 0 .. n PROVE s[d] \in Int
  <2> DEFINE S == {e \in 0 .. n : s[e] \in Int}
  <2>1. 0 \in S
    BY <1>1, <1>2, <1>10
  <2>2. ASSUME NEW e \in 0 .. n - 1, e \in S PROVE e + 1 \in S
    <3>1. e \in Depths /\ e + 1 \in 0 .. n /\ e + 1 \in 1 .. n /\ (e + 1) - 1 = e
      BY TopAssumption DEF Depths
    <3>2. p.data[e] * Weight[e] \in Int /\ s[e] \in Int
      BY <1>3, <2>2, <3>1
    <3> HIDE DEF s
    <3> QED BY <1>10, <3>1, <3>2
  <2> HIDE DEF S, n
  <2>3. \A e \in 0 .. n : e \in S
    BY <1>1, <2>1, <2>2, Stepwise
  <2> QED BY <2>3 DEF S
<1>12. s \in [Levels -> Int]
  <2>1. s = [d \in 0 .. n |-> s[d]]
    BY <1>9
  <2> HIDE DEF s, n
  <2>2. s \in [0 .. n -> Int]
    BY <1>11, <2>1
  <2> QED BY <2>2 DEF n, Levels
<1> QED BY <1>10, <1>12

(* A component fits between the weights of its depth and of the next. *)
LEMMA DigitFits ==
  ASSUME NEW w \in Nat \ {0}, NEW l \in Nat \ {0}, NEW x \in 0 .. w - 1, NEW v \in 0 .. l - 1
  PROVE  x + v * w \in 0 .. w * l - 1
<1>1. v * w \in Nat /\ v * w <= (l - 1) * w
  <2>1. (l - 1) - v \in Nat
    OBVIOUS
  <2>2. ((l - 1) - v) * w \in Nat
    BY <2>1, ProductIn
  <2>3. ((l - 1) - v) * w = (l - 1) * w - v * w
    BY SMTT(20)
  <2>4. v * w \in Nat /\ (l - 1) * w \in Int
    BY ProductIn
  <2> QED BY <2>2, <2>3, <2>4
<1>2. (l - 1) * w = w * l - w /\ w * l \in Int
  BY SMTT(20)
<1> QED BY <1>1, <1>2

(* Low grows by one component per depth and stays below the weight. *)
LEMMA LowIs ==
  ASSUME NEW p, Packable(p)
  PROVE  /\ Low(p, 0) = 0
         /\ \A d \in Depths : Low(p, d + 1) = Low(p, d) + p.data[d] * Weight[d]
         /\ \A d \in Levels : Low(p, d) \in 0 .. Weight[d] - 1
         /\ Pack(p) = p.last * DepthWeight + Low(p, Top + 1)
<1> DEFINE top == p.last * DepthWeight
           n == Top + 1
<1>1. n \in Nat /\ 0 \in Levels /\ n \in Levels /\ Levels = 0 .. n
  BY TopAssumption DEF Levels
<1>2. top \in Nat
  <2>1. p.last \in Nat
    BY TopAssumption DEF Packable, Path, Depths
  <2> QED BY <2>1, DepthWeightIs
<1>3. \A d \in Levels : Sums(p)[d] \in Int
  BY SumsAre
<1>4. Low(p, 0) = 0
  <2> HIDE DEF top
  <2> QED BY <1>1, <1>2, <1>3, SumsAre DEF Low, top
<1>5. ASSUME NEW d \in Depths
      PROVE  Low(p, d + 1) = Low(p, d) + p.data[d] * Weight[d]
  <2> DEFINE term == p.data[d] * Weight[d]
  <2>1. d \in Levels /\ d + 1 \in Levels
    BY TopAssumption DEF Depths, Levels
  <2>2. term \in Int
    <3>1. p.data[d] \in Int /\ Weight[d] \in Int
      BY <2>1, WeightIs DEF Packable, Path
    <3> QED BY <3>1
  <2>3. Sums(p)[d + 1] = Sums(p)[d] + term /\ Sums(p)[d] \in Int
    BY <1>3, <2>1, SumsAre
  <2>4. Low(p, d + 1) = Sums(p)[d + 1] - top /\ Low(p, d) = Sums(p)[d] - top
    BY DEF Low
  <2> HIDE DEF top, term
  <2>5. Low(p, d + 1) = Low(p, d) + term
    BY <1>2, <2>2, <2>3, <2>4
  <2> QED BY <2>5 DEF term
<1>6. \A d \in Levels : Low(p, d) \in 0 .. Weight[d] - 1
  <2> DEFINE S == {d \in 0 .. n : Low(p, d) \in 0 .. Weight[d] - 1}
  <2>1. 0 \in S
    BY <1>1, <1>4, WeightIs
  <2>2. ASSUME NEW d \in 0 .. n - 1, d \in S PROVE d + 1 \in S
    <3>1. d \in Depths /\ d + 1 \in 0 .. n /\ d \in Levels
      BY TopAssumption DEF Depths, Levels
    <3>2. /\ Weight[d] \in Nat \ {0} /\ Limit[d] \in Nat \ {0}
          /\ Low(p, d) \in 0 .. Weight[d] - 1
          /\ p.data[d] \in 0 .. Limit[d] - 1
      BY <2>2, <3>1, WeightIs, LimitAssumption DEF Packable, TryPack, Component
    <3>3. Low(p, d) + p.data[d] * Weight[d] \in 0 .. Weight[d] * Limit[d] - 1
      BY <3>2, DigitFits
    <3> QED BY <1>5, <3>1, <3>3, WeightIs
  <2> HIDE DEF S, n
  <2>3. \A d \in 0 .. n : d \in S
    BY <1>1, <2>1, <2>2, Stepwise
  <2> QED BY <1>1, <2>3 DEF S
<1>7. Pack(p) = top + Low(p, n)
  <2>1. Pack(p) = Sums(p)[n] /\ Low(p, n) = Sums(p)[n] - top /\ Sums(p)[n] \in Int
    BY <1>1, <1>3, PackSums DEF Low
  <2> HIDE DEF top, n
  <2> QED BY <1>2, <2>1
<1> QED BY <1>4, <1>5, <1>6, <1>7

(* What is above a depth in a key is a multiple of the weight of the depth. *)
LEMMA LowSplits ==
  ASSUME NEW p, Packable(p), NEW d \in Levels
  PROVE  \E q \in Nat : Low(p, Top + 1) = Weight[d] * q + Low(p, d)
<1> DEFINE n == Top + 1 - d
           S == {k \in 0 .. n : \E q \in Nat : Low(p, d + k) = Weight[d] * q + Low(p, d)}
<1>1. n \in Nat /\ d \in Nat /\ d + n = Top + 1
  BY TopAssumption DEF Levels
<1>2. Weight[d] \in Nat \ {0} /\ Low(p, d) \in Int
  BY LowIs, WeightIs
<1>3. 0 \in S
  <2>1. d + 0 = d /\ 0 \in 0 .. n
    BY <1>1
  <2>2. Low(p, d + 0) = Low(p, d)
    BY <2>1
  <2>3. Weight[d] * 0 = 0
    BY <1>2
  <2>4. Low(p, d + 0) = Weight[d] * 0 + Low(p, d)
    BY <1>2, <2>2, <2>3
  <2> HIDE DEF n
  <2> QED BY <2>1, <2>4
<1>4. ASSUME NEW k \in 0 .. n - 1, k \in S PROVE k + 1 \in S
  <2>1. PICK q \in Nat : Low(p, d + k) = Weight[d] * q + Low(p, d)
    BY <1>4
  <2>2. /\ d + k \in Depths /\ d + k \in Levels /\ (d + k) + 1 = d + (k + 1)
        /\ k + 1 \in 0 .. n /\ d <= d + k
    BY <1>1, TopAssumption DEF Levels, Depths
  <2>3. PICK w \in Nat \ {0} : Weight[d + k] = Weight[d] * w
    BY <2>2, WeightsDivide
  <2> DEFINE a == Weight[d]
             v == p.data[d + k]
             x == Low(p, d)
  <2>4. v \in Nat
    <3>1. Limit[d + k] \in Nat /\ v \in 0 .. Limit[d + k] - 1
      BY <2>2, LimitAssumption DEF Packable, TryPack, Component
    <3> QED BY <3>1
  <2>5. Low(p, d + (k + 1)) = Low(p, d + k) + v * Weight[d + k]
    <3>1. Low(p, (d + k) + 1) = Low(p, d + k) + v * Weight[d + k]
      BY <2>2, LowIs
    <3> QED BY <2>2, <3>1
  <2>6. Low(p, d + (k + 1)) = (a * q + x) + v * (a * w)
    BY <2>1, <2>3, <2>5
  <2>7. (a * q + x) + v * (a * w) = a * (q + v * w) + x /\ q + v * w \in Nat
    <3> HIDE DEF a, v, x
    <3>1. a \in Nat /\ x \in Int
      BY <1>2 DEF a, x
    <3>2. v * w \in Nat
      BY <2>4
    <3>3. v * (a * w) = a * (v * w)
      BY <2>4, <3>1
    <3>4. a * (q + v * w) = a * q + a * (v * w)
      BY <3>1, <3>2
    <3>5. a * q \in Nat /\ a * (v * w) \in Nat
      BY <3>1, <3>2, ProductIn
    <3> QED BY <3>1, <3>2, <3>3, <3>4, <3>5
  <2> HIDE DEF n, v, x
  <2>8. Low(p, d + (k + 1)) = Weight[d] * (q + v * w) + Low(p, d)
    BY <2>6, <2>7 DEF x
  <2> QED BY <2>2, <2>7, <2>8
<1>5. n \in S
  <2> HIDE DEF S
  <2>1. \A k \in 0 .. n : k \in S
    <3> HIDE DEF n
    <3> QED BY <1>1, <1>3, <1>4, Stepwise
  <2> QED BY <1>1, <2>1
<1> HIDE DEF n
<1> QED BY <1>1, <1>5

(* So is what is above a depth in the whole key, its length included. *)
LEMMA KeySplits ==
  ASSUME NEW p, Packable(p), NEW d \in Levels
  PROVE  \E q \in Nat : Pack(p) = Weight[d] * q + Low(p, d)
<1>1. PICK q \in Nat : Low(p, Top + 1) = Weight[d] * q + Low(p, d)
  BY LowSplits
<1>2. PICK w \in Nat \ {0} : DepthWeight = Weight[d] * w
  BY DepthWeightIs
<1> DEFINE a == Weight[d]
           l == p.last
           x == Low(p, d)
<1>3. l \in Nat /\ a \in Nat /\ x \in Int
  <2>1. l \in Nat
    BY TopAssumption DEF Packable, Path, Depths
  <2> QED BY <2>1, LowIs, WeightIs
<1>4. Pack(p) = l * (a * w) + (a * q + x)
  BY <1>1, <1>2, LowIs
<1> HIDE DEF a, l, x
<1>5. l * w \in Nat /\ l * w + q \in Nat
  BY <1>3, ProductIn
<1>6. l * (a * w) = a * (l * w) /\ a * (l * w + q) = a * (l * w) + a * q
  BY <1>3, <1>5
<1>7. a * (l * w) \in Int /\ a * q \in Int
  BY <1>3, <1>5, ProductIn
<1>8. Pack(p) = a * (l * w + q) + x
  BY <1>3, <1>4, <1>6, <1>7
<1> QED BY <1>5, <1>8 DEF a, x

(* Shifting and masking a key. *)
LEMMA KeyParts ==
  ASSUME NEW p, Packable(p)
  PROVE  /\ \A d \in Levels : Pack(p) % Weight[d] = Low(p, d)
         /\ \A d \in Depths : (Pack(p) \div Weight[d]) % Limit[d] = p.data[d]
         /\ Pack(p) % DepthWeight = Low(p, Top + 1)
         /\ KeyDepth(Pack(p)) = p.last
<1>1. ASSUME NEW d \in Levels PROVE Pack(p) % Weight[d] = Low(p, d)
  <2>1. PICK q \in Nat : Pack(p) = Weight[d] * q + Low(p, d)
    BY KeySplits
  <2>2. Weight[d] \in Nat \ {0} /\ Low(p, d) \in 0 .. Weight[d] - 1
    BY LowIs, WeightIs
  <2> QED BY <2>1, <2>2, RemainderAndQuotient
<1>2. ASSUME NEW d \in Depths PROVE (Pack(p) \div Weight[d]) % Limit[d] = p.data[d]
  <2> DEFINE a == Weight[d]
             l == Limit[d]
             v == p.data[d]
             x == Low(p, d)
  <2>1. d \in Levels /\ d + 1 \in Levels
    BY TopAssumption DEF Depths, Levels
  <2>2. PICK q \in Nat : Pack(p) = Weight[d + 1] * q + Low(p, d + 1)
    BY <2>1, KeySplits
  <2>3. /\ a \in Nat \ {0} /\ l \in Nat \ {0} /\ v \in 0 .. l - 1
        /\ x \in 0 .. a - 1
    BY <2>1, LowIs, WeightIs, LimitAssumption DEF Packable, TryPack, Component
  <2>4. Pack(p) = (a * l) * q + (x + v * a)
    BY <2>2, LowIs, WeightIs
  <2> HIDE DEF a, l, v, x
  <2>5. l * q \in Nat /\ v \in Nat /\ l * q + v \in Nat
    <3>1. v \in Nat
      BY <2>3
    <3>2. l * q \in Nat
      BY <2>3, ProductIn
    <3> QED BY <3>1, <3>2
  <2>6. (a * l) * q = a * (l * q) /\ a * (l * q + v) = a * (l * q) + a * v /\ v * a = a * v
    BY <2>3, <2>5
  <2>7. a * (l * q) \in Nat /\ a * v \in Nat
    BY <2>3, <2>5, ProductIn
  <2>8. Pack(p) = a * (l * q + v) + x
    BY <2>3, <2>4, <2>6, <2>7
  <2>9. Pack(p) \div a = l * q + v
    BY <2>3, <2>5, <2>8, RemainderAndQuotient
  <2>10. (l * q + v) % l = v
    BY <2>3, RemainderAndQuotient
  <2> QED BY <2>9, <2>10 DEF a, l, v
<1>3. Pack(p) % DepthWeight = Low(p, Top + 1) /\ KeyDepth(Pack(p)) = p.last
  <2> DEFINE a == DepthWeight
             x == Low(p, Top + 1)
             q == p.last
  <2>1. q \in Nat /\ a \in Nat \ {0}
    BY TopAssumption, DepthWeightIs DEF Packable, Path, Depths
  <2>2. x \in 0 .. a - 1
    <3>1. Top + 1 \in Levels
      BY TopAssumption DEF Levels
    <3>2. x \in 0 .. Weight[Top + 1] - 1 /\ Weight[Top + 1] <= a /\ Weight[Top + 1] \in Nat
      BY <3>1, LowIs, WeightIs, DepthWeightIs
    <3> HIDE DEF x, a
    <3> QED BY <2>1, <3>2
  <2>3. Pack(p) = q * a + x
    BY LowIs
  <2> HIDE DEF a, x, q
  <2>4. Pack(p) = a * q + x
    BY <2>1, <2>3
  <2>5. Pack(p) % a = x /\ Pack(p) \div a = q
    BY <2>1, <2>2, <2>4, RemainderAndQuotient
  <2> QED BY <2>5 DEF a, x, q, KeyDepth
<1> QED BY <1>1, <1>2, <1>3

(* A key gives its path back. *)
LEMMA UnpackPack ==
  ASSUME NEW p, Packable(p)
  PROVE  Unpack(Pack(p)) = p
<1>1. p = [data |-> [d \in Depths |-> p.data[d]], last |-> p.last]
  BY DEF Packable, Path
<1>2. [d \in Depths |-> (Pack(p) \div Weight[d]) % Limit[d]] = [d \in Depths |-> p.data[d]]
  BY KeyParts
<1> QED BY <1>1, <1>2, KeyParts DEF Unpack

(* What is below a depth of two keys is the same when the components are. *)
LEMMA LowsAgree ==
  ASSUME NEW p, Packable(p), NEW c, Packable(c), NEW d \in Levels
  PROVE  Low(p, d) = Low(c, d) <=> \A e \in 0 .. d - 1 : p.data[e] = c.data[e]
<1> DEFINE n == Top + 1
           Agree(k) == \A e \in 0 .. k - 1 : p.data[e] = c.data[e]
           S == {k \in 0 .. n : Low(p, k) = Low(c, k) <=> Agree(k)}
<1>1. n \in Nat /\ Levels = 0 .. n
  BY TopAssumption DEF Levels
<1>2. 0 \in S
  BY <1>1, LowIs
<1>3. ASSUME NEW k \in 0 .. n - 1, k \in S PROVE k + 1 \in S
  <2>1. k \in Depths /\ k \in Levels /\ k + 1 \in 0 .. n /\ k \in Nat
    BY TopAssumption DEF Depths, Levels
  <2>2. Agree(k + 1) <=> Agree(k) /\ p.data[k] = c.data[k]
    <3>1. k \in 0 .. (k + 1) - 1 /\ \A e \in 0 .. (k + 1) - 1 : e # k => e \in 0 .. k - 1
      BY <2>1
    <3>2. 0 .. k - 1 \subseteq 0 .. (k + 1) - 1
      BY <2>1
    <3> QED BY <3>1, <3>2
  <2> DEFINE a == Weight[k]
             x == Low(p, k)
             y == Low(c, k)
             v == p.data[k]
             u == c.data[k]
  <2>3. /\ a \in Nat \ {0} /\ x \in 0 .. a - 1 /\ y \in 0 .. a - 1
        /\ v \in Nat /\ u \in Nat
    <3>1. v \in 0 .. Limit[k] - 1 /\ u \in 0 .. Limit[k] - 1 /\ Limit[k] \in Nat
      BY <2>1, LimitAssumption DEF Packable, TryPack, Component
    <3> QED BY <2>1, <3>1, LowIs, WeightIs
  <2>4. Low(p, k + 1) = x + v * a /\ Low(c, k + 1) = y + u * a
    BY <2>1, LowIs
  <2>5. Low(p, k + 1) = Low(c, k + 1) <=> x = y /\ v = u
    <3> HIDE DEF a, x, y, v, u
    <3>1. x + v * a = a * v + x /\ y + u * a = a * u + y
      <4>1. v * a = a * v /\ u * a = a * u /\ v * a \in Nat /\ u * a \in Nat
        BY <2>3, ProductIn
      <4> QED BY <2>3, <4>1
    <3>2. (a * v + x) % a = x /\ (a * v + x) \div a = v
      BY <2>3, RemainderAndQuotient
    <3>3. (a * u + y) % a = y /\ (a * u + y) \div a = u
      BY <2>3, RemainderAndQuotient
    <3> QED BY <2>4, <3>1, <3>2, <3>3
  <2> HIDE DEF Agree
  <2>6. Low(p, k + 1) = Low(c, k + 1) <=> Agree(k + 1)
    BY <1>3, <2>2, <2>5
  <2> QED BY <2>1, <2>6
<1>4. \A k \in 0 .. n : k \in S
  <2> HIDE DEF S, n
  <2> QED BY <1>1, <1>2, <1>3, Stepwise
<1> QED BY <1>1, <1>4

(* The mask of a selected key keeps the components down to its own. *)
LEMMA PrefixIs ==
  ASSUME NEW p, Packable(p), NEW c, Packable(c)
  PROVE  Prefix(Pack(c), Pack(p)) = Low(c, p.last + 1)
<1>1. p.last \in Depths /\ p.last + 1 \in Levels /\ (~(p.last < Top) => p.last + 1 = Top + 1)
  <2>1. p.last \in Depths
    BY DEF Packable, Path
  <2> QED BY <2>1, TopAssumption DEF Depths, Levels
<1>2. CASE p.last < Top
  BY <1>1, <1>2, KeyParts DEF Prefix, ChildWeight
<1>3. CASE ~(p.last < Top)
  BY <1>1, <1>3, KeyParts DEF Prefix, ChildWeight
<1> QED BY <1>2, <1>3

(* Keys have the prefix of a selected key when their components do. *)
LEMMA PrefixesAgree ==
  ASSUME NEW p, Packable(p), NEW c, Packable(c)
  PROVE  Prefix(Pack(c), Pack(p)) = Prefix(Pack(p), Pack(p)) <=>
           \A d \in 0 .. p.last : c.data[d] = p.data[d]
<1>1. p.last + 1 \in Levels /\ (p.last + 1) - 1 = p.last
  BY TopAssumption DEF Packable, Path, Depths, Levels
<1>2. Low(c, p.last + 1) = Low(p, p.last + 1) <=>
        \A d \in 0 .. (p.last + 1) - 1 : c.data[d] = p.data[d]
  BY <1>1, LowsAgree
<1> QED BY <1>1, <1>2, PrefixIs

(* A canonical path is what it names. *)
LEMMA NamedIs ==
  ASSUME NEW p, p \in Path, Canonical(p), NEW c, c \in Path, Canonical(c)
  PROVE  /\ Named(p) = Named(c) <=>
              p.last = c.last /\ \A d \in 0 .. p.last : c.data[d] = p.data[d]
         /\ Named(p) = Named(c) => p = c
<1>1. /\ p.last \in Nat /\ c.last \in Nat /\ p.last \in Depths /\ c.last \in Depths
      /\ Depths = 0 .. Top /\ Top \in Nat
  BY TopAssumption DEF Path, Depths
<1>2. Named(p) = Named(c) => p.last = c.last
  <2>1. ASSUME 0 .. p.last = 0 .. c.last PROVE p.last = c.last
    <3>1. p.last \in 0 .. c.last /\ c.last \in 0 .. p.last
      BY <1>1, <2>1
    <3> QED BY <1>1, <3>1
  <2>2. Named(p) = Named(c) => 0 .. p.last = 0 .. c.last
    <3>1. DOMAIN Named(p) = 0 .. p.last /\ DOMAIN Named(c) = 0 .. c.last
      BY DEF Named
    <3> QED BY <3>1
  <2> QED BY <2>1, <2>2
<1>3. Named(p) = Named(c) => \A d \in 0 .. p.last : c.data[d] = p.data[d]
  <2> SUFFICES ASSUME Named(p) = Named(c), NEW d \in 0 .. p.last
               PROVE  c.data[d] = p.data[d]
    OBVIOUS
  <2>1. Named(p)[d] = p.data[d] /\ Named(c)[d] = c.data[d]
    BY <1>2 DEF Named
  <2> QED BY <2>1
<1>4. p.last = c.last /\ (\A d \in 0 .. p.last : c.data[d] = p.data[d]) => Named(p) = Named(c)
  BY DEF Named
<1>5. ASSUME p.last = c.last, \A d \in 0 .. p.last : c.data[d] = p.data[d] PROVE p = c
  <2>1. ASSUME NEW d \in Depths PROVE p.data[d] = c.data[d]
    <3>1. CASE d > p.last
      BY <1>5, <3>1 DEF Canonical
    <3>2. CASE ~(d > p.last)
      BY <1>1, <1>5, <3>2
    <3> QED BY <3>1, <3>2
  <2>2. p = [data |-> [d \in Depths |-> p.data[d]], last |-> p.last]
    BY DEF Path
  <2>3. c = [data |-> [d \in Depths |-> c.data[d]], last |-> c.last]
    BY DEF Path
  <2> QED BY <1>5, <2>1, <2>2, <2>3
<1> QED BY <1>2, <1>3, <1>4, <1>5

(* The arithmetic of a shrinking array. *)
LEMMA RetainIs ==
  ASSUME NEW p, Packable(p), NEW c, Packable(c), NEW cutoff \in Int
  PROVE  RetainAfterShrink(Pack(p), cutoff, Pack(c)) <=>
           ~(Below(c, p) /\ c.data[p.last + 1] >= cutoff)
<1>1. /\ p.last \in Int /\ c.last \in Int /\ c.last <= Top /\ Top \in Nat
      /\ c.last <= p.last <=> ~(p.last < c.last)
  BY TopAssumption DEF Packable, Path, Depths
<1>2. KeyDepth(Pack(p)) = p.last /\ KeyDepth(Pack(c)) = c.last
  BY KeyParts
<1> DEFINE same == \A d \in 0 .. p.last : c.data[d] = p.data[d]
           inner == IF p.last < Top
                      THEN (Pack(c) \div ChildWeight(Pack(p))) % Limit[p.last + 1] < cutoff
                      ELSE 0 < cutoff
<1>3. RetainAfterShrink(Pack(p), cutoff, Pack(c)) <=> ~same \/ c.last <= p.last \/ inner
  <2>1. Prefix(Pack(c), Pack(p)) = Prefix(Pack(p), Pack(p)) <=> same
    BY PrefixesAgree
  <2> HIDE DEF same
  <2> QED BY <1>2, <2>1 DEF RetainAfterShrink
<1>4. Below(c, p) <=> p.last < c.last /\ same
  BY DEF Below
<1>5. CASE p.last < c.last
  <2>1. p.last < Top /\ p.last + 1 \in Depths
    <3>1. p.last \in 0 .. Top
      BY DEF Packable, Path, Depths
    <3> HIDE DEF same, inner
    <3> QED BY <1>1, <1>5, <3>1 DEF Depths
  <2>2. (Pack(c) \div Weight[p.last + 1]) % Limit[p.last + 1] = c.data[p.last + 1]
    BY <2>1, KeyParts
  <2>3. ChildWeight(Pack(p)) = Weight[p.last + 1]
    BY <1>2, <2>1 DEF ChildWeight
  <2>4. inner <=> c.data[p.last + 1] < cutoff
    BY <2>1, <2>2, <2>3
  <2>5. c.data[p.last + 1] \in Int
    BY <2>1 DEF Packable, Path
  <2>6. c.data[p.last + 1] < cutoff <=> ~(c.data[p.last + 1] >= cutoff)
    BY <2>5
  <2> HIDE DEF inner, same
  <2> QED BY <1>1, <1>3, <1>4, <1>5, <2>4, <2>6
<1>6. CASE ~(p.last < c.last)
  <2> HIDE DEF inner, same
  <2> QED BY <1>1, <1>3, <1>4, <1>6
<1> QED BY <1>5, <1>6

(* The keys under which the values of an entity are stored are addresses:  *)
(* packing loses nothing, and the masks and shifts with which subtrees are *)
(* selected and dropped compare the components they are meant to compare,  *)
(* whatever the limits of the components.                                  *)
THEOREM KeysAreAddressesHolds == Spec => []KeysAreAddresses
<1>1. PathsInv => KeysAreAddresses
  <2> SUFFICES ASSUME PathsInv, NEW i \in DOMAIN buf, NEW j \in DOMAIN buf
               PROVE  LET p == buf[i]
                          c == buf[j]
                          within == /\ Prefix(Pack(c), Pack(p)) = Prefix(Pack(p), Pack(p))
                                    /\ c.last >= p.last
                      IN  /\ Unpack(Pack(p)) = p
                          /\ Pack(p) = Pack(c) <=> Named(p) = Named(c)
                          /\ within <=> Named(c) = Named(p) \/ Below(c, p)
                          /\ \A cutoff \in 0 .. Limit[p.last] + 1 :
                               RetainAfterShrink(Pack(p), cutoff, Pack(c)) <=>
                                 ~(Below(c, p) /\ c.data[p.last + 1] >= cutoff)
    BY DEF KeysAreAddresses
  <2> DEFINE p == buf[i]
             c == buf[j]
  <2>1. p \in Path /\ c \in Path /\ Canonical(p) /\ Canonical(c)
    BY DEF PathsInv, TypeOK, PathsCanonical
  <2>2. Packable(p) /\ Packable(c)
    BY <2>1 DEF Packable, Canonical
  <2> HIDE DEF p, c
  <2>3. Unpack(Pack(p)) = p /\ Unpack(Pack(c)) = c
    BY <2>2, UnpackPack
  <2>4. Pack(p) = Pack(c) <=> Named(p) = Named(c)
    <3>1. Pack(p) = Pack(c) => p = c
      BY <2>3
    <3> QED BY <2>1, <3>1, NamedIs
  <2>5. Prefix(Pack(c), Pack(p)) = Prefix(Pack(p), Pack(p)) /\ c.last >= p.last
          <=> Named(c) = Named(p) \/ Below(c, p)
    <3>1. p.last \in Nat /\ c.last \in Nat
      BY <2>1, TopAssumption DEF Path, Depths
    <3>2. Prefix(Pack(c), Pack(p)) = Prefix(Pack(p), Pack(p)) <=>
            \A d \in 0 .. p.last : c.data[d] = p.data[d]
      BY <2>2, PrefixesAgree
    <3>3. Named(p) = Named(c) <=>
            p.last = c.last /\ \A d \in 0 .. p.last : c.data[d] = p.data[d]
      BY <2>1, NamedIs
    <3>4. c.last >= p.last <=> p.last = c.last \/ p.last < c.last
      BY <3>1
    <3> QED BY <3>2, <3>3, <3>4 DEF Below
  <2>6. ASSUME NEW cutoff \in 0 .. Limit[p.last] + 1
        PROVE  RetainAfterShrink(Pack(p), cutoff, Pack(c)) <=>
                 ~(Below(c, p) /\ c.data[p.last + 1] >= cutoff)
    BY <2>2, RetainIs
  <2>7. /\ Unpack(Pack(p)) = p
        /\ Pack(p) = Pack(c) <=> Named(p) = Named(c)
        /\ Prefix(Pack(c), Pack(p)) = Prefix(Pack(p), Pack(p)) /\ c.last >= p.last
             <=> Named(c) = Named(p) \/ Below(c, p)
        /\ \A cutoff \in 0 .. Limit[p.last] + 1 :
             RetainAfterShrink(Pack(p), cutoff, Pack(c)) <=>
               ~(Below(c, p) /\ c.data[p.last + 1] >= cutoff)
    BY <2>3, <2>4, <2>5, <2>6
  <2> QED BY <2>7 DEF p, c
<1>2. Init => PathsInv
  BY PathsInit
<1>3. PathsInv /\ [Next]_vars => PathsInv'
  BY PathsStep
<1> QED BY <1>1, <1>2, <1>3, PTL DEF Spec

----------------------------------------------------------------------------
(* Class tables.                                                           *)

(* The powers of two, by their recursion, and that they outgrow numbers. *)
LEMMA PowersAre ==
  \A n \in 0 .. MaxClassId + 1 : PowerOf2[n] \in Nat /\ n < PowerOf2[n]
<1> DEFINE top == MaxClassId + 1
           start == 1
           step == [k \in 1 .. top |-> [v \in Nat |-> 2 * v]]
           R(g) == g = [n \in 0 .. MaxClassId + 1 |-> IF n = 0 THEN 1 ELSE 2 * g[n - 1]]
<1>1. top \in Nat /\ start \in Nat
  BY MaxClassIdAssumption
<1>2. step \in [1 .. top -> [Nat -> Nat]]
  OBVIOUS
<1>3. PICK f : Recurses(f, top, Nat, start, step)
  <2> HIDE DEF top, start, step
  <2> QED BY <1>1, <1>2, Recursion
<1>4. f \in [0 .. top -> Nat] /\ f[0] = 1
  BY <1>3 DEF Recurses
<1>5. ASSUME NEW k \in 0 .. top, k # 0 PROVE f[k] = 2 * f[k - 1]
  <2>1. k \in 1 .. top /\ k - 1 \in 0 .. top
    BY <1>1, <1>5
  <2>2. f[k - 1] \in Nat
    BY <1>4, <2>1
  <2>3. step[k][f[k - 1]] = 2 * f[k - 1]
    BY <2>1, <2>2
  <2> HIDE DEF step
  <2> QED BY <1>3, <2>1, <2>3 DEF Recurses
<1>6. R(PowerOf2)
  <2>1. R(f)
    <3> HIDE DEF step
    <3> QED BY <1>4, <1>5
  <2>2. PowerOf2 = CHOOSE g : R(g)
    BY DEF PowerOf2
  <2> HIDE DEF R
  <2> QED BY <2>1, <2>2
<1>7. PowerOf2[0] = 1 /\ \A k \in 0 .. top - 1 : PowerOf2[k + 1] = 2 * PowerOf2[k]
  <2>1. 0 \in 0 .. top /\ \A k \in 0 .. top - 1 : k + 1 \in 0 .. top /\ k + 1 # 0 /\ (k + 1) - 1 = k
    BY <1>1
  <2> QED BY <1>6, <2>1
<1> DEFINE S == {n \in 0 .. top : PowerOf2[n] \in Nat /\ n < PowerOf2[n]}
<1>8. 0 \in S
  BY <1>1, <1>7
<1>9. ASSUME NEW k \in 0 .. top - 1, k \in S PROVE k + 1 \in S
  <2>1. k + 1 \in 0 .. top /\ k \in Nat
    BY <1>1
  <2>2. PowerOf2[k] \in Nat /\ k < PowerOf2[k] /\ PowerOf2[k + 1] = 2 * PowerOf2[k]
    BY <1>7, <1>9
  <2> QED BY <2>1, <2>2
<1> HIDE DEF S, top
<1>10. \A n \in 0 .. top : n \in S
  BY <1>1, <1>8, <1>9, Stepwise
<1> QED BY <1>10 DEF S, top

(* A set of numbers below a bound has a greatest one. *)
LEMMA GreatestElement ==
  ASSUME NEW b \in Nat, NEW S, S \subseteq 0 .. b, S # {}
  PROVE  \E most \in S : \A k \in S : k <= most
<1> DEFINE T == {n \in Nat : \E m \in S : n = b - m}
<1>1. \A k \in S : k \in Nat /\ k <= b /\ b - k \in T
  OBVIOUS
<1>2. T \subseteq Nat /\ T # {}
  BY <1>1
<1>3. PICK least \in T : \A t \in T : least <= t
  <2> HIDE DEF T
  <2> QED BY <1>2, LeastElement
<1>4. PICK most \in S : least = b - most
  BY <1>3
<1>5. \A k \in S : b - most <= b - k
  <2> HIDE DEF T
  <2> QED BY <1>1, <1>3, <1>4
<1> QED BY <1>1, <1>4, <1>5

(* An accepted list that is not empty. *)
Listed(entries) == entries \in ClassLists /\ ClassesAccepted(entries) /\ entries # <<>>

(* It names a class, and its ids are numbers within the limit. *)
LEMMA ListedIs ==
  ASSUME NEW entries, Listed(entries)
  PROVE  /\ DOMAIN entries # {} /\ DOMAIN entries \subseteq Nat \ {0}
         /\ \A k \in DOMAIN entries : entries[k].class_id \in 0 .. MaxClassId
<1>1. entries \in Seq({entries[k] : k \in DOMAIN entries}) /\ entries # <<>>
  BY ClassListsAssumption DEF Listed
<1> DEFINE V == {entries[k] : k \in DOMAIN entries}
<1>2. DOMAIN entries # {} /\ DOMAIN entries \subseteq Nat \ {0}
  <2> HIDE DEF V
  <2>1. entries \in Seq(V)
    BY <1>1 DEF V
  <2>2. DOMAIN entries = 1 .. Len(entries) /\ Len(entries) \in Nat /\ Len(entries) # 0
    BY <1>1, <2>1
  <2> QED BY <2>2
<1> QED BY <1>2 DEF Listed, ClassesAccepted

(* Its greatest id is one of them and no less than any. *)
LEMMA MaxIdIs ==
  ASSUME NEW entries, Listed(entries)
  PROVE  /\ MaxId(entries) \in 0 .. MaxClassId
         /\ \A k \in DOMAIN entries : entries[k].class_id <= MaxId(entries)
<1> DEFINE ids == {entries[k].class_id : k \in DOMAIN entries}
<1>1. ids \subseteq 0 .. MaxClassId /\ ids # {}
  BY ListedIs
<1>2. MaxId(entries) = CHOOSE id \in ids : \A other \in ids : other <= id
  BY DEF MaxId, Listed
<1>3. \E id \in ids : \A other \in ids : other <= id
  <2> HIDE DEF ids
  <2> QED BY <1>1, MaxClassIdAssumption, GreatestElement
<1>4. MaxId(entries) \in ids /\ \A other \in ids : other <= MaxId(entries)
  <2> HIDE DEF ids
  <2> QED BY <1>2, <1>3
<1> QED BY <1>1, <1>4

(* The least number of bits that hold the greatest id. *)
LEMMA BitsHold ==
  ASSUME NEW entries, Listed(entries)
  PROVE  Bits(entries) \in 1 .. MaxClassId + 1 /\ MaxId(entries) < PowerOf2[Bits(entries)]
<1> DEFINE most == MaxId(entries)
           wide == {n \in 1 .. MaxClassId + 1 : most < PowerOf2[n]}
<1>1. most \in 0 .. MaxClassId /\ MaxClassId \in Nat
  BY MaxIdIs, MaxClassIdAssumption
<1> HIDE DEF most
<1>2. most + 1 \in wide
  <2>1. most + 1 \in 1 .. MaxClassId + 1 /\ most + 1 \in 0 .. MaxClassId + 1
    BY <1>1
  <2>2. most + 1 < PowerOf2[most + 1] /\ PowerOf2[most + 1] \in Nat
    BY <2>1, PowersAre
  <2> QED BY <1>1, <2>1, <2>2
<1>3. PICK n \in wide : \A m \in wide : n <= m
  <2>1. wide \subseteq Nat
    BY <1>1
  <2> HIDE DEF wide
  <2> QED BY <1>2, <2>1, LeastElement
<1>4. n \in 1 .. MaxClassId + 1 /\ most < PowerOf2[n]
  BY <1>3
<1>5. ASSUME NEW fewer \in 1 .. n - 1 PROVE most >= PowerOf2[fewer]
  <2>1. fewer \in 1 .. MaxClassId + 1 /\ fewer \in 0 .. MaxClassId + 1 /\ ~(n <= fewer)
    BY <1>1, <1>4
  <2>2. ~(most < PowerOf2[fewer])
    BY <1>3, <2>1
  <2>3. PowerOf2[fewer] \in Nat
    BY <2>1, PowersAre
  <2> QED BY <1>1, <2>2, <2>3
<1> DEFINE Good(m) == most < PowerOf2[m] /\ \A fewer \in 1 .. m - 1 : most >= PowerOf2[fewer]
<1>6. Good(n)
  BY <1>4, <1>5
<1>7. Bits(entries) = CHOOSE m \in 1 .. MaxClassId + 1 : Good(m)
  BY DEF Bits, most
<1>8. Bits(entries) \in 1 .. MaxClassId + 1 /\ Good(Bits(entries))
  <2> HIDE DEF Good
  <2> QED BY <1>4, <1>6, <1>7
<1> QED BY <1>8 DEF most

(* What ClassesReadable says of a table. *)
Readable(table) ==
  LET ids == {table.classes[k].class_id : k \in DOMAIN table.classes}
  IN  /\ \A k \in DOMAIN table.classes :
           LET entry == table.classes[k]
           IN  /\ entry.class_id < PowerOf2[table.bits]
               /\ ById(table, entry.class_id) = k
               /\ IdOf(table, entry.network_name) = entry.class_id
      /\ \A id \in -1 .. PowerOf2[table.bits] : ById(table, id) # NoEntry => id \in ids

(* The table of an accepted list. *)
LEMMA ListReadable ==
  ASSUME NEW entries, Listed(entries)
  PROVE  Readable(ClassTableOf(entries))
<1> DEFINE table == ClassTableOf(entries)
           known(id) == \E k \in DOMAIN entries : entries[k].class_id = id
           names == {entries[k].network_name : k \in DOMAIN entries}
<1>1. /\ table.classes = entries /\ table.bits = Bits(entries)
      /\ table.lookup = [id \in 0 .. MaxId(entries) |->
                           IF known(id) THEN CHOOSE k \in DOMAIN entries : entries[k].class_id = id
                                        ELSE NoEntry]
      /\ table.name_lookup = [name \in names |->
                                entries[CHOOSE k \in DOMAIN entries :
                                          entries[k].network_name = name].class_id]
  BY DEF ClassTableOf, Listed
<1>2. \A j, k \in DOMAIN entries : j # k =>
        entries[j].class_id # entries[k].class_id /\ entries[j].network_name # entries[k].network_name
  BY DEF Listed, ClassesAccepted
<1>3. ASSUME NEW k \in DOMAIN entries
      PROVE  /\ entries[k].class_id < PowerOf2[table.bits]
             /\ ById(table, entries[k].class_id) = k
             /\ IdOf(table, entries[k].network_name) = entries[k].class_id
  <2> DEFINE id == entries[k].class_id
             name == entries[k].network_name
  <2>1. id \in 0 .. MaxId(entries)
    <3>1. id \in Nat /\ id <= MaxId(entries) /\ MaxId(entries) \in Nat
      BY ListedIs, MaxIdIs
    <3> QED BY <3>1
  <2>2. id < PowerOf2[table.bits]
    <3>1. MaxId(entries) < PowerOf2[Bits(entries)] /\ PowerOf2[Bits(entries)] \in Nat
      <4>1. Bits(entries) \in 0 .. MaxClassId + 1
        BY BitsHold, MaxClassIdAssumption
      <4> QED BY <4>1, BitsHold, PowersAre
    <3>2. MaxId(entries) \in Nat
      BY MaxIdIs
    <3> HIDE DEF id, table
    <3> QED BY <1>1, <2>1, <3>1, <3>2
  <2>3. (CHOOSE j \in DOMAIN entries : entries[j].class_id = id) = k
    BY <1>2
  <2>4. (CHOOSE j \in DOMAIN entries : entries[j].network_name = name) = k
    BY <1>2
  <2>5. ById(table, id) = k
    <3> HIDE DEF table
    <3> QED BY <1>1, <2>1, <2>3 DEF ById
  <2>6. IdOf(table, name) = id
    <3>1. name \in names
      OBVIOUS
    <3>2. table.name_lookup[name] =
            entries[CHOOSE j \in DOMAIN entries : entries[j].network_name = name].class_id
      <4> HIDE DEF table, names, name
      <4> QED BY <1>1, <3>1
    <3>3. table.name_lookup[name] = id
      <4> HIDE DEF table, name
      <4> QED BY <2>4, <3>2
    <3>4. name \in DOMAIN table.name_lookup
      <4> HIDE DEF table, names, name
      <4> QED BY <1>1, <3>1
    <3> HIDE DEF table, names, name, id
    <3> QED BY <3>3, <3>4 DEF IdOf
  <2> QED BY <2>2, <2>5, <2>6
<1>4. ASSUME NEW id, ById(table, id) # NoEntry PROVE \E k \in DOMAIN entries : entries[k].class_id = id
  <2> HIDE DEF table
  <2> QED BY <1>1, <1>4 DEF ById
<1> HIDE DEF table
<1> QED BY <1>1, <1>3, <1>4 DEF Readable, table

(* The table of none. *)
LEMMA NoClassesReadable == Readable(NoClasses)
<1>1. NoClasses.classes = <<>> /\ DOMAIN NoClasses.lookup = {}
  BY DEF NoClasses, ClassTableOf
<1>2. \A id : ById(NoClasses, id) = NoEntry
  BY <1>1 DEF ById
<1> QED BY <1>1, <1>2 DEF Readable

(* Whatever lists of classes a playback is given, accepted or not, every   *)
(* class of the table it goes on with is read with enough bits and is      *)
(* found by its id and its name, and nothing else is found                 *)
(* (ClassInfo::try_from_entries_with_limits).                              *)
THEOREM ClassesReadableHolds == ClassesSpec => []ClassesReadable
<1> USE DEF Readable
<1>1. ClassesReadable <=> Readable(class_info)
  BY DEF ClassesReadable
<1>2. ClassesInit => ClassesReadable
  BY <1>1, NoClassesReadable DEF ClassesInit
<1>3. ASSUME ClassesReadable, NEW entries \in ClassLists, InstallClasses(entries)
      PROVE  ClassesReadable'
  <2>1. CASE ~ClassesAccepted(entries)
    BY <1>3, <2>1 DEF InstallClasses, ClassesReadable
  <2>2. CASE ClassesAccepted(entries)
    <3>1. class_info' = ClassTableOf(entries)
      BY <1>3, <2>2 DEF InstallClasses
    <3>2. Readable(ClassTableOf(entries))
      BY <2>2, ListReadable, NoClassesReadable DEF Listed, NoClasses
    <3> QED BY <3>1, <3>2 DEF ClassesReadable
  <2> QED BY <2>1, <2>2
<1>4. ASSUME ClassesReadable, UNCHANGED class_info PROVE ClassesReadable'
  BY <1>4 DEF ClassesReadable
<1>5. ClassesReadable /\ [\E entries \in ClassLists : InstallClasses(entries)]_class_info
        => ClassesReadable'
  BY <1>3, <1>4
<1> QED BY <1>2, <1>5, PTL DEF ClassesSpec

----------------------------------------------------------------------------
(* Serializer tables.                                                      *)

(* What a field says of the message it was built from. *)
Faithful(field, proto) ==
  /\ field.field_type = ParseType(proto.var_type)
  /\ Parts(field) = Parts(proto)
  /\ field.serializer_name = proto.serializer_name

(* A field says what the flattened field says. *)
LEMMA FieldFaithful ==
  ASSUME NEW proto, NEW metadata, NEW below
  PROVE  Faithful(Field(proto, metadata, below), proto)
<1> DEFINE field == Field(proto, metadata, below)
<1>1. /\ field.var_name = proto.var_name /\ field.send_node = proto.send_node
      /\ field.serializer_name = proto.serializer_name
      /\ field.field_type = ParseType(proto.var_type)
  BY DEF Field
<1> HIDE DEF field
<1>2. Parts(field) = Parts(proto)
  BY <1>1 DEF Parts
<1> QED BY <1>1, <1>2 DEF Faithful, field

(* A field leads to the serializer that was there when it was built. *)
LEMMA BuiltIs ==
  ASSUME NEW profile, NEW proto, NEW map
  PROVE  LET field == BuiltField(profile, proto, map)
         IN  /\ Faithful(field, proto)
             /\ Leads(field) => LinkOf(field) = Nested(proto, map)
<1> DEFINE m == MetadataOf(profile, proto)
           nested == Nested(proto, map)
           field == BuiltField(profile, proto, map)
<1> HIDE DEF m, nested
<1>1. CASE IsFixedArray(m)
  <2> DEFINE copies == [k \in 1 .. m.length |-> Field(proto, m, nested)]
  <2>1. field = Field(proto, m, <<copies>>)
    BY <1>1 DEF BuiltField, m, nested
  <2>2. \A k \in DOMAIN copies : copies[k].below = nested
    BY DEF Field
  <2> HIDE DEF copies
  <2>3. Faithful(field, proto)
    <3> HIDE DEF field
    <3> QED BY <2>1, FieldFaithful
  <2>4. field.metadata = m /\ field.below[1] = copies
    BY <2>1 DEF Field
  <2>5. ~IsDynamicArray(m)
    BY <1>1 DEF IsFixedArray, IsDynamicArray
  <2> HIDE DEF field
  <2>6. Leads(field) => LinkOf(field) = nested
    BY <1>1, <2>2, <2>4, <2>5 DEF Leads, LinkOf
  <2> QED BY <2>3, <2>6 DEF field, nested
<1>2. CASE ~IsFixedArray(m) /\ IsDynamicArray(m)
  <2> DEFINE inside == IF m.special = "serializers" THEN nested ELSE <<>>
             element == Element(InnerMetadata(m), inside)
  <2>1. field = Field(proto, m, <<<<element>>>>)
    BY <1>2 DEF BuiltField, m, nested
  <2>2. element.below = inside
    BY DEF Element
  <2> HIDE DEF element
  <2>3. Faithful(field, proto)
    <3> HIDE DEF field
    <3> QED BY <2>1, FieldFaithful
  <2>4. field.metadata = m /\ field.below[1][1] = element
    BY <2>1 DEF Field
  <2> HIDE DEF field
  <2>5. Leads(field) => m.special = "serializers"
    BY <1>2, <2>4 DEF Leads, IsDynamicArray
  <2>6. Leads(field) => LinkOf(field) = nested
    BY <1>2, <2>2, <2>4, <2>5 DEF LinkOf
  <2> QED BY <2>3, <2>6 DEF field, nested
<1>3. CASE ~IsFixedArray(m) /\ ~IsDynamicArray(m)
  <2>1. field = Field(proto, m, nested)
    BY <1>3 DEF BuiltField, m, nested
  <2>2. Faithful(field, proto)
    <3> HIDE DEF field
    <3> QED BY <2>1, FieldFaithful
  <2>3. field.metadata = m /\ field.below = nested
    BY <2>1 DEF Field
  <2> HIDE DEF field
  <2>4. LinkOf(field) = nested
    BY <1>3, <2>3 DEF LinkOf
  <2> QED BY <2>2, <2>4 DEF field, nested
<1> QED BY <1>1, <1>2, <1>3

(* A sequence of whatever it holds is indexed from one to its length. *)
LEMMA ListingIs ==
  ASSUME NEW s, Listing(s)
  PROVE  Len(s) \in Nat /\ DOMAIN s = 1 .. Len(s)
<1> DEFINE V == {s[k] : k \in DOMAIN s}
<1>1. s \in Seq(V)
  BY DEF Listing
<1> HIDE DEF V
<1> QED BY <1>1

(* One more at its end. *)
LEMMA AppendIs ==
  ASSUME NEW s, Listing(s), NEW v
  PROVE  /\ Listing(Append(s, v))
         /\ Len(Append(s, v)) = Len(s) + 1
         /\ Append(s, v)[Len(s) + 1] = v
         /\ \A k \in DOMAIN s : Append(s, v)[k] = s[k]
<1> DEFINE V == {s[k] : k \in DOMAIN s} \cup {v}
           t == Append(s, v)
<1>1. Len(s) \in Nat /\ DOMAIN s = 1 .. Len(s) /\ s \in Seq({s[k] : k \in DOMAIN s})
  BY ListingIs DEF Listing
<1>2. s \in Seq(V)
  <2>1. s \in [1 .. Len(s) -> V]
    <3>1. s = [k \in DOMAIN s |-> s[k]]
      <4> DEFINE W == {s[k] : k \in DOMAIN s}
      <4>1. s \in Seq(W)
        BY <1>1
      <4> HIDE DEF W
      <4> QED BY <4>1
    <3>2. \A k \in 1 .. Len(s) : s[k] \in V
      BY <1>1
    <3> HIDE DEF V
    <3> QED BY <1>1, <3>1, <3>2
  <2> HIDE DEF V
  <2> QED BY <1>1, <2>1
<1>3. /\ t \in Seq(V) /\ Len(t) = Len(s) + 1 /\ t[Len(s) + 1] = v
      /\ \A k \in 1 .. Len(s) : t[k] = s[k]
  <2>1. v \in V
    OBVIOUS
  <2> HIDE DEF V
  <2> QED BY <1>2, <2>1
<1>4. Listing(t)
  <2> DEFINE W == {t[k] : k \in DOMAIN t}
  <2>1. DOMAIN t = 1 .. Len(t) /\ Len(t) \in Nat /\ t = [k \in DOMAIN t |-> t[k]]
    <3> HIDE DEF V, t
    <3> QED BY <1>3
  <2>2. \A k \in DOMAIN t : t[k] \in W
    OBVIOUS
  <2>3. t \in [1 .. Len(t) -> W]
    <3> HIDE DEF W, t
    <3> QED BY <2>1, <2>2
  <2>4. t \in Seq(W)
    <3> HIDE DEF W, t
    <3> QED BY <2>1, <2>3
  <2> HIDE DEF t
  <2> QED BY <2>4 DEF Listing
<1> HIDE DEF V
<1> QED BY <1>1, <1>3, <1>4

(* A field leads where the table says, and what the table does not have    *)
(* the message does not define.                                            *)
Settled(field, message, map) ==
  /\ Linked(field, map)
  /\ field.serializer_name \notin DOMAIN map =>
       \A e \in DOMAIN message.serializers : ~Defines(message, e, field.serializer_name)

(* The fields of a definition, as far as they are built. *)
Reads(fields, message, d) ==
  \A k \in DOMAIN fields :
    Faithful(fields[k], message.fields[message.serializers[d].fields_index[k] + 1])

Complete(fields, message, d) ==
  Len(fields) = Len(message.serializers[d].fields_index) /\ Reads(fields, message, d)

Count(message) == Len(message.serializers)
NameOf(message, d) == message.serializers[d].name

(* The shape of a build. *)
BuildOK(b) ==
  /\ b = [message |-> b.message, profile |-> b.profile, field_cache |-> b.field_cache,
          serializer_map |-> b.serializer_map, fields |-> b.fields, definition |-> b.definition]
  /\ b.message \in Messages
  /\ b.definition \in 1 .. Count(b.message) + 1
  /\ Listing(b.fields)

(* What is built is what the definitions so far list, the last of a name.  *)
BuiltOK(b) ==
  /\ b.definition \in DOMAIN b.message.serializers => Reads(b.fields, b.message, b.definition)
  /\ \A i \in DOMAIN b.field_cache : Faithful(b.field_cache[i], b.message.fields[i + 1])
  /\ DOMAIN b.serializer_map = {NameOf(b.message, e) : e \in 1 .. b.definition - 1}
  /\ \A d \in 1 .. b.definition - 1 :
       (\A e \in 1 .. b.definition - 1 : NameOf(b.message, e) = NameOf(b.message, d) => e <= d)
         => Complete(b.serializer_map[NameOf(b.message, d)], b.message, d)

(* Every field there is has found its serializer. *)
SettledOK(b) ==
  InOrder(b.message) =>
    /\ \A i \in DOMAIN b.field_cache : Settled(b.field_cache[i], b.message, b.serializer_map)
    /\ \A k \in DOMAIN b.fields : Settled(b.fields[k], b.message, b.serializer_map)
    /\ \A name \in DOMAIN b.serializer_map :
         \A k \in DOMAIN b.serializer_map[name] :
           Settled(b.serializer_map[name][k], b.message, b.serializer_map)

BuildInv == build # NoBuild => BuildOK(build[1]) /\ BuiltOK(build[1]) /\ SettledOK(build[1])

(* A message is a sequence of definitions, each a sequence of fields. *)
LEMMA MessageIs ==
  ASSUME NEW message \in Messages
  PROVE  /\ Count(message) \in Nat /\ DOMAIN message.serializers = 1 .. Count(message)
         /\ \A d \in 1 .. Count(message) : Listing(message.serializers[d].fields_index)
<1>1. WellFormed(message)
  BY MessagesAssumption
<1> QED BY <1>1, ListingIs DEF WellFormed, Count

(* Before the first field. *)
LEMMA StartIs ==
  ASSUME NEW message \in Messages, NEW profile
  PROVE  LET b == StartBuild(message, profile)
         IN  BuildOK(b) /\ BuiltOK(b) /\ SettledOK(b)
<1> DEFINE b == StartBuild(message, profile)
<1>1. /\ b.message = message /\ b.definition = 1 /\ b.fields = <<>>
      /\ b.field_cache = <<>> /\ b.serializer_map = <<>>
  BY DEF StartBuild
<1>2. b = [message |-> b.message, profile |-> b.profile, field_cache |-> b.field_cache,
          serializer_map |-> b.serializer_map, fields |-> b.fields, definition |-> b.definition]
  BY DEF StartBuild
<1> HIDE DEF b
<1>3. BuildOK(b)
  <2>1. Listing(<<>>)
    BY DEF Listing
  <2> QED BY <1>1, <1>2, <2>1, MessageIs DEF BuildOK
<1>4. BuiltOK(b)
  BY <1>1 DEF BuiltOK, Reads
<1>5. SettledOK(b)
  BY <1>1 DEF SettledOK
<1> QED BY <1>3, <1>4, <1>5 DEF b

(* The next field, shared or built. *)
LEMMA NextFieldIs ==
  ASSUME NEW b, BuildOK(b), BuiltOK(b), SettledOK(b),
         b.definition \in DOMAIN b.message.serializers,
         Len(b.fields) < Len(Current(b).fields_index)
  PROVE  LET proto == b.message.fields[NextIndex(b) + 1]
             field == IF NextIndex(b) \in DOMAIN b.field_cache THEN b.field_cache[NextIndex(b)]
                      ELSE BuiltField(b.profile, proto, b.serializer_map)
         IN  /\ Faithful(field, proto)
             /\ InOrder(b.message) => Settled(field, b.message, b.serializer_map)
<1> DEFINE index == NextIndex(b)
           proto == b.message.fields[index + 1]
           map == b.serializer_map
<1>1. CASE index \in DOMAIN b.field_cache
  BY <1>1 DEF BuiltOK, SettledOK
<1>2. CASE index \notin DOMAIN b.field_cache
  <2> DEFINE field == BuiltField(b.profile, proto, map)
  <2>1. Faithful(field, proto) /\ (Leads(field) => LinkOf(field) = Nested(proto, map))
    BY BuiltIs
  <2> HIDE DEF field
  <2>2. field.serializer_name = proto.serializer_name
    BY <2>1 DEF Faithful
  <2>3. Linked(field, map)
    BY <2>1, <2>2 DEF Linked, Nested
  <2>4. ASSUME InOrder(b.message), NEW e \in DOMAIN b.message.serializers,
               Defines(b.message, e, field.serializer_name)
        PROVE  field.serializer_name \in DOMAIN map
    <3> DEFINE d == b.definition
    <3>1. b.message \in Messages /\ d \in DOMAIN b.message.serializers
      BY DEF BuildOK
    <3>2. Count(b.message) \in Nat /\ DOMAIN b.message.serializers = 1 .. Count(b.message)
      BY <3>1, MessageIs
    <3>3. Len(b.fields) + 1 \in DOMAIN b.message.serializers[d].fields_index
      <4>1. Listing(b.message.serializers[d].fields_index)
        BY <3>1, <3>2, MessageIs
      <4>2. Listing(b.fields)
        BY DEF BuildOK
      <4> DEFINE given == b.message.serializers[d].fields_index
      <4>3. Len(b.fields) < Len(given)
        BY DEF Current
      <4>4. Len(given) \in Nat /\ DOMAIN given = 1 .. Len(given) /\ Len(b.fields) \in Nat
        BY <4>1, <4>2, ListingIs
      <4> HIDE DEF given
      <4>5. Len(b.fields) + 1 \in DOMAIN given
        BY <4>3, <4>4
      <4> QED BY <4>5 DEF given
    <3>4. index = b.message.serializers[d].fields_index[Len(b.fields) + 1]
      BY DEF NextIndex, Current
    <3>5. Defines(b.message, e,
            b.message.fields[b.message.serializers[d].fields_index[Len(b.fields) + 1] + 1].serializer_name)
      BY <2>2, <2>4, <3>4
    <3>6. e < d
      BY <2>4, <3>1, <3>3, <3>5 DEF InOrder
    <3>7. e \in 1 .. d - 1 /\ NameOf(b.message, e) = field.serializer_name
      BY <2>4, <3>1, <3>2, <3>6 DEF Defines, NameOf
    <3> QED BY <3>7 DEF BuiltOK
  <2>5. InOrder(b.message) => Settled(field, b.message, map)
    BY <2>3, <2>4 DEF Settled
  <2> QED BY <1>2, <2>1, <2>5 DEF field
<1> QED BY <1>1, <1>2

(* With it, the build goes on as it was. *)
LEMMA WithFieldKeeps ==
  ASSUME NEW b, BuildOK(b), BuiltOK(b), SettledOK(b),
         b.definition \in DOMAIN b.message.serializers,
         Len(b.fields) < Len(Current(b).fields_index)
  PROVE  BuildOK(WithField(b)) /\ BuiltOK(WithField(b)) /\ SettledOK(WithField(b))
<1> DEFINE index == NextIndex(b)
           proto == b.message.fields[index + 1]
           field == IF index \in DOMAIN b.field_cache THEN b.field_cache[index]
                    ELSE BuiltField(b.profile, proto, b.serializer_map)
           c == WithField(b)
<1>1. Faithful(field, proto) /\ (InOrder(b.message) => Settled(field, b.message, b.serializer_map))
  BY NextFieldIs
<1>2. c = [b EXCEPT !.fields = Append(@, field), !.field_cache = Put(@, index, field)]
  BY DEF WithField
<1> HIDE DEF field, c
<1>3. /\ c = [message |-> c.message, profile |-> c.profile, field_cache |-> c.field_cache,
              serializer_map |-> c.serializer_map, fields |-> c.fields, definition |-> c.definition]
      /\ c.message = b.message /\ c.profile = b.profile /\ c.serializer_map = b.serializer_map
      /\ c.definition = b.definition
      /\ c.fields = Append(b.fields, field)
      /\ c.field_cache = Put(b.field_cache, index, field)
  <2>1. b = [message |-> b.message, profile |-> b.profile, field_cache |-> b.field_cache,
             serializer_map |-> b.serializer_map, fields |-> b.fields, definition |-> b.definition]
    BY DEF BuildOK
  <2> HIDE DEF index
  <2> DEFINE g == Append(b.fields, field)
             h == Put(b.field_cache, index, field)
  <2>2. c = [b EXCEPT !.fields = g, !.field_cache = h]
    BY <1>2
  <2> HIDE DEF g, h
  <2>3. c = [message |-> b.message, profile |-> b.profile, field_cache |-> h,
             serializer_map |-> b.serializer_map, fields |-> g, definition |-> b.definition]
    BY <2>1, <2>2
  <2>4. /\ c.message = b.message /\ c.profile = b.profile /\ c.serializer_map = b.serializer_map
        /\ c.definition = b.definition /\ c.fields = g /\ c.field_cache = h
    BY <2>3
  <2> QED BY <2>3, <2>4 DEF g, h
<1>4. Listing(b.fields)
  BY DEF BuildOK
<1>5. /\ Listing(c.fields) /\ Len(c.fields) = Len(b.fields) + 1
      /\ c.fields[Len(b.fields) + 1] = field
      /\ \A k \in DOMAIN b.fields : c.fields[k] = b.fields[k]
  BY <1>3, <1>4, AppendIs
<1>6. \A k \in DOMAIN c.fields : k \in DOMAIN b.fields \/ k = Len(b.fields) + 1
  <2>1. Len(b.fields) \in Nat /\ DOMAIN b.fields = 1 .. Len(b.fields) /\ DOMAIN c.fields = 1 .. Len(c.fields)
    BY <1>4, <1>5, ListingIs
  <2> QED BY <1>5, <2>1
<1>7. /\ DOMAIN c.field_cache = DOMAIN b.field_cache \cup {index}
      /\ c.field_cache[index] = field
      /\ \A i \in DOMAIN b.field_cache : i # index => c.field_cache[i] = b.field_cache[i]
  <2> HIDE DEF index
  <2> QED BY <1>3 DEF Put
<1>8. BuildOK(c)
  BY <1>3, <1>5 DEF BuildOK
<1>9. BuiltOK(c)
  <2>1. Reads(c.fields, c.message, c.definition)
    <3>1. ASSUME NEW k \in DOMAIN c.fields
          PROVE  Faithful(c.fields[k],
                   b.message.fields[b.message.serializers[b.definition].fields_index[k] + 1])
      <4>1. CASE k \in DOMAIN b.fields
        BY <1>5, <4>1 DEF BuiltOK, Reads
      <4>2. CASE k = Len(b.fields) + 1
        <5>1. index = b.message.serializers[b.definition].fields_index[Len(b.fields) + 1]
          BY DEF NextIndex, Current
        <5> QED BY <1>1, <1>5, <4>2, <5>1
      <4> QED BY <1>6, <4>1, <4>2
    <3> QED BY <1>3, <3>1 DEF Reads
  <2>2. ASSUME NEW i \in DOMAIN c.field_cache
        PROVE  Faithful(c.field_cache[i], c.message.fields[i + 1])
    <3>1. CASE i = index
      BY <1>1, <1>3, <1>7, <3>1
    <3>2. CASE i # index
      <4>1. i \in DOMAIN b.field_cache /\ c.field_cache[i] = b.field_cache[i]
        BY <1>7, <3>2
      <4> QED BY <1>3, <4>1 DEF BuiltOK
    <3> QED BY <3>1, <3>2
  <2> HIDE DEF index
  <2> QED BY <1>3, <2>1, <2>2 DEF BuiltOK
<1>10. SettledOK(c)
  <2> SUFFICES ASSUME InOrder(b.message) PROVE SettledOK(c)
    BY <1>3 DEF SettledOK
  <2>1. \A i \in DOMAIN c.field_cache : Settled(c.field_cache[i], c.message, c.serializer_map)
    <3> HIDE DEF index
    <3> QED BY <1>1, <1>3, <1>7 DEF SettledOK
  <2>2. \A k \in DOMAIN c.fields : Settled(c.fields[k], c.message, c.serializer_map)
    <3> HIDE DEF index
    <3> QED BY <1>1, <1>3, <1>5, <1>6 DEF SettledOK
  <2> HIDE DEF index
  <2> QED BY <1>3, <2>1, <2>2 DEF SettledOK
<1> QED BY <1>8, <1>9, <1>10 DEF c

(* A complete definition. *)
Finished(b) ==
  [b EXCEPT !.serializer_map = Put(@, Current(b).name, b.fields), !.fields = <<>>,
            !.definition = @ + 1]

(* It takes its place in the map, where nothing of a message in order was. *)
LEMMA FinishedKeeps ==
  ASSUME NEW b, BuildOK(b), BuiltOK(b), SettledOK(b),
         b.definition \in DOMAIN b.message.serializers,
         Len(b.fields) = Len(Current(b).fields_index)
  PROVE  BuildOK(Finished(b)) /\ BuiltOK(Finished(b)) /\ SettledOK(Finished(b))
<1> DEFINE name == Current(b).name
           c == Finished(b)
           d == b.definition
           map == Put(b.serializer_map, name, b.fields)
<1>1. /\ c.message = b.message /\ c.profile = b.profile /\ c.field_cache = b.field_cache
      /\ c.serializer_map = map /\ c.fields = <<>> /\ c.definition = d + 1
      /\ c = [message |-> c.message, profile |-> c.profile, field_cache |-> c.field_cache,
              serializer_map |-> c.serializer_map, fields |-> c.fields, definition |-> c.definition]
  <2>1. b = [message |-> b.message, profile |-> b.profile, field_cache |-> b.field_cache,
             serializer_map |-> b.serializer_map, fields |-> b.fields, definition |-> b.definition]
    BY DEF BuildOK
  <2>2. c = [b EXCEPT !.serializer_map = map, !.fields = <<>>, !.definition = d + 1]
    BY DEF Finished
  <2> HIDE DEF map, c
  <2>3. c = [message |-> b.message, profile |-> b.profile, field_cache |-> b.field_cache,
             serializer_map |-> map, fields |-> <<>>, definition |-> d + 1]
    BY <2>1, <2>2
  <2>4. /\ c.message = b.message /\ c.profile = b.profile /\ c.field_cache = b.field_cache
        /\ c.serializer_map = map /\ c.fields = <<>> /\ c.definition = d + 1
    BY <2>3
  <2> QED BY <2>3, <2>4
<1>2. /\ b.message \in Messages /\ d \in 1 .. Count(b.message) /\ Count(b.message) \in Nat
      /\ DOMAIN b.message.serializers = 1 .. Count(b.message)
  <2>1. b.message \in Messages
    BY DEF BuildOK
  <2> QED BY <2>1, MessageIs
<1>3. name = NameOf(b.message, d)
  BY DEF Current, NameOf
<1>4. /\ DOMAIN map = DOMAIN b.serializer_map \cup {name} /\ map[name] = b.fields
      /\ \A k \in DOMAIN b.serializer_map : k # name => map[k] = b.serializer_map[k]
  <2> HIDE DEF name
  <2> QED BY DEF Put
<1>5. \A e \in 1 .. (d + 1) - 1 : e \in 1 .. d - 1 \/ e = d
  BY <1>2
<1>6. d \in 1 .. (d + 1) - 1 /\ \A e \in 1 .. d - 1 : e \in 1 .. (d + 1) - 1 /\ e < d /\ e \in DOMAIN b.message.serializers
  BY <1>2
<1> HIDE DEF c, map, name
<1>7. BuildOK(c)
  <2>1. Listing(<<>>)
    BY DEF Listing
  <2> QED BY <1>1, <1>2, <2>1 DEF BuildOK
<1>8. BuiltOK(c)
  <2>1. Reads(<<>>, b.message, d + 1)
    BY DEF Reads
  <2>2. DOMAIN map = {NameOf(b.message, e) : e \in 1 .. (d + 1) - 1}
    <3>1. DOMAIN b.serializer_map = {NameOf(b.message, e) : e \in 1 .. d - 1}
      BY DEF BuiltOK
    <3> QED BY <1>3, <1>4, <1>5, <1>6, <3>1
  <2>3. ASSUME NEW e \in 1 .. (d + 1) - 1,
               \A f \in 1 .. (d + 1) - 1 : NameOf(b.message, f) = NameOf(b.message, e) => f <= e
        PROVE  Complete(map[NameOf(b.message, e)], b.message, e)
    <3>1. CASE e = d
      <4>1. Complete(b.fields, b.message, d)
        BY DEF Complete, BuiltOK, Current
      <4> QED BY <1>3, <1>4, <3>1, <4>1
    <3>2. CASE e \in 1 .. d - 1
      <4>1. NameOf(b.message, e) # name
        <5>1. ~(d <= e)
          BY <1>2, <3>2
        <5> QED BY <1>3, <1>6, <2>3, <5>1
      <4>2. NameOf(b.message, e) \in DOMAIN b.serializer_map
        BY <3>2 DEF BuiltOK
      <4>3. \A f \in 1 .. d - 1 : NameOf(b.message, f) = NameOf(b.message, e) => f <= e
        BY <1>6, <2>3
      <4>4. Complete(b.serializer_map[NameOf(b.message, e)], b.message, e)
        BY <3>2, <4>3 DEF BuiltOK
      <4> QED BY <1>4, <4>1, <4>2, <4>4
    <3> QED BY <1>5, <3>1, <3>2
  <2>4. \A i \in DOMAIN b.field_cache : Faithful(b.field_cache[i], b.message.fields[i + 1])
    BY DEF BuiltOK
  <2> QED BY <1>1, <2>1, <2>2, <2>3, <2>4 DEF BuiltOK
<1>9. SettledOK(c)
  <2> SUFFICES ASSUME InOrder(b.message) PROVE SettledOK(c)
    BY <1>1 DEF SettledOK
  <2>1. name \notin DOMAIN b.serializer_map
    <3> SUFFICES ASSUME name \in DOMAIN b.serializer_map PROVE FALSE
      OBVIOUS
    <3>1. PICK e \in 1 .. d - 1 : name = NameOf(b.message, e)
      BY DEF BuiltOK
    <3>2. Defines(b.message, d, b.message.serializers[e].name)
      BY <1>3, <3>1 DEF Defines, NameOf
    <3>3. d = e
      BY <1>2, <1>6, <3>2 DEF InOrder
    <3> QED BY <1>6, <3>1, <3>3
  <2>2. ASSUME NEW field, Settled(field, b.message, b.serializer_map)
        PROVE  Settled(field, b.message, map)
    <3>1. CASE field.serializer_name \in DOMAIN b.serializer_map
      <4>1. map[field.serializer_name] = b.serializer_map[field.serializer_name]
        BY <1>4, <2>1, <3>1
      <4> QED BY <1>4, <2>2, <3>1, <4>1 DEF Settled, Linked
    <3>2. CASE field.serializer_name \notin DOMAIN b.serializer_map
      <4>1. \A e \in DOMAIN b.message.serializers : ~Defines(b.message, e, field.serializer_name)
        BY <2>2, <3>2 DEF Settled
      <4>2. field.serializer_name # name
        BY <1>2, <1>3, <4>1 DEF Defines, NameOf
      <4>3. field.serializer_name \notin DOMAIN map
        BY <1>4, <3>2, <4>2
      <4> QED BY <4>1, <4>3 DEF Settled, Linked
    <3> QED BY <3>1, <3>2
  <2>3. \A i \in DOMAIN b.field_cache : Settled(b.field_cache[i], b.message, map)
    BY <2>2 DEF SettledOK
  <2>4. ASSUME NEW n \in DOMAIN map, NEW k \in DOMAIN map[n]
        PROVE  Settled(map[n][k], b.message, map)
    <3>1. CASE n = name
      BY <1>4, <2>2, <3>1, <2>4 DEF SettledOK
    <3>2. CASE n # name
      <4>1. n \in DOMAIN b.serializer_map /\ map[n] = b.serializer_map[n]
        BY <1>4, <2>4, <3>2
      <4> QED BY <2>2, <2>4, <4>1 DEF SettledOK
    <3> QED BY <3>1, <3>2
  <2> QED BY <1>1, <2>3, <2>4 DEF SettledOK
<1> QED BY <1>7, <1>8, <1>9 DEF c

(* What is built when every definition is complete. *)
LEMMA InstalledLinked ==
  ASSUME NEW b, BuildOK(b), BuiltOK(b), SettledOK(b),
         b.definition \notin DOMAIN b.message.serializers,
         NEW d \in DOMAIN b.message.serializers,
         \A e \in DOMAIN b.message.serializers :
           Defines(b.message, e, b.message.serializers[d].name) => e <= d
  PROVE  LET fields == b.serializer_map[b.message.serializers[d].name]
         IN  /\ Complete(fields, b.message, d)
             /\ InOrder(b.message) => \A k \in DOMAIN fields : Linked(fields[k], b.serializer_map)
<1>1. /\ b.message \in Messages /\ Count(b.message) \in Nat
      /\ DOMAIN b.message.serializers = 1 .. Count(b.message)
      /\ b.definition \in 1 .. Count(b.message) + 1
  <2>1. b.message \in Messages
    BY DEF BuildOK
  <2> QED BY <2>1, MessageIs DEF BuildOK
<1>2. DOMAIN b.message.serializers = 1 .. b.definition - 1
  BY <1>1
<1> DEFINE name == NameOf(b.message, d)
           fields == b.serializer_map[name]
<1>3. Complete(fields, b.message, d)
  BY <1>2 DEF BuiltOK, Defines, NameOf
<1>4. name \in DOMAIN b.serializer_map
  BY <1>2 DEF BuiltOK
<1>5. InOrder(b.message) => \A k \in DOMAIN fields : Linked(fields[k], b.serializer_map)
  BY <1>4 DEF SettledOK, Settled
<1> QED BY <1>3, <1>5 DEF NameOf

(* A table that stays is linked as it was. *)
LEMMA TableStays ==
  ASSUME SchemaLinked, UNCHANGED <<serializers, built_from>>
  PROVE  SchemaLinked'
BY DEF SchemaLinked

(* Whatever messages a playback is given, accepted or not, and however     *)
(* definitions share, repeat and use each other: the fields of an          *)
(* installed serializer are the ones its last definition lists and lead to *)
(* the serializer of their name                                            *)
(* (SerializerContainer::parse_with_limits).                               *)
THEOREM SchemaLinkedHolds == TableSpec => []SchemaLinked
<1> DEFINE TableInv == BuildInv /\ SchemaLinked
<1>1. TableInit => TableInv
  BY DEF TableInit, BuildInv, SchemaLinked
<1>2. ASSUME TableInv, [TableNext]_<<serializers, built_from, build>> PROVE TableInv'
  <2>1. CASE ReceiveSerializers
    <3>1. SchemaLinked'
      BY <1>2, <2>1, TableStays DEF ReceiveSerializers
    <3>2. PICK message \in Messages, profile \in Profiles :
            build' = IF MessageAccepted(message) THEN <<StartBuild(message, profile)>> ELSE NoBuild
      BY <2>1 DEF ReceiveSerializers
    <3>3. build' # NoBuild => build'[1] = StartBuild(message, profile)
      BY <3>2
    <3>4. BuildInv'
      BY <3>3, StartIs DEF BuildInv
    <3> QED BY <3>1, <3>4
  <2>2. CASE BuildField
    <3>1. SchemaLinked'
      BY <1>2, <2>2, TableStays DEF BuildField
    <3>2. BuildOK(build[1]) /\ BuiltOK(build[1]) /\ SettledOK(build[1])
      BY <1>2, <2>2 DEF BuildField, BuildInv
    <3>3. build' # NoBuild => build'[1] = WithField(build[1])
      BY <2>2 DEF BuildField
    <3>4. LET b == WithField(build[1]) IN BuildOK(b) /\ BuiltOK(b) /\ SettledOK(b)
      BY <2>2, <3>2, WithFieldKeeps DEF BuildField
    <3>5. BuildInv'
      BY <3>3, <3>4 DEF BuildInv
    <3> QED BY <3>1, <3>5
  <2>3. CASE FinishDefinition
    <3>1. SchemaLinked'
      BY <1>2, <2>3, TableStays DEF FinishDefinition
    <3>2. BuildOK(build[1]) /\ BuiltOK(build[1]) /\ SettledOK(build[1])
      BY <1>2, <2>3 DEF FinishDefinition, BuildInv
    <3>3. build' = <<Finished(build[1])>>
      BY <2>3 DEF FinishDefinition, Finished
    <3>4. LET b == Finished(build[1]) IN BuildOK(b) /\ BuiltOK(b) /\ SettledOK(b)
      BY <2>3, <3>2, FinishedKeeps DEF FinishDefinition
    <3>5. build'[1] = Finished(build[1])
      BY <3>3
    <3>6. BuildInv'
      BY <3>4, <3>5 DEF BuildInv
    <3> QED BY <3>1, <3>6
  <2>4. ASSUME NEW id \in Identities, NEW valid \in BOOLEAN, InstallTable(id, valid)
        PROVE  TableInv'
    <3>1. BuildInv'
      BY <2>4 DEF InstallTable, BuildInv
    <3>2. CASE ~valid
      <4>1. SchemaLinked'
        BY <1>2, <2>4, <3>2, TableStays DEF InstallTable
      <4> QED BY <3>1, <4>1
    <3>3. CASE valid
      <4> DEFINE b == build[1]
      <4>1. /\ BuildOK(b) /\ BuiltOK(b) /\ SettledOK(b)
            /\ b.definition \notin DOMAIN b.message.serializers
        BY <1>2, <2>4 DEF InstallTable, BuildInv
      <4>2. /\ serializers' = [schema_id |-> id, table |-> b.serializer_map]
            /\ built_from' = <<[message |-> b.message, profile |-> b.profile]>>
        BY <2>4, <3>3 DEF InstallTable
      <4>3. serializers'.table = b.serializer_map /\ built_from'[1].message = b.message
        BY <4>2
      <4> HIDE DEF b
      <4>4. ASSUME NEW d \in DOMAIN b.message.serializers,
                   \A e \in DOMAIN b.message.serializers :
                     Defines(b.message, e, b.message.serializers[d].name) => e <= d
            PROVE  LET fields == b.serializer_map[b.message.serializers[d].name]
                   IN  /\ Len(fields) = Len(b.message.serializers[d].fields_index)
                       /\ \A k \in DOMAIN fields :
                            LET proto == b.message.fields[b.message.serializers[d].fields_index[k] + 1]
                            IN  /\ fields[k].field_type = ParseType(proto.var_type)
                                /\ Parts(fields[k]) = Parts(proto)
                                /\ InOrder(b.message) => Linked(fields[k], b.serializer_map)
        <5> DEFINE fields == b.serializer_map[b.message.serializers[d].name]
        <5>1. /\ Complete(fields, b.message, d)
              /\ InOrder(b.message) => \A k \in DOMAIN fields : Linked(fields[k], b.serializer_map)
          BY <4>1, <4>4, InstalledLinked
        <5> HIDE DEF fields
        <5>2. /\ Len(fields) = Len(b.message.serializers[d].fields_index)
              /\ \A k \in DOMAIN fields :
                   Faithful(fields[k],
                            b.message.fields[b.message.serializers[d].fields_index[k] + 1])
          BY <5>1 DEF Complete, Reads
        <5>3. ASSUME NEW k \in DOMAIN fields
              PROVE  LET proto == b.message.fields[b.message.serializers[d].fields_index[k] + 1]
                     IN  /\ fields[k].field_type = ParseType(proto.var_type)
                         /\ Parts(fields[k]) = Parts(proto)
                         /\ InOrder(b.message) => Linked(fields[k], b.serializer_map)
          BY <5>1, <5>2 DEF Faithful
        <5> QED BY <5>2, <5>3 DEF fields
      <4>5. SchemaLinked'
        <5>1. IsBuiltFrom(b.serializer_map, b.message)
          BY <4>4 DEF IsBuiltFrom
        <5> QED BY <4>3, <5>1 DEF SchemaLinked
      <4> QED BY <3>1, <4>5
    <3> QED BY <3>2, <3>3
  <2>5. CASE UNCHANGED <<serializers, built_from, build>>
    <3>1. SchemaLinked'
      BY <1>2, <2>5, TableStays
    <3>2. BuildInv'
      BY <1>2, <2>5 DEF BuildInv
    <3> QED BY <3>1, <3>2
  <2> QED BY <1>2, <2>1, <2>2, <2>3, <2>4, <2>5 DEF TableNext
<1> QED BY <1>1, <1>2, PTL DEF TableSpec

----------------------------------------------------------------------------
(* Keys and names.                                                         *)

(* What a search by name answers: nothing, or the key of a path.           *)
IsAddress(p) == p \in Path /\ Canonical(p)
IsKey(key)   == key = NoKey \/ \E p : IsAddress(p) /\ key = Pack(p)

LEMMA PackIs ==
  ASSUME NEW p, IsAddress(p)
  PROVE  Packable(p) /\ Pack(p) \in Nat /\ Pack(p) # NoKey /\ p.last \in Depths
<1>1. Packable(p) /\ p.last \in Depths
  BY DEF IsAddress, Canonical, Packable, Path
<1>2. p.last \in Nat /\ DepthWeight \in Nat
  BY <1>1, TopAssumption, DepthWeightIs DEF Depths
<1>3. Low(p, Top + 1) \in Nat
  <2>1. Top + 1 \in Levels
    BY TopAssumption DEF Levels
  <2>2. Low(p, Top + 1) \in 0 .. Weight[Top + 1] - 1 /\ Weight[Top + 1] \in Nat
    BY <1>1, <2>1, LowIs, WeightIs
  <2> QED BY <2>2
<1>4. Pack(p) = p.last * DepthWeight + Low(p, Top + 1) /\ p.last * DepthWeight \in Nat
  BY <1>1, <1>2, LowIs, ProductIn
<1> QED BY <1>1, <1>3, <1>4 DEF NoKey

(* The components of a key are those of its path. *)
LEMMA ComponentsAre ==
  ASSUME NEW p, IsAddress(p)
  PROVE  /\ Components(Pack(p)) \in Seq(Int)
         /\ Len(Components(Pack(p))) = p.last + 1
         /\ \A k \in 1 .. p.last + 1 : Components(Pack(p))[k] = p.data[k - 1]
<1> DEFINE c == Components(Pack(p))
           n == p.last + 1
<1>1. Packable(p) /\ p.last \in Depths /\ Top \in Nat /\ p.data \in [Depths -> Int]
  BY PackIs, TopAssumption DEF IsAddress, Path
<1>2. Unpack(Pack(p)) = p /\ KeyDepth(Pack(p)) = p.last
  BY <1>1, UnpackPack, KeyParts
<1>3. c = [k \in 1 .. n |-> p.data[k - 1]]
  BY <1>2 DEF Components
<1>4. n \in Nat /\ \A k \in 1 .. n : k - 1 \in Depths
  BY <1>1 DEF Depths
<1> HIDE DEF n
<1>5. c \in [1 .. n -> Int]
  BY <1>1, <1>3, <1>4
<1> HIDE DEF c
<1>6. c \in Seq(Int) /\ Len(c) = n
  BY <1>4, <1>5
<1> QED BY <1>3, <1>6 DEF c, n

LEMMA SameSequence ==
  ASSUME NEW V, NEW s \in Seq(V), NEW t \in Seq(V), NEW n, Len(s) = n, Len(t) = n,
         \A k \in 1 .. n : s[k] = t[k]
  PROVE  s = t
OBVIOUS

(* A key that fits is the key of a path with the components it was made of.*)
LEMMA TryKeyIs ==
  ASSUME NEW c \in Seq(Int), Len(c) # 0, TryKey(c) # NoKey
  PROVE  IsKey(TryKey(c)) /\ Components(TryKey(c)) = c
<1> DEFINE p == PathOf(c)
           n == Len(c)
<1>1. n \in Nat /\ n # 0 /\ n <= Top + 1 /\ Top \in Nat /\ TryPack(p) /\ TryKey(c) = Pack(p)
  BY TopAssumption DEF TryKey
<1>2. /\ p.last = n - 1 /\ p = [data |-> p.data, last |-> p.last]
      /\ p.data = [d \in Depths |-> p.data[d]]
      /\ \A d \in Depths : p.data[d] = IF d < n THEN c[d + 1] ELSE 0
  BY DEF PathOf
<1>3. \A d \in Depths : p.data[d] \in Component(d)
  BY <1>1 DEF TryPack
<1> HIDE DEF p, n
<1>4. \A d \in Depths : p.data[d] \in Int
  BY <1>3 DEF Component
<1>5. p.last \in Depths
  BY <1>1, <1>2 DEF Depths
<1>6. p \in Path
  <2>1. p.data \in [Depths -> Int]
    BY <1>2, <1>4
  <2> QED BY <1>2, <1>5, <2>1 DEF Path
<1>7. \A d \in Depths : d > p.last => p.data[d] = 0
  BY <1>1, <1>2 DEF Depths
<1>8. IsAddress(p)
  BY <1>1, <1>6, <1>7 DEF IsAddress, Canonical
<1>9. Components(Pack(p)) = c
  <2> DEFINE s == Components(Pack(p))
  <2>1. s \in Seq(Int) /\ Len(s) = p.last + 1 /\ \A k \in 1 .. p.last + 1 : s[k] = p.data[k - 1]
    BY <1>8, ComponentsAre
  <2>2. p.last + 1 = n
    BY <1>1, <1>2
  <2>3. ASSUME NEW k \in 1 .. n PROVE s[k] = c[k]
    <3>1. k - 1 \in Depths /\ k - 1 < n /\ (k - 1) + 1 = k
      BY <1>1 DEF Depths
    <3>2. p.data[k - 1] = c[k]
      BY <1>2, <3>1
    <3> HIDE DEF s
    <3> QED BY <2>1, <2>2, <3>2
  <2> HIDE DEF s
  <2>4. Len(s) = n
    BY <2>1, <2>2
  <2>5. s = c
    BY <2>1, <2>3, <2>4, SameSequence DEF n
  <2> QED BY <2>5 DEF s
<1> QED BY <1>1, <1>8, <1>9 DEF IsKey

LEMMA JoinedIs ==
  ASSUME NEW prefix \in Seq(Int), Len(prefix) # 0, NEW key, IsKey(key), Joined(prefix, key) # NoKey
  PROVE  /\ key # NoKey
         /\ IsKey(Joined(prefix, key))
         /\ Components(Joined(prefix, key)) = prefix \o Components(key)
<1>1. key # NoKey /\ Joined(prefix, key) = TryKey(prefix \o Components(key))
  BY DEF Joined
<1>2. Components(key) \in Seq(Int)
  BY <1>1, ComponentsAre DEF IsKey
<1> DEFINE c == Components(key)
           whole == prefix \o c
<1>3. whole \in Seq(Int) /\ Len(whole) # 0
  <2> HIDE DEF c
  <2>1. c \in Seq(Int)
    BY <1>2 DEF c
  <2>2. whole \in Seq(Int) /\ Len(whole) = Len(prefix) + Len(c) /\ Len(prefix) \in Nat /\ Len(c) \in Nat
    BY <2>1
  <2> QED BY <2>2
<1> HIDE DEF whole
<1>4. IsKey(TryKey(whole)) /\ Components(TryKey(whole)) = whole
  BY <1>1, <1>3, TryKeyIs DEF whole
<1> QED BY <1>1, <1>4 DEF whole

----------------------------------------------------------------------------
(* Walking down a path.                                                    *)

Reached(fields, path, k) == ResolveFieldPath(fields, SubSeq(path, 1, k))

Walk(fields, path, n, at) ==
  at = [k \in 1 .. n |-> IF k = 1 THEN Nth(fields, path[1]) ELSE Step(at[k - 1], path[k])]

(* There is a walk down any path, and only one. *)
LEMMA WalkExists ==
  ASSUME NEW fields, NEW path, NEW n \in Nat
  PROVE  \E at : Walk(fields, path, n, at)
<1> DEFINE S == {m \in 0 .. n : \E at : Walk(fields, path, m, at)}
<1>1. 0 \in S
  <2> DEFINE at == [k \in 1 .. 0 |-> k]
  <2>1. Walk(fields, path, 0, at)
    BY DEF Walk
  <2> HIDE DEF at
  <2> QED BY <2>1
<1>2. ASSUME NEW m \in 0 .. n - 1, m \in S PROVE m + 1 \in S
  <2>1. PICK f : Walk(fields, path, m, f)
    BY <1>2
  <2> DEFINE first == Nth(fields, path[1])
             next(k, x) == Step(x, path[k])
             g == [k \in 1 .. m + 1 |-> IF k = 1 THEN first ELSE next(k, f[k - 1])]
  <2>2. \A k \in 1 .. m : f[k] = IF k = 1 THEN first ELSE next(k, f[k - 1])
    BY <2>1 DEF Walk
  <2>3. ASSUME NEW k \in 1 .. m PROVE g[k] = f[k]
    <3>1. k \in 1 .. m + 1
      BY <1>2
    <3> HIDE DEF first, next
    <3> QED BY <2>2, <3>1
  <2>4. ASSUME NEW k \in 1 .. m + 1 PROVE g[k] = IF k = 1 THEN first ELSE next(k, g[k - 1])
    <3>1. k # 1 => k - 1 \in 1 .. m
      BY <1>2
    <3>2. k # 1 => g[k - 1] = f[k - 1]
      BY <2>3, <3>1
    <3> HIDE DEF first, next
    <3>3. g[k] = IF k = 1 THEN first ELSE next(k, f[k - 1])
      OBVIOUS
    <3> HIDE DEF g
    <3> QED BY <3>2, <3>3
  <2>5. g = [k \in 1 .. m + 1 |-> g[k]]
    OBVIOUS
  <2> HIDE DEF g
  <2>6. Walk(fields, path, m + 1, g)
    BY <2>4, <2>5 DEF Walk
  <2>7. m + 1 \in 0 .. n
    BY <1>2
  <2> QED BY <2>6, <2>7
<1> HIDE DEF S
<1>3. \A k \in 0 .. n : k \in S
  BY <1>1, <1>2, Stepwise
<1>4. n \in S
  BY <1>3
<1> QED BY <1>4 DEF S

LEMMA WalksAgree ==
  ASSUME NEW fields, NEW n, NEW m, NEW p, NEW q, NEW f, NEW g,
         Walk(fields, p, n, f), Walk(fields, q, m, g),
         n \in Nat /\ m \in 0 .. n, \A k \in 1 .. m : p[k] = q[k]
  PROVE  \A k \in 1 .. m : f[k] = g[k]
<1> DEFINE S == {k \in 0 .. m : k # 0 => f[k] = g[k]}
<1>1. 0 \in S
  BY SMT
<1>2. ASSUME NEW k \in 0 .. m - 1, k \in S PROVE k + 1 \in S
  <2> DEFINE j == k + 1
  <2>1. j \in 1 .. m /\ j \in 1 .. n /\ j \in 0 .. m /\ j - 1 = k /\ 1 \in 1 .. m
    BY <1>2
  <2> HIDE DEF j
  <2>2. /\ f[j] = IF j = 1 THEN Nth(fields, p[1]) ELSE Step(f[j - 1], p[j])
        /\ g[j] = IF j = 1 THEN Nth(fields, q[1]) ELSE Step(g[j - 1], q[j])
    BY <2>1 DEF Walk
  <2>3. p[j] = q[j] /\ p[1] = q[1]
    BY <2>1
  <2>4. CASE j = 1
    BY <2>1, <2>2, <2>3, <2>4 DEF j
  <2>5. CASE j # 1
    <3>1. f[k] = g[k]
      BY <1>2, <2>1, <2>5
    <3>2. f[j] = g[j]
      BY <2>1, <2>2, <2>3, <2>5, <3>1
    <3> QED BY <2>1, <3>2 DEF j
  <2> QED BY <2>4, <2>5
<1> HIDE DEF S
<1>3. \A k \in 0 .. m : k \in S
  BY <1>1, <1>2, Stepwise
<1> QED BY <1>3 DEF S

(* The field at a step is the one its last component leads to. *)
LEMMA AtIs ==
  ASSUME NEW fields, NEW path \in Seq(Int), NEW k \in 1 .. Len(path)
  PROVE  Reached(fields, path, k) =
           IF k = 1 THEN Nth(fields, path[1]) ELSE Step(Reached(fields, path, k - 1), path[k])
<1> DEFINE n == Len(path)
<1>1. n \in Nat /\ k \in 1 .. n
  OBVIOUS
<1>2. PICK f : Walk(fields, path, n, f)
  BY <1>1, WalkExists
<1>3. ASSUME NEW m \in 1 .. n PROVE Reached(fields, path, m) = f[m]
  <2> DEFINE c == SubSeq(path, 1, m)
             at == CHOOSE g : Walk(fields, c, m, g)
  <2>1. Len(c) = m /\ \A j \in 1 .. m : path[j] = c[j]
    BY <1>3
  <2> HIDE DEF n
  <2>2. m \in Nat /\ m \in 0 .. n /\ m \in 1 .. m
    BY <1>1, <1>3
  <2> HIDE DEF c
  <2>3. ResolveFieldPath(fields, c) = at[m]
    BY <2>1 DEF ResolveFieldPath, Walk
  <2>4. Walk(fields, c, m, at)
    BY <2>2, WalkExists
  <2> HIDE DEF at
  <2>5. f[m] = at[m]
    <3>1. n \in Nat /\ \A j \in 1 .. m : path[j] = c[j]
      BY <1>1, <2>1
    <3>2. \A j \in 1 .. m : f[j] = at[j]
      BY <1>2, <2>2, <2>4, <3>1, WalksAgree
    <3> QED BY <2>2, <3>2
  <2> QED BY <2>3, <2>5 DEF Reached, c
<1>4. k # 1 => k - 1 \in 1 .. n
  BY <1>1
<1> HIDE DEF n
<1>5. f[k] = IF k = 1 THEN Nth(fields, path[1]) ELSE Step(f[k - 1], path[k])
  BY <1>1, <1>2 DEF Walk
<1>6. Reached(fields, path, k) = f[k] /\ (k # 1 => Reached(fields, path, k - 1) = f[k - 1])
  BY <1>1, <1>3, <1>4
<1> QED BY <1>5, <1>6

----------------------------------------------------------------------------
(* The field a name finds.                                                 *)

(* A step of a path leads on, and its piece of the name spells it.         *)
Passes(fields, path, name, cut, k) ==
  LET at(j) == Reached(fields, path, j)
      piece == SubSeq(name, cut[k - 1] + 1, cut[k])
  IN  /\ at(k) # NoField
      /\ k < Len(path) => at(k)[1].below # <<>>
      /\ cut[k - 1] <= cut[k]
      /\ IF k > 1 /\ IsDynamicArray(at(k - 1)[1].metadata)
           THEN Len(piece) = 1 /\ piece[1] \in DOMAIN NumberOf /\ NumberOf[piece[1]] = path[k]
           ELSE piece = Parts(at(k)[1])

Finds(fields, path, name) ==
  /\ path \in Seq(Int) /\ Len(path) # 0
  /\ \E cut \in [0 .. Len(path) -> 0 .. Len(name)] :
       /\ cut[0] = 0 /\ cut[Len(path)] = Len(name)
       /\ \A k \in 1 .. Len(path) : Passes(fields, path, name, cut, k)

LEMMA FindsIs ==
  ASSUME NEW fields, NEW path, NEW name, Finds(fields, path, name)
  PROVE  LeadsTo(fields, path) /\ Spells(name, fields, path)
<1>1. PICK cut \in [0 .. Len(path) -> 0 .. Len(name)] :
        /\ cut[0] = 0 /\ cut[Len(path)] = Len(name)
        /\ \A k \in 1 .. Len(path) : Passes(fields, path, name, cut, k)
  BY DEF Finds
<1>2. LeadsTo(fields, path)
  BY <1>1 DEF LeadsTo, Passes, Reached
<1>3. \A k \in 1 .. Len(path) :
         LET at(j) == ResolveFieldPath(fields, SubSeq(path, 1, j))[1]
             piece == SubSeq(name, cut[k - 1] + 1, cut[k])
         IN  /\ cut[k - 1] <= cut[k]
             /\ IF k > 1 /\ IsDynamicArray(at(k - 1).metadata)
                  THEN Len(piece) = 1 /\ piece[1] \in DOMAIN NumberOf /\ NumberOf[piece[1]] = path[k]
                  ELSE piece = Parts(at(k))
  BY <1>1 DEF Passes, Reached
<1>4. Spells(name, fields, path)
  BY <1>1, <1>3 DEF Spells
<1> QED BY <1>2, <1>4

(* The first step of a path, and the second where the first is a dynamic   *)
(* array.                                                                  *)
LEMMA FirstPasses ==
  ASSUME NEW fields, NEW f \in DOMAIN fields, f \in Int, NEW name, NEW cut,
         NEW path \in Seq(Int), Len(path) # 0, path[1] = f - 1,
         Len(path) # 1 => fields[f].below # <<>>,
         IsPrefixOf(Parts(fields[f]), name),
         cut[0] = 0, cut[1] = Len(Parts(fields[f]))
  PROVE  Reached(fields, path, 1) = <<fields[f]>> /\ Passes(fields, path, name, cut, 1)
<1> DEFINE n == Len(path)
           field == fields[f]
           spelled == Parts(field)
           at == Reached(fields, path, 1)
<1>1. n \in Nat /\ n # 0 /\ 1 \in 1 .. n
  OBVIOUS
<1>2. at = Nth(fields, path[1])
  BY <1>1, AtIs
<1>3. path[1] + 1 = f
  OBVIOUS
<1>4. at = <<field>>
  BY <1>2, <1>3 DEF Nth
<1>5. Len(spelled) \in Nat /\ SubSeq(name, 1, Len(spelled)) = spelled
  BY DEF IsPrefixOf
<1>6. SubSeq(name, cut[1 - 1] + 1, cut[1]) = spelled /\ cut[1 - 1] <= cut[1]
  <2> HIDE DEF spelled
  <2>1. cut[1 - 1] + 1 = 1 /\ cut[1 - 1] = 0 /\ cut[1] = Len(spelled)
    BY DEF spelled
  <2> QED BY <1>5, <2>1
<1>7. n > 1 => field.below # <<>>
  <2>1. n > 1 => n # 1
    <3> HIDE DEF n
    <3> QED BY <1>1
  <2> QED BY <2>1, Zenon
<1> HIDE DEF field, at
<1>8. at # NoField /\ at[1] = field
  BY <1>4 DEF NoField
<1>9. Passes(fields, path, name, cut, 1)
  <2> HIDE DEF n
  <2>1. 1 < n => at[1].below # <<>>
    BY <1>1, <1>7, <1>8
  <2>2. SubSeq(name, cut[1 - 1] + 1, cut[1]) = Parts(at[1])
    BY <1>6, <1>8, Zenon
  <2>3. ~(1 > 1)
    OBVIOUS
  <2> QED BY <1>6, <1>8, <2>1, <2>2, <2>3, Zenon DEF Passes, at, n
<1> QED BY <1>4, <1>9 DEF at, field

LEMMA SecondPasses ==
  ASSUME NEW fields, NEW field, NEW V, NEW name \in Seq(V), NEW cut, NEW c \in Nat,
         NEW path \in Seq(Int), Len(path) \in Nat, 2 <= Len(path),
         Reached(fields, path, 1) = <<field>>,
         IsDynamicArray(field.metadata), field.below # <<>>, 1 \in DOMAIN field.below[1],
         Len(path) # 2 => field.below[1][1].below # <<>>,
         cut[1] = c, cut[2] = c + 1, c + 1 <= Len(name),
         name[c + 1] \in DOMAIN NumberOf, NumberOf[name[c + 1]] = path[2]
  PROVE  /\ Reached(fields, path, 2) = <<field.below[1][1]>>
         /\ Passes(fields, path, name, cut, 2)
<1> DEFINE n == Len(path)
           first == Reached(fields, path, 1)
           second == Reached(fields, path, 2)
           element == field.below[1][1]
           piece == SubSeq(name, cut[2 - 1] + 1, cut[2])
<1>1. 2 \in 1 .. n /\ 2 # 1 /\ 2 - 1 = 1
  OBVIOUS
<1>2. second = Step(first, path[2])
  BY <1>1, AtIs
<1>3. Step(first, path[2]) = Nth(field.below[1], 0)
  <2> HIDE DEF first
  <2>1. first = <<field>> /\ first # NoField /\ first[1] = field
    BY DEF first, NoField
  <2> QED BY <2>1 DEF Step
<1>4. Nth(field.below[1], 0) = <<element>>
  BY DEF Nth
<1>5. second = <<element>>
  BY <1>2, <1>3, <1>4
<1>6. Len(piece) = 1 /\ piece[1] = name[c + 1]
  <2>1. piece = SubSeq(name, c + 1, c + 1) /\ c + 1 \in 1 .. Len(name)
    BY <1>1
  <2> DEFINE d == c + 1
  <2>2. piece = SubSeq(name, d, d) /\ d \in 1 .. Len(name)
    BY <2>1
  <2> HIDE DEF piece, d
  <2>3. Len(SubSeq(name, d, d)) = 1 /\ SubSeq(name, d, d)[1] = name[d]
    BY <2>2
  <2> QED BY <2>2, <2>3 DEF d
<1>7. cut[2 - 1] <= cut[2]
  BY <1>1
<1>8. n > 2 => element.below # <<>>
  <2>1. n > 2 => n # 2
    <3>1. n \in Nat
      OBVIOUS
    <3> HIDE DEF n
    <3> QED BY <3>1
  <2> QED BY <2>1, Zenon
<1> HIDE DEF piece, first, second, element
<1>9. second # NoField /\ second[1] = element /\ first[1] = field
  BY <1>5 DEF NoField, first
<1>10. Passes(fields, path, name, cut, 2)
  <2>1. Reached(fields, path, 2 - 1) = first /\ 2 > 1
    BY <1>1 DEF first
  <2> QED BY <1>6, <1>7, <1>8, <1>9, <2>1 DEF Passes, piece, second
<1> QED BY <1>5, <1>10 DEF second, element

(* Below a field that is no dynamic array the path goes on as if it began  *)
(* there.                                                                  *)
GoesOn(whole, h, path) ==
  /\ whole \in Seq(Int) /\ path \in Seq(Int) /\ Len(whole) = h + Len(path)
  /\ \A k \in 1 .. Len(path) : whole[h + k] = path[k]
Over(fields, path, k, inner) ==
  \E field : /\ Reached(fields, path, k) = <<field>>
             /\ field.below # <<>> /\ field.below[1] = inner
             /\ ~IsDynamicArray(field.metadata)

LEMMA ReachedBelow ==
  ASSUME NEW fields, NEW h, NEW inner, NEW whole, NEW path,
         h \in Nat /\ h # 0, GoesOn(whole, h, path), Over(fields, whole, h, inner)
  PROVE  \A k \in 1 .. Len(path) : Reached(fields, whole, h + k) = Reached(inner, path, k)
<1> DEFINE n == Len(path)
           S == {k \in 0 .. n : k # 0 => Reached(fields, whole, h + k) = Reached(inner, path, k)}
<1>1. /\ n \in Nat /\ path \in Seq(Int) /\ whole \in Seq(Int) /\ Len(whole) = h + n
      /\ \A k \in 1 .. n : whole[h + k] = path[k]
  BY DEF GoesOn
<1> PICK field : /\ Reached(fields, whole, h) = <<field>>
                 /\ field.below # <<>> /\ field.below[1] = inner
                 /\ ~IsDynamicArray(field.metadata)
  BY DEF Over
<1>2. 0 \in S
  BY <1>1
<1>3. ASSUME NEW k \in 0 .. n - 1, k \in S PROVE k + 1 \in S
  <2> DEFINE j == k + 1
             place == h + j
             below == Reached(inner, path, j)
             here == Reached(fields, whole, place)
  <2>1. /\ j \in 1 .. n /\ j \in 0 .. n /\ j - 1 = k /\ place \in 1 .. Len(whole) /\ place # 1
        /\ place - 1 = h + k
    <3>1. Len(whole) = h + n
      BY <1>1
    <3> DEFINE size == Len(whole)
    <3> HIDE DEF n, size, S
    <3>2. size = h + n
      BY <3>1 DEF size
    <3>3. j \in 1 .. n /\ j \in 0 .. n /\ j - 1 = k
      BY <1>1
    <3>4. place - 1 = h + k
      BY <1>1
    <3> HIDE DEF j
    <3>5. place \in 1 .. size /\ place # 1
      BY <1>1, <3>2, <3>3
    <3> QED BY <3>3, <3>4, <3>5 DEF size
  <2>2. whole[place] = path[j]
    <3>1. \A m \in 1 .. n : whole[h + m] = path[m]
      BY <1>1
    <3>2. j \in 1 .. n
      BY <2>1
    <3> HIDE DEF n, j, S, below, here
    <3> QED BY <3>1, <3>2
  <2>3. here = Step(Reached(fields, whole, h + k), path[j])
    <3>1. whole \in Seq(Int)
      BY <1>1
    <3>2. place \in 1 .. Len(whole) /\ place # 1 /\ place - 1 = h + k
      BY <2>1
    <3> HIDE DEF n, j, S, below, place
    <3>3. here = Step(Reached(fields, whole, place - 1), whole[place])
      BY <3>1, <3>2, AtIs
    <3> QED BY <2>2, <3>2, <3>3
  <2>4. below = IF j = 1 THEN Nth(inner, path[1]) ELSE Step(Reached(inner, path, k), path[j])
    <3>1. path \in Seq(Int)
      BY <1>1
    <3>2. j \in 1 .. Len(path) /\ j - 1 = k
      BY <2>1
    <3> HIDE DEF n, j, S, here, place
    <3>3. below = IF j = 1 THEN Nth(inner, path[1])
                            ELSE Step(Reached(inner, path, j - 1), path[j])
      BY <3>1, <3>2, AtIs
    <3> QED BY <3>2, <3>3
  <2>5. ASSUME j = 1 PROVE here = below
    <3>1. h + k = h
      BY <2>1, <2>5
    <3> DEFINE at == Reached(fields, whole, h)
    <3> HIDE DEF j, below, here, S
    <3>2. here = Step(at, path[1])
      BY <2>3, <2>5, <3>1
    <3>3. at # NoField /\ at[1] = field
      BY DEF NoField
    <3> HIDE DEF at
    <3>4. Step(at, path[1]) = Nth(inner, path[1])
      BY <3>3 DEF Step
    <3> QED BY <2>4, <2>5, <3>2, <3>4
  <2>6. ASSUME j # 1 PROVE here = below
    <3>1. Reached(fields, whole, h + k) = Reached(inner, path, k)
      BY <1>3, <2>1, <2>6
    <3> HIDE DEF j, below, here, S
    <3> QED BY <2>3, <2>4, <2>6, <3>1
  <2>7. here = below
    BY <2>5, <2>6
  <2> QED BY <2>1, <2>7 DEF j
<1> HIDE DEF S
<1>4. \A k \in 0 .. n : k \in S
  BY <1>1, <1>2, <1>3, Stepwise
<1>5. \A k \in 1 .. n : Reached(fields, whole, h + k) = Reached(inner, path, k)
  <2>1. \A k \in 1 .. n : k \in 0 .. n /\ k # 0
    BY <1>1
  <2> HIDE DEF n
  <2> QED BY <1>4, <2>1 DEF S
<1> QED BY <1>5

LEMMA WithoutIs ==
  ASSUME NEW V, NEW s \in Seq(V), NEW c \in Nat, c <= Len(s)
  PROVE  /\ Without(s, c) \in Seq(V) /\ Len(Without(s, c)) = Len(s) - c
         /\ \A k \in 1 .. Len(s) - c : Without(s, c)[k] = s[c + k]
BY DEF Without

(* The part of a name from one cut to another. *)
Part(s, a, b) == SubSeq(s, a + 1, b)

LEMMA PartsBelow ==
  ASSUME NEW V, NEW s, NEW c, s \in Seq(V) /\ c \in Nat /\ c <= Len(s)
  PROVE  \A a, b : (a \in Nat /\ b \in Nat /\ a <= b /\ c + b <= Len(s)) =>
           Part(Without(s, c), a, b) = Part(s, c + a, c + b)
<1> SUFFICES ASSUME NEW a, NEW b, a \in Nat /\ b \in Nat /\ a <= b /\ c + b <= Len(s)
             PROVE  Part(Without(s, c), a, b) = Part(s, c + a, c + b)
  OBVIOUS
<1> DEFINE tail == Without(s, c)
           n == Len(s)
           x == SubSeq(tail, a + 1, b)
           y == SubSeq(s, (c + a) + 1, c + b)
<1>1. tail \in Seq(V) /\ Len(tail) = n - c /\ \A k \in 1 .. n - c : tail[k] = s[c + k]
  BY WithoutIs
<1>2. n \in Nat
  OBVIOUS
<1> HIDE DEF tail
<1>3. /\ x \in Seq(V) /\ Len(x) = b - a
      /\ \A k \in 1 .. b - a : x[k] = tail[a + k]
  BY <1>1, <1>2
<1>4. /\ y \in Seq(V) /\ Len(y) = b - a
      /\ \A k \in 1 .. b - a : y[k] = s[(c + a) + k]
  BY <1>2
<1> HIDE DEF x, y, n
<1>5. ASSUME NEW k \in 1 .. b - a PROVE x[k] = y[k]
  <2>1. a + k \in 1 .. n - c /\ c + (a + k) = (c + a) + k
    BY <1>2 DEF n
  <2>2. tail[a + k] = s[c + (a + k)]
    BY <1>1, <2>1
  <2> QED BY <1>3, <1>4, <2>1, <2>2
<1>6. x = y
  BY <1>3, <1>4, <1>5, SameSequence
<1> QED BY <1>6 DEF x, y, tail, Part

LEMMA PassesSame ==
  ASSUME NEW fields, NEW path, NEW name, NEW cut, NEW other, NEW k,
         cut[k] = other[k], cut[k - 1] = other[k - 1], Passes(fields, path, name, cut, k)
  PROVE  Passes(fields, path, name, other, k)
BY DEF Passes

LEMMA PassesBelow ==
  ASSUME NEW fields, NEW inner, NEW whole, NEW path, NEW V, NEW name, NEW h, NEW n, NEW j, NEW c,
         NEW cut, NEW joint,
         name \in Seq(V) /\ h \in Nat /\ h # 0 /\ n \in Nat /\ j \in 1 .. n,
         Len(path) = n /\ Len(whole) = h + n,
         c \in Nat /\ cut[j] \in Nat /\ cut[j - 1] \in Nat,
         cut[j - 1] <= cut[j] =>
           Part(Without(name, c), cut[j - 1], cut[j]) = Part(name, c + cut[j - 1], c + cut[j]),
         joint[h + j] = c + cut[j] /\ joint[(h + j) - 1] = c + cut[j - 1],
         whole[h + j] = path[j],
         Reached(fields, whole, h + j) = Reached(inner, path, j),
         j = 1 => ~IsDynamicArray(Reached(fields, whole, (h + j) - 1)[1].metadata),
         j # 1 => Reached(fields, whole, (h + j) - 1) = Reached(inner, path, j - 1),
         Passes(inner, path, Without(name, c), cut, j)
  PROVE  Passes(fields, whole, name, joint, h + j)
<1> DEFINE here == Reached(inner, path, j)
           above == Reached(inner, path, j - 1)
           over == Reached(fields, whole, (h + j) - 1)
           tail == Without(name, c)
           piece == SubSeq(tail, cut[j - 1] + 1, cut[j])
           place == h + j
<1>1. /\ here # NoField
      /\ j < n => here[1].below # <<>>
      /\ cut[j - 1] <= cut[j]
      /\ IF j > 1 /\ IsDynamicArray(above[1].metadata)
           THEN Len(piece) = 1 /\ piece[1] \in DOMAIN NumberOf /\ NumberOf[piece[1]] = path[j]
           ELSE piece = Parts(here[1])
  BY DEF Passes
<1>2. piece = Part(name, c + cut[j - 1], c + cut[j])
  BY <1>1 DEF Part
<1>3. piece = SubSeq(name, joint[place - 1] + 1, joint[place])
  BY <1>2 DEF Part
<1>4. joint[place - 1] <= joint[place]
  BY <1>1
<1>5. Reached(fields, whole, place) = here /\ whole[place] = path[j]
  OBVIOUS
<1>6. place < Len(whole) => j < n
  BY SMT
<1>7. (place > 1 /\ IsDynamicArray(over[1].metadata)) <=> (j > 1 /\ IsDynamicArray(above[1].metadata))
  <2>1. place > 1 /\ (j > 1 <=> j # 1)
    OBVIOUS
  <2> DEFINE x == IsDynamicArray(over[1].metadata)
             y == IsDynamicArray(above[1].metadata)
  <2>2. (j = 1 => ~x) /\ (j # 1 => (x <=> y))
    OBVIOUS
  <2> HIDE DEF x, y, place
  <2> QED BY <2>1, <2>2
<1>8. over = Reached(fields, whole, place - 1)
  OBVIOUS
<1> HIDE DEF here, above, over, tail, piece, place
<1>9. Passes(fields, whole, name, joint, place)
  BY <1>1, <1>3, <1>4, <1>5, <1>6, <1>7, <1>8 DEF Passes
<1> QED BY <1>9 DEF place

(* A path begins with steps that spell the first pieces of a name.         *)
Begins(fields, path, name, h, c, start) ==
  /\ start[0] = 0 /\ start[h] = c /\ \A k \in 0 .. h : start[k] \in 0 .. c
  /\ \A k \in 1 .. h : Passes(fields, path, name, start, k)

LEMMA FindsBelow ==
  ASSUME NEW fields, NEW V, NEW name, NEW h, NEW c, NEW inner, NEW path, NEW whole, NEW start,
         name \in Seq(V) /\ h \in Nat /\ h # 0 /\ c \in Nat /\ c <= Len(name),
         Finds(inner, path, Without(name, c)),
         GoesOn(whole, h, path), Over(fields, whole, h, inner),
         Begins(fields, whole, name, h, c, start)
  PROVE  Finds(fields, whole, name)
<1> DEFINE n == Len(path)
           tail == Without(name, c)
           size == Len(name)
           N == h + n
<1>1. h \in Nat /\ h # 0 /\ c \in Nat /\ path \in Seq(Int) /\ n \in Nat /\ n # 0 /\ size \in Nat
  BY DEF Finds
<1>2. Len(tail) = size - c
  BY WithoutIs
<1>3. PICK cut \in [0 .. n -> 0 .. size - c] :
        /\ cut[0] = 0 /\ cut[n] = size - c
        /\ \A k \in 1 .. n : Passes(inner, path, tail, cut, k)
  BY <1>2 DEF Finds
<1>4. \A k \in 1 .. n : Reached(fields, whole, h + k) = Reached(inner, path, k)
  BY ReachedBelow
<1> DEFINE joint == [k \in 0 .. N |-> IF k <= h THEN start[k] ELSE c + cut[k - h]]
<1>5. whole \in Seq(Int) /\ \A k \in 1 .. n : whole[h + k] = path[k]
  BY DEF GoesOn
<1>6. Len(whole) = h + n /\ c <= size
  BY DEF GoesOn
<1>7. \A a, b : (a \in Nat /\ b \in Nat /\ a <= b /\ c + b <= size) =>
          Part(Without(name, c), a, b) = Part(name, c + a, c + b)
  BY PartsBelow DEF size
<1>8. \A k \in 0 .. n : cut[k] \in Nat /\ c + cut[k] <= size
  <2> HIDE DEF n, size
  <2>1. ASSUME NEW k \in 0 .. n PROVE cut[k] \in Nat /\ c + cut[k] <= size
    <3>1. cut[k] \in 0 .. size - c
      BY <1>3
    <3> QED BY <1>1, <1>6, <3>1
  <2> QED BY <2>1
<1> HIDE DEF n, size, tail
<1>9. \A k \in 0 .. h : joint[k] = start[k] /\ joint[k] \in 0 .. size
  <2>1. ASSUME NEW k \in 0 .. h PROVE joint[k] = start[k] /\ joint[k] \in 0 .. size
    <3>1. k \in 0 .. N /\ k <= h
      BY <1>1
    <3>2. joint[k] = start[k] /\ start[k] \in 0 .. c
      BY <3>1 DEF Begins
    <3> DEFINE x == start[k]
    <3>3. x \in 0 .. c /\ c <= size /\ size \in Nat /\ joint[k] = x
      BY <1>1, <1>6, <3>2
    <3> HIDE DEF joint, x
    <3>4. x \in 0 .. size
      BY <3>3
    <3> QED BY <3>2, <3>3, <3>4
  <2> QED BY <2>1
<1>10. \A k \in 0 .. n : joint[h + k] = c + cut[k]
  <2>1. ASSUME NEW k \in 0 .. n PROVE joint[h + k] = c + cut[k]
    <3>1. CASE k = 0
      <4>1. h + k = h /\ h \in 0 .. h
        BY <3>1
      <4>2. joint[h] = c
        <5> HIDE DEF joint
        <5> QED BY <1>9, <4>1 DEF Begins
      <4>3. c + cut[k] = c
        BY <1>3, <3>1
      <4> HIDE DEF joint
      <4> QED BY <4>1, <4>2, <4>3
    <3>2. CASE k # 0
      <4> DEFINE place == h + k
      <4>1. place \in 0 .. N /\ ~(place <= h) /\ place - h = k
        BY <1>1, <3>2
      <4> HIDE DEF place, N
      <4>2. joint[place] = c + cut[place - h]
        BY <4>1
      <4> HIDE DEF joint
      <4> QED BY <4>1, <4>2 DEF place
    <3> QED BY <3>1, <3>2
  <2> QED BY <2>1
<1>11. \A k \in 0 .. N : k \in 0 .. h \/ (k - h \in 1 .. n /\ h + (k - h) = k)
  BY <1>1
<1>12. joint \in [0 .. N -> 0 .. size] /\ joint[0] = 0 /\ joint[N] = size
  <2>1. joint = [k \in 0 .. N |-> joint[k]]
    OBVIOUS
  <2> HIDE DEF joint
  <2>2. ASSUME NEW k \in 0 .. N PROVE joint[k] \in 0 .. size
    <3>1. CASE k \in 0 .. h
      BY <1>9, <3>1
    <3>2. CASE k - h \in 1 .. n /\ h + (k - h) = k
      <4> DEFINE j == k - h
      <4>1. j \in 0 .. n /\ h + j = k
        BY <3>2
      <4> HIDE DEF j
      <4>2. joint[k] = c + cut[j] /\ cut[j] \in Nat /\ c + cut[j] <= size
        BY <1>8, <1>10, <4>1
      <4> DEFINE x == cut[j]
      <4>3. joint[k] = c + x /\ x \in Nat /\ c + x <= size
        BY <4>2
      <4> HIDE DEF x
      <4>4. c + x \in 0 .. size
        BY <1>1, <4>3
      <4> QED BY <4>3, <4>4
    <3> QED BY <1>11, <3>1, <3>2
  <2>3. joint[0] = 0
    <3>1. 0 \in 0 .. h
      BY <1>1
    <3> QED BY <1>9, <3>1 DEF Begins
  <2>4. joint[N] = size
    <3>1. n \in 0 .. n
      BY <1>1
    <3>2. joint[N] = c + cut[n]
      BY <1>10, <3>1
    <3> QED BY <1>1, <1>3, <3>2
  <2> HIDE DEF N
  <2> QED BY <2>1, <2>2, <2>3, <2>4
<1> HIDE DEF joint
<1>13. ASSUME NEW k \in 1 .. h PROVE Passes(fields, whole, name, joint, k)
  <2>1. k \in 0 .. h /\ k - 1 \in 0 .. h
    BY <1>1
  <2>2. joint[k] = start[k] /\ joint[k - 1] = start[k - 1]
    BY <1>9, <2>1
  <2>3. Passes(fields, whole, name, start, k)
    BY DEF Begins
  <2> QED BY <2>2, <2>3, PassesSame
<1>14. ASSUME NEW j \in 1 .. n PROVE Passes(fields, whole, name, joint, h + j)
  <2>1. j \in 0 .. n /\ j - 1 \in 0 .. n /\ (h + j) - 1 = h + (j - 1) /\ (j # 1 => j - 1 \in 1 .. n)
    BY <1>1
  <2>2. /\ joint[h + j] = c + cut[j] /\ joint[(h + j) - 1] = c + cut[j - 1]
        /\ cut[j] \in Nat /\ cut[j - 1] \in Nat /\ c + cut[j] <= size
    BY <1>8, <1>10, <2>1
  <2>3. ASSUME j = 1 PROVE ~IsDynamicArray(Reached(fields, whole, (h + j) - 1)[1].metadata)
    <3>1. (h + j) - 1 = h
      BY <2>3
    <3>2. PICK field : Reached(fields, whole, h) = <<field>> /\ ~IsDynamicArray(field.metadata)
      BY DEF Over
    <3> DEFINE at == Reached(fields, whole, h)
    <3> HIDE DEF at
    <3>3. at = <<field>>
      BY <3>2 DEF at
    <3>4. at[1] = field
      BY <3>3
    <3> QED BY <3>1, <3>2, <3>4 DEF at
  <2>4. ASSUME j # 1 PROVE Reached(fields, whole, (h + j) - 1) = Reached(inner, path, j - 1)
    BY <1>4, <2>1, <2>4
  <2>5. Reached(fields, whole, h + j) = Reached(inner, path, j) /\ whole[h + j] = path[j]
    BY <1>4, <1>5
  <2>6. Passes(inner, path, Without(name, c), cut, j)
    BY <1>3 DEF tail
  <2>7. Len(path) = n /\ Len(whole) = h + n
    BY <1>6 DEF n
  <2>8. cut[j - 1] <= cut[j] =>
          Part(Without(name, c), cut[j - 1], cut[j]) = Part(name, c + cut[j - 1], c + cut[j])
    BY <1>7, <2>2
  <2> QED BY <1>1, <2>2, <2>3, <2>4, <2>5, <2>6, <2>7, <2>8, PassesBelow
<1>15. ASSUME NEW k \in 1 .. N PROVE Passes(fields, whole, name, joint, k)
  <2>1. k \in 0 .. N /\ k # 0
    BY <1>1
  <2>2. CASE k \in 0 .. h
    <3>1. k \in 1 .. h
      BY <2>1, <2>2
    <3> QED BY <1>13, <3>1
  <2>3. CASE k - h \in 1 .. n /\ h + (k - h) = k
    <3> DEFINE j == k - h
    <3>1. j \in 1 .. n /\ h + j = k
      BY <2>3
    <3> HIDE DEF j
    <3>2. Passes(fields, whole, name, joint, h + j)
      BY <1>14, <3>1
    <3> QED BY <3>1, <3>2
  <2> QED BY <1>11, <2>1, <2>2, <2>3
<1>16. Len(whole) = N /\ N # 0
  BY <1>1, <1>6 DEF N
<1> HIDE DEF N
<1> QED BY <1>5, <1>12, <1>15, <1>16 DEF Finds, size

LEMMA SequenceLists ==
  ASSUME NEW V, NEW s, s \in Seq(V)
  PROVE  Listing(s)
<1> DEFINE n == Len(s)
           R == {s[k] : k \in DOMAIN s}
<1>1. n \in Nat /\ DOMAIN s = 1 .. n /\ s = [k \in 1 .. n |-> s[k]]
  OBVIOUS
<1>2. \A k \in 1 .. n : s[k] \in R
  BY <1>1
<1> HIDE DEF n, R
<1>3. s \in [1 .. n -> R]
  BY <1>1, <1>2
<1>4. s \in Seq(R)
  BY <1>1, <1>3
<1> QED BY <1>4 DEF R, Listing

(* The tails of a name are what a search may be for. *)
LEMMA TailsAre ==
  ASSUME NEW name, Listing(name)
  PROVE  /\ name \in Tails(name)
         /\ \A parts \in Tails(name) :
              Listing(parts) /\ Len(parts) \in Nat /\ (parts # <<>> => Len(parts) # 0)
         /\ \A parts \in Tails(name) : \A n \in 0 .. Len(parts) : Without(parts, n) \in Tails(name)
<1> DEFINE V == {name[k] : k \in DOMAIN name}
           n == Len(name)
<1>1. name \in Seq(V) /\ n \in Nat
  BY DEF Listing
<1> HIDE DEF V
<1>2. ASSUME NEW a \in 0 .. n PROVE Without(name, a) \in Seq(V) /\ Len(Without(name, a)) = n - a
  BY <1>1, <1>2 DEF Without
<1>3. name \in Tails(name)
  <2>1. Without(name, 0) = name
    BY <1>1 DEF Without
  <2>2. 0 \in 0 .. n
    BY <1>1
  <2> QED BY <2>1, <2>2 DEF Tails
<1>4. ASSUME NEW parts \in Tails(name) 
      PROVE  Listing(parts) /\ Len(parts) \in Nat /\ (parts # <<>> => Len(parts) # 0)
  <2>1. PICK a \in 0 .. n : parts = Without(name, a)
    BY DEF Tails
  <2>2. parts \in Seq(V)
    BY <1>2, <2>1
  <2> QED BY <2>2, SequenceLists
<1>5. ASSUME NEW parts \in Tails(name), NEW b \in 0 .. Len(parts)
      PROVE  Without(parts, b) \in Tails(name)
  <2>1. PICK a \in 0 .. n : parts = Without(name, a)
    BY DEF Tails
  <2>2. Len(parts) = n - a /\ a \in Nat /\ b \in Nat /\ parts \in Seq(V)
    BY <1>1, <1>2, <2>1
  <2>3. a + b \in 0 .. n
    BY <1>1, <2>2
  <2>4. Without(parts, b) = Without(name, a + b)
    <3> DEFINE s == Without(parts, b)
               t == Without(name, a + b)
    <3>1. s \in Seq(V) /\ Len(s) = (n - a) - b /\ \A k \in 1 .. (n - a) - b : s[k] = parts[b + k]
      BY <1>1, <2>2, <2>3 DEF Without
    <3>2. t \in Seq(V) /\ Len(t) = n - (a + b) /\ \A k \in 1 .. n - (a + b) : t[k] = name[a + b + k]
      BY <1>1, <2>2, <2>3 DEF Without
    <3>3. \A k \in 1 .. n - a : parts[k] = name[a + k]
      BY <1>1, <2>1, <2>2 DEF Without
    <3> HIDE DEF s, t
    <3>4. (n - a) - b = n - (a + b)
      BY <1>1, <2>2
    <3>5. ASSUME NEW k \in 1 .. n - (a + b) PROVE s[k] = t[k]
      <4>1. b + k \in 1 .. n - a /\ a + (b + k) = a + b + k
        BY <1>1, <2>2, <2>3
      <4>2. parts[b + k] = name[a + (b + k)]
        BY <3>3, <4>1
      <4> QED BY <3>1, <3>2, <3>4, <4>1, <4>2
    <3>6. s = t
      <4> DEFINE m == n - (a + b)
      <4>1. s \in Seq(V) /\ t \in Seq(V) /\ Len(s) = m /\ Len(t) = m /\ \A k \in 1 .. m : s[k] = t[k]
        BY <3>1, <3>2, <3>4, <3>5
      <4> HIDE DEF m
      <4> QED BY <4>1
    <3> QED BY <3>6 DEF s, t
  <2> QED BY <2>3, <2>4 DEF Tails
<1> QED BY <1>3, <1>4, <1>5


(* What a search answers: nothing, or the key of a path the name spells.   *)
Answer(fields, key, name) ==
  IsKey(key) /\ (key # NoKey => Finds(fields, Components(key), name))

(* A name begins with what spells a field. *)
Starts(fields, f, name) ==
  f \in DOMAIN fields /\ f \in Nat /\ Listing(name) /\ IsPrefixOf(Parts(fields[f]), name)

LEMMA StartsIs ==
  ASSUME NEW fields, NEW f, NEW name, Starts(fields, f, name)
  PROVE  /\ \E V : name \in Seq(V)
         /\ Len(name) \in Nat /\ Len(Parts(fields[f])) \in Nat /\ Len(Parts(fields[f])) <= Len(name)
         /\ f - 1 \in Nat \cup {-1}
<1>1. \E V : name \in Seq(V)
  BY DEF Starts, Listing
<1>2. Len(name) \in Nat
  BY <1>1
<1>3. Len(Parts(fields[f])) \in 0 .. Len(name)
  BY DEF Starts, IsPrefixOf
<1>4. f - 1 \in Nat \cup {-1}
  BY DEF Starts
<1> QED BY <1>1, <1>2, <1>3, <1>4

LEMMA FieldFound ==
  ASSUME NEW fields, NEW f, NEW name, Starts(fields, f, name),
         Without(name, Len(Parts(fields[f]))) = <<>>
  PROVE  Answer(fields, TryKey(<<f - 1>>), name)
<1> DEFINE place == f - 1
           path == <<place>>
           c == Len(Parts(fields[f]))
           cut == [k \in 0 .. 1 |-> IF k = 0 THEN 0 ELSE c]
<1>1. PICK V : name \in Seq(V)
  BY StartsIs
<1>2. c \in Nat /\ c <= Len(name) /\ Len(name) \in Nat /\ place \in Int
  BY StartsIs
<1>3. c = Len(name)
  <2> HIDE DEF c
  <2>1. Len(Without(name, c)) = Len(name) - c
    BY <1>1, <1>2, WithoutIs
  <2>2. Len(Without(name, c)) = 0
    BY DEF c
  <2> QED BY <1>2, <2>1, <2>2
<1> HIDE DEF c
<1>4. cut \in [0 .. 1 -> 0 .. Len(name)] /\ cut[0] = 0 /\ cut[1] = Len(name) /\ cut[1] = c
  BY <1>2, <1>3
<1> HIDE DEF place, cut
<1>5. path \in Seq(Int) /\ Len(path) = 1 /\ path[1] = place
  BY <1>2
<1> HIDE DEF path
<1>6. Passes(fields, path, name, cut, 1)
  <2>1. f \in DOMAIN fields /\ f \in Int /\ IsPrefixOf(Parts(fields[f]), name)
    BY DEF Starts
  <2>2. Len(path) # 0 /\ path[1] = f - 1 /\ ~(Len(path) # 1)
    BY <1>5 DEF place
  <2>3. cut[0] = 0 /\ cut[1] = Len(Parts(fields[f]))
    BY <1>4 DEF c
  <2> QED BY <1>5, <2>1, <2>2, <2>3, FirstPasses
<1>7. Finds(fields, path, name)
  <2>1. \A k \in 1 .. 1 : k = 1
    OBVIOUS
  <2>2. \A k \in 1 .. Len(path) : Passes(fields, path, name, cut, k)
    BY <1>5, <1>6, <2>1
  <2>3. cut \in [0 .. Len(path) -> 0 .. Len(name)] /\ cut[0] = 0 /\ cut[Len(path)] = Len(name)
    BY <1>4, <1>5
  <2> QED BY <1>5, <2>2, <2>3 DEF Finds
<1>8. Answer(fields, TryKey(path), name)
  <2>1. CASE TryKey(path) = NoKey
    BY <2>1 DEF Answer, IsKey
  <2>2. CASE TryKey(path) # NoKey
    <3>1. IsKey(TryKey(path)) /\ Components(TryKey(path)) = path
      BY <1>5, <2>2, TryKeyIs
    <3> QED BY <1>7, <3>1 DEF Answer
  <2> QED BY <2>1, <2>2
<1> QED BY <1>8 DEF path, place

(* What is put in front of a sequence is what it begins with. *)
LEMMA JoinGoesOn ==
  ASSUME NEW start, NEW path, start \in Seq(Int) /\ path \in Seq(Int)
  PROVE  /\ GoesOn(start \o path, Len(start), path)
         /\ \A k \in 1 .. Len(start) : (start \o path)[k] = start[k]
BY DEF GoesOn

(* A key joined to what is in front of it is one of a path that goes on.   *)
LEMMA JoinedAnswer ==
  ASSUME NEW fields, NEW inner, NEW start, NEW key, NEW name, NEW tail,
         start \in Seq(Int) /\ Len(start) # 0, Answer(inner, key, tail),
         \A path, whole :
           (/\ Finds(inner, path, tail) /\ GoesOn(whole, Len(start), path)
            /\ \A k \in 1 .. Len(start) : whole[k] = start[k])
           => Finds(fields, whole, name)
  PROVE  Answer(fields, Joined(start, key), name)
<1>1. CASE Joined(start, key) = NoKey
  BY <1>1 DEF Answer, IsKey
<1>2. CASE Joined(start, key) # NoKey
  <2> DEFINE path == Components(key)
             whole == start \o path
  <2>1. IsKey(key)
    BY DEF Answer
  <2>2. key # NoKey /\ IsKey(Joined(start, key)) /\ Components(Joined(start, key)) = whole
    BY <1>2, <2>1, JoinedIs
  <2>3. Finds(inner, path, tail)
    BY <2>2 DEF Answer
  <2>4. path \in Seq(Int)
    BY <2>3 DEF Finds
  <2> HIDE DEF path
  <2>5. GoesOn(whole, Len(start), path) /\ \A k \in 1 .. Len(start) : whole[k] = start[k]
    BY <2>4, JoinGoesOn
  <2> HIDE DEF whole
  <2>6. Finds(fields, whole, name)
    BY <2>3, <2>5
  <2> QED BY <2>2, <2>6 DEF Answer
<1> QED BY <1>1, <1>2

LEMMA FieldBelowFound ==
  ASSUME NEW fields, NEW f, NEW name, NEW key, Starts(fields, f, name),
         fields[f].below # <<>>, ~IsDynamicArray(fields[f].metadata),
         Answer(fields[f].below[1], key, Without(name, Len(Parts(fields[f]))))
  PROVE  Answer(fields, Joined(<<f - 1>>, key), name)
<1> DEFINE place == f - 1
           start == <<place>>
           field == fields[f]
           inner == field.below[1]
           c == Len(Parts(field))
           tail == Without(name, c)
           cut == [k \in 0 .. 1 |-> IF k = 0 THEN 0 ELSE c]
<1>1. PICK V : name \in Seq(V)
  BY StartsIs
<1>2. c \in Nat /\ c <= Len(name) /\ place \in Int
  BY StartsIs
<1>3. f \in DOMAIN fields /\ f \in Int /\ IsPrefixOf(Parts(field), name)
  BY DEF Starts
<1>4. Answer(inner, key, tail) /\ field.below # <<>> /\ ~IsDynamicArray(field.metadata)
  OBVIOUS
<1>5. place = f - 1 /\ c = Len(Parts(field)) /\ field = fields[f] /\ inner = field.below[1]
      /\ tail = Without(name, c)
  OBVIOUS
<1> HIDE DEF place, field, inner, c, tail
<1>6. start \in Seq(Int) /\ Len(start) = 1 /\ start[1] = place
  BY <1>2
<1>7. cut[0] = 0 /\ cut[1] = c /\ \A k \in 0 .. 1 : cut[k] \in 0 .. c
  BY <1>2
<1> HIDE DEF start, cut
<1>8. ASSUME NEW path, NEW whole, Finds(inner, path, tail), GoesOn(whole, 1, path), whole[1] = place
      PROVE  Finds(fields, whole, name)
  <2>1. whole \in Seq(Int) /\ Len(whole) # 0
    <3>1. whole \in Seq(Int) /\ path \in Seq(Int) /\ Len(whole) = 1 + Len(path)
      BY <1>8 DEF GoesOn
    <3>2. Len(path) \in Nat
      BY <3>1
    <3> QED BY <3>1, <3>2
  <2>2. Reached(fields, whole, 1) = <<fields[f]>> /\ Passes(fields, whole, name, cut, 1)
    <3>1. whole[1] = f - 1
      BY <1>5, <1>8
    <3>2. Len(whole) # 1 => fields[f].below # <<>>
      BY <1>4, <1>5
    <3>3. IsPrefixOf(Parts(fields[f]), name) /\ cut[0] = 0 /\ cut[1] = Len(Parts(fields[f]))
      BY <1>3, <1>5, <1>7
    <3> QED BY <1>3, <2>1, <3>1, <3>2, <3>3, FirstPasses
  <2>3. Over(fields, whole, 1, inner)
    BY <1>4, <1>5, <2>2 DEF Over
  <2>4. Begins(fields, whole, name, 1, c, cut)
    <3>1. \A k \in 1 .. 1 : k = 1
      OBVIOUS
    <3> QED BY <1>7, <2>2, <3>1 DEF Begins
  <2> DEFINE h == 1
  <2>5. h \in Nat /\ h # 0
    OBVIOUS
  <2>6. GoesOn(whole, h, path) /\ Over(fields, whole, h, inner) /\ Begins(fields, whole, name, h, c, cut)
    BY <1>8, <2>3, <2>4
  <2> HIDE DEF h
  <2>7. Finds(inner, path, Without(name, c))
    BY <1>5, <1>8
  <2> QED BY <1>1, <1>2, <2>5, <2>6, <2>7, FindsBelow
<1>9. \A path, whole :
        (/\ Finds(inner, path, tail) /\ GoesOn(whole, Len(start), path)
         /\ \A k \in 1 .. Len(start) : whole[k] = start[k])
        => Finds(fields, whole, name)
  <2>1. \A whole : (\A k \in 1 .. Len(start) : whole[k] = start[k]) => whole[1] = place
    BY <1>6
  <2> QED BY <1>6, <1>8, <2>1
<1>10. Answer(fields, Joined(start, key), name)
  <2>1. start \in Seq(Int) /\ Len(start) # 0
    BY <1>6
  <2> QED BY <1>4, <1>9, <2>1, JoinedAnswer
<1> QED BY <1>10 DEF start, place

(* A name goes on with the index of an element of a dynamic array.         *)
Indexes(fields, f, name) ==
  LET tail == Without(name, Len(Parts(fields[f])))
  IN  /\ Starts(fields, f, name)
      /\ fields[f].below # <<>> /\ IsDynamicArray(fields[f].metadata)
      /\ 1 \in DOMAIN fields[f].below[1]
      /\ Len(tail) \in Nat \ {0} /\ tail[1] \in DOMAIN NumberOf

LEMMA ElementPasses ==
  ASSUME NEW fields, NEW f, NEW name, NEW c, NEW cut, NEW whole, NEW element,
         Indexes(fields, f, name), c = Len(Parts(fields[f])), element = fields[f].below[1][1],
         whole \in Seq(Int) /\ 2 <= Len(whole) /\ whole[1] = f - 1,
         whole[2] = NumberOf[Without(name, c)[1]],
         Len(whole) # 2 => element.below # <<>>,
         cut[0] = 0 /\ cut[1] = c /\ cut[2] = c + 1
  PROVE  /\ c \in Nat /\ c + 1 <= Len(name)
         /\ Reached(fields, whole, 2) = <<element>>
         /\ \A k \in 1 .. 2 : Passes(fields, whole, name, cut, k)
<1> DEFINE field == fields[f]
<1>1. Starts(fields, f, name) /\ field.below # <<>> /\ IsDynamicArray(field.metadata)
      /\ 1 \in DOMAIN field.below[1]
  BY DEF Indexes
<1>2. PICK V : name \in Seq(V)
  BY <1>1, StartsIs
<1>3. c \in Nat /\ c <= Len(name) /\ Len(name) \in Nat
  BY <1>1, StartsIs
<1>4. Len(Without(name, c)) # 0 /\ Without(name, c)[1] \in DOMAIN NumberOf
  BY DEF Indexes
<1>5. c + 1 <= Len(name) /\ Without(name, c)[1] = name[c + 1]
  <2> DEFINE size == Len(name)
  <2>1. Len(Without(name, c)) = size - c /\ \A k \in 1 .. size - c : Without(name, c)[k] = name[c + k]
    BY <1>2, <1>3, WithoutIs
  <2>2. size \in Nat /\ size - c # 0 /\ c <= size
    BY <1>3, <1>4, <2>1
  <2> HIDE DEF size
  <2>3. 1 \in 1 .. size - c /\ c + 1 <= size
    BY <1>3, <2>2
  <2> QED BY <2>1, <2>3 DEF size
<1>6. f \in DOMAIN fields /\ f \in Int /\ IsPrefixOf(Parts(fields[f]), name)
  BY <1>1 DEF Starts
<1>7. Len(whole) \in Nat /\ Len(whole) # 0 /\ (Len(whole) # 1 => field.below # <<>>)
  <2>1. Len(whole) \in Nat
    OBVIOUS
  <2> QED BY <1>1, <2>1
<1>8. Reached(fields, whole, 1) = <<field>> /\ Passes(fields, whole, name, cut, 1)
  BY <1>6, <1>7, FirstPasses
<1>9. Reached(fields, whole, 2) = <<element>> /\ Passes(fields, whole, name, cut, 2)
  <2>1. whole \in Seq(Int) /\ Len(whole) \in Nat /\ 2 <= Len(whole) /\ name \in Seq(V)
    BY <1>2, <1>7
  <2>2. Len(whole) # 2 => field.below[1][1].below # <<>>
    OBVIOUS
  <2>3. name[c + 1] \in DOMAIN NumberOf /\ NumberOf[name[c + 1]] = whole[2]
    BY <1>4, <1>5
  <2>4. cut[1] = c /\ cut[2] = c + 1 /\ element = field.below[1][1]
    OBVIOUS
  <2> HIDE DEF field
  <2>5. /\ Reached(fields, whole, 2) = <<field.below[1][1]>>
        /\ Passes(fields, whole, name, cut, 2)
    BY <1>1, <1>3, <1>5, <1>8, <2>1, <2>2, <2>3, <2>4, SecondPasses
  <2> QED BY <2>4, <2>5
<1>10. \A k \in 1 .. 2 : k = 1 \/ k = 2
  OBVIOUS
<1> QED BY <1>3, <1>5, <1>8, <1>9, <1>10

LEMMA ElementFound ==
  ASSUME NEW fields, NEW f, NEW name, NEW number, Indexes(fields, f, name),
         Len(Without(name, Len(Parts(fields[f])))) = 1,
         number = NumberOf[Without(name, Len(Parts(fields[f])))[1]]
  PROVE  Answer(fields, TryKey(<<f - 1, number>>), name)
<1> DEFINE place == f - 1
           path == <<place, number>>
           c == Len(Parts(fields[f]))
           tail == Without(name, c)
           element == fields[f].below[1][1]
           cut == [k \in 0 .. 2 |-> IF k = 0 THEN 0 ELSE IF k = 1 THEN c ELSE c + 1]
<1>1. Starts(fields, f, name)
  BY DEF Indexes
<1>2. PICK V : name \in Seq(V)
  BY <1>1, StartsIs
<1>3. c \in Nat /\ c <= Len(name) /\ Len(name) \in Nat /\ place \in Int
  BY <1>1, StartsIs
<1>4. Len(name) = c + 1
  <2>1. Len(tail) = Len(name) - c
    <3> HIDE DEF c
    <3> QED BY <1>2, <1>3, WithoutIs
  <2>2. Len(tail) = 1
    OBVIOUS
  <2> DEFINE x == Len(tail)
             size == Len(name)
  <2>3. x = size - c /\ x = 1 /\ size \in Nat /\ c \in Nat
    BY <1>3, <2>1, <2>2
  <2> HIDE DEF x, size, c
  <2>4. size = c + 1
    BY <2>3
  <2> QED BY <2>4 DEF size
<1>5. number \in Int
  <2>1. tail[1] \in DOMAIN NumberOf
    BY DEF Indexes
  <2> QED BY <2>1, NumberOfAssumption
<1>6. c = Len(Parts(fields[f])) /\ number = NumberOf[tail[1]] /\ tail = Without(name, c)
      /\ element = fields[f].below[1][1] /\ place = f - 1
  OBVIOUS
<1> HIDE DEF place, c, tail, element
<1>7. path \in Seq(Int) /\ Len(path) = 2 /\ path[1] = place /\ path[2] = number
  BY <1>3, <1>5
<1>8. /\ cut \in [0 .. 2 -> 0 .. Len(name)] /\ cut[0] = 0 /\ cut[1] = c /\ cut[2] = c + 1
      /\ cut[2] = Len(name)
  BY <1>3, <1>4
<1> HIDE DEF path, cut
<1>9. \A k \in 1 .. 2 : Passes(fields, path, name, cut, k)
  <2>1. path \in Seq(Int) /\ 2 <= Len(path) /\ path[1] = f - 1 /\ ~(Len(path) # 2)
    BY <1>6, <1>7
  <2>2. path[2] = NumberOf[Without(name, c)[1]]
    BY <1>6, <1>7
  <2>3. c = Len(Parts(fields[f])) /\ element = fields[f].below[1][1]
    BY <1>6
  <2> QED BY <1>8, <2>1, <2>2, <2>3, ElementPasses
<1>10. Finds(fields, path, name)
  <2>1. \A k \in 1 .. Len(path) : Passes(fields, path, name, cut, k)
    BY <1>7, <1>9
  <2>2. cut \in [0 .. Len(path) -> 0 .. Len(name)] /\ cut[0] = 0 /\ cut[Len(path)] = Len(name)
    BY <1>7, <1>8
  <2> QED BY <1>7, <2>1, <2>2 DEF Finds
<1>11. Answer(fields, TryKey(path), name)
  <2>1. CASE TryKey(path) = NoKey
    BY <2>1 DEF Answer, IsKey
  <2>2. CASE TryKey(path) # NoKey
    <3> path \in Seq(Int) /\ Len(path) # 0
      BY <1>7
    <3>1. IsKey(TryKey(path)) /\ Components(TryKey(path)) = path
      BY <2>2, TryKeyIs
    <3> QED BY <1>10, <3>1 DEF Answer
  <2> QED BY <2>1, <2>2
<1> QED BY <1>11 DEF path, place

LEMMA WithoutMore ==
  ASSUME NEW V, NEW s, NEW a, s \in Seq(V) /\ a \in Nat /\ a + 1 <= Len(s)
  PROVE  Without(Without(s, a), 1) = Without(s, a + 1)
<1> DEFINE n == Len(s)
           tail == Without(s, a)
           next == a + 1
           x == Without(tail, 1)
           y == Without(s, next)
<1>1. n \in Nat /\ a <= n /\ next \in Nat /\ next <= n
  OBVIOUS
<1>2. tail \in Seq(V) /\ Len(tail) = n - a /\ \A k \in 1 .. n - a : tail[k] = s[a + k]
  BY <1>1, WithoutIs
<1>3. y \in Seq(V) /\ Len(y) = n - next /\ \A k \in 1 .. n - next : y[k] = s[next + k]
  BY <1>1, WithoutIs
<1> HIDE DEF tail, y, n
<1>4. x \in Seq(V) /\ Len(x) = n - next /\ \A k \in 1 .. n - next : x[k] = tail[1 + k]
  BY <1>1, <1>2 DEF Without
<1> HIDE DEF x
<1>5. ASSUME NEW k \in 1 .. n - next PROVE x[k] = y[k]
  <2>1. 1 + k \in 1 .. n - a /\ a + (1 + k) = next + k
    BY <1>1
  <2>2. tail[1 + k] = s[a + (1 + k)]
    BY <1>2, <2>1
  <2> QED BY <1>3, <1>4, <2>1, <2>2
<1>6. x = y
  BY <1>3, <1>4, <1>5, SameSequence
<1> QED BY <1>6 DEF x, y, tail, next

LEMMA ElementBelowFound ==
  ASSUME NEW fields, NEW f, NEW name, NEW key, NEW number, NEW inner, NEW element, NEW tail,
         Indexes(fields, f, name), element = fields[f].below[1][1],
         tail = Without(name, Len(Parts(fields[f]))), number = NumberOf[tail[1]],
         element.below # <<>>, inner = element.below[1], ~IsDynamicArray(element.metadata),
         Answer(inner, key, Without(tail, 1))
  PROVE  Answer(fields, Joined(<<f - 1, number>>, key), name)
<1> DEFINE place == f - 1
           start == <<place, number>>
           c == Len(Parts(fields[f]))
           shorter == Without(tail, 1)
           cut == [k \in 0 .. 2 |-> IF k = 0 THEN 0 ELSE IF k = 1 THEN c ELSE c + 1]
           next == c + 1
<1>1. Starts(fields, f, name)
  BY DEF Indexes
<1>2. PICK V : name \in Seq(V)
  BY <1>1, StartsIs
<1>3. c \in Nat /\ c <= Len(name) /\ Len(name) \in Nat /\ place \in Int
  BY <1>1, StartsIs
<1>4. number \in Int
  <2>1. tail[1] \in DOMAIN NumberOf
    BY DEF Indexes
  <2> QED BY <2>1, NumberOfAssumption
<1>5. c = Len(Parts(fields[f])) /\ tail = Without(name, c) /\ place = f - 1
  OBVIOUS
<1>6. Len(tail) \in Nat \ {0}
  BY DEF Indexes
<1> HIDE DEF place, c
<1>7. shorter = Without(name, next) /\ next <= Len(name)
  <2>1. Len(tail) = Len(name) - c
    BY <1>2, <1>3, <1>5, WithoutIs
  <2>2. next <= Len(name)
    BY <1>3, <1>6, <2>1
  <2>3. Without(Without(name, c), 1) = Without(name, c + 1)
    BY <1>2, <1>3, <2>2, WithoutMore
  <2> QED BY <1>5, <2>2, <2>3
<1>8. start \in Seq(Int) /\ Len(start) = 2 /\ start[1] = place /\ start[2] = number
  BY <1>3, <1>4
<1>9. /\ cut[0] = 0 /\ cut[1] = c /\ cut[2] = c + 1 /\ \A k \in 0 .. 2 : cut[k] \in 0 .. next
      /\ next \in Nat
  BY <1>3
<1> HIDE DEF start, cut, shorter, next
<1>10. ASSUME NEW path, NEW whole, Finds(inner, path, shorter), GoesOn(whole, 2, path),
              whole[1] = place, whole[2] = number
       PROVE  Finds(fields, whole, name)
  <2>1. whole \in Seq(Int) /\ 2 <= Len(whole)
    <3>1. whole \in Seq(Int) /\ path \in Seq(Int) /\ Len(whole) = 2 + Len(path)
      BY <1>10 DEF GoesOn
    <3>2. Len(path) \in Nat
      BY <3>1
    <3> QED BY <3>1, <3>2
  <2>2. Reached(fields, whole, 2) = <<element>> /\ \A k \in 1 .. 2 : Passes(fields, whole, name, cut, k)
    <3>1. whole[1] = f - 1 /\ whole[2] = NumberOf[Without(name, c)[1]]
      BY <1>5, <1>10
    <3>2. Len(whole) # 2 => element.below # <<>>
      OBVIOUS
    <3> QED BY <1>5, <1>9, <2>1, <3>1, <3>2, ElementPasses
  <2>3. Over(fields, whole, 2, inner)
    BY <2>2 DEF Over
  <2>4. Begins(fields, whole, name, 2, next, cut)
    BY <1>9, <2>2 DEF Begins, next
  <2> DEFINE h == 2
  <2>5. h \in Nat /\ h # 0
    OBVIOUS
  <2>6. GoesOn(whole, h, path) /\ Over(fields, whole, h, inner) /\ Begins(fields, whole, name, h, next, cut)
    BY <1>10, <2>3, <2>4
  <2> HIDE DEF h
  <2>7. Finds(inner, path, Without(name, next))
    BY <1>7, <1>10
  <2> QED BY <1>2, <1>7, <1>9, <2>5, <2>6, <2>7, FindsBelow
<1>11. \A path, whole :
        (/\ Finds(inner, path, shorter) /\ GoesOn(whole, Len(start), path)
         /\ \A k \in 1 .. Len(start) : whole[k] = start[k])
        => Finds(fields, whole, name)
  <2>1. \A whole : (\A k \in 1 .. Len(start) : whole[k] = start[k]) => whole[1] = place /\ whole[2] = number
    BY <1>8
  <2> QED BY <1>8, <1>10, <2>1
<1>12. Answer(fields, Joined(start, key), name)
  <2>1. Answer(inner, key, shorter)
    BY DEF shorter
  <2>2. start \in Seq(Int) /\ Len(start) # 0
    BY <1>8
  <2> QED BY <1>11, <2>1, <2>2, JoinedAnswer
<1> QED BY <1>12 DEF start, place

(* A field whose serializer is one of W, and the element of a dynamic array*)
(* none itself; and serializers of such fields.                            *)
Tidy(field, W) ==
  /\ field.below # <<>> => field.below[1] \in W
  /\ field.below # <<>> /\ IsDynamicArray(field.metadata) =>
       ~IsDynamicArray(field.below[1][1].metadata)
Trees(W) ==
  \A fields \in W : DOMAIN fields \subseteq Nat /\ \A f \in DOMAIN fields : Tidy(fields[f], W)

LEMMA OneIn == ASSUME NEW n \in Nat, n # 0 PROVE 1 \in 0 .. n
  OBVIOUS

(* One depth of the search answers what the name spells when the depths    *)
(* below do.                                                               *)
LEMMA PartsResolve ==
  ASSUME NEW below, NEW elements, NEW fields, NEW level, NEW deeper, NEW W,
         NEW name, Listing(name), NEW parts \in Tails(name),
         Trees(W), fields \in W,
         SerializersUnder(fields) \subseteq level,
         \A s \in level : SerializersUnder(s) \subseteq deeper,
         \A s \in level, t \in Tails(name) : Answer(s, below[s][t], t),
         \A s \in deeper, t \in Tails(name) : Answer(s, elements[s][t], t)
  PROVE  Answer(fields, ResolveParts(below, elements, fields, parts), parts)
<1> DEFINE rest(f) == Without(parts, Len(Parts(fields[f])))
           under(f) ==
             IF fields[f].below = <<>> THEN <<FALSE, NoKey>>
             ELSE IF ~IsDynamicArray(fields[f].metadata)
               THEN LET key == below[fields[f].below[1]][rest(f)]
                    IN  <<key # NoKey, Joined(<<f - 1>>, key)>>
             ELSE IF rest(f)[1] \notin DOMAIN NumberOf THEN <<FALSE, NoKey>>
             ELSE IF 1 \notin DOMAIN fields[f].below[1] THEN <<TRUE, NoKey>>
             ELSE LET here == <<f - 1, NumberOf[rest(f)[1]]>>
                      inner == fields[f].below[1][1].below
                  IN  IF Len(rest(f)) = 1 THEN <<TRUE, TryKey(here)>>
                      ELSE IF inner = <<>> THEN <<FALSE, NoKey>>
                      ELSE LET key == elements[inner[1]][Without(rest(f), 1)]
                           IN  <<key # NoKey, Joined(here, key)>>
           answer == [f \in {g \in DOMAIN fields : IsPrefixOf(Parts(fields[g]), parts)} |->
                        IF rest(f) = <<>> THEN <<TRUE, TryKey(<<f - 1>>)>> ELSE under(f)]
           found == {f \in DOMAIN answer : answer[f][1]}
<1>1. ResolveParts(below, elements, fields, parts) =
        IF parts = <<>> \/ found = {} THEN NoKey
        ELSE answer[CHOOSE f \in found : \A g \in found : f <= g][2]
  BY DEF ResolveParts
<1>2. Answer(fields, NoKey, parts)
  BY DEF Answer, IsKey
<1>3. ASSUME NEW f \in DOMAIN fields, IsPrefixOf(Parts(fields[f]), parts)
      PROVE  rest(f) \in Tails(name)
  <2>1. Len(Parts(fields[f])) \in 0 .. Len(parts)
    BY <1>3 DEF IsPrefixOf
  <2> QED BY <2>1, TailsAre
<1>4. ASSUME NEW f \in DOMAIN fields, IsPrefixOf(Parts(fields[f]), parts)
      PROVE  Starts(fields, f, parts)
  <2>1. f \in Nat
    BY DEF Trees
  <2> QED BY <1>4, <2>1, TailsAre DEF Starts
<1>5. ASSUME NEW f \in DOMAIN fields, IsPrefixOf(Parts(fields[f]), parts), rest(f) # <<>>
      PROVE  Answer(fields, under(f)[2], parts)
  <2> DEFINE tail == rest(f)
             next == fields[f].below[1]
  <2>1. Starts(fields, f, parts)
    BY <1>5, <1>4
  <2>2. tail = Without(parts, Len(Parts(fields[f])))
    OBVIOUS
  <2>3. tail \in Tails(name)
    BY <1>3, <1>5
  <2>4. fields[f].below # <<>> => next \in level
    BY DEF SerializersUnder
  <2>5. CASE fields[f].below = <<>>
    <3>1. under(f)[2] = NoKey
      BY <2>5
    <3> HIDE DEF under
    <3> QED BY <1>2, <3>1
  <2>6. CASE fields[f].below # <<>> /\ ~IsDynamicArray(fields[f].metadata)
    <3> DEFINE key == below[next][tail]
    <3>1. under(f)[2] = Joined(<<f - 1>>, key)
      BY <2>6
    <3>2. Answer(next, key, tail)
      <4> HIDE DEF tail, next
      <4> QED BY <2>3, <2>4, <2>6
    <3>3. Answer(fields[f].below[1], key, Without(parts, Len(Parts(fields[f]))))
      BY <2>2, <3>2
    <3> HIDE DEF under, key
    <3>4. Answer(fields, Joined(<<f - 1>>, key), parts)
      BY <2>6, <2>1, <3>3, FieldBelowFound
    <3> QED BY <3>1, <3>4
  <2>7. CASE /\ fields[f].below # <<>> /\ IsDynamicArray(fields[f].metadata)
             /\ tail[1] \notin DOMAIN NumberOf \/ 1 \notin DOMAIN next
    <3>1. under(f)[2] = NoKey
      BY <2>7
    <3> HIDE DEF under
    <3> QED BY <1>2, <3>1
  <2>8. CASE /\ fields[f].below # <<>> /\ IsDynamicArray(fields[f].metadata)
             /\ tail[1] \in DOMAIN NumberOf /\ 1 \in DOMAIN next
    <3> DEFINE number == NumberOf[tail[1]]
               inner == next[1].below
               shorter == Without(tail, 1)
    <3>1. Indexes(fields, f, parts)
      <4>1. Len(tail) \in Nat \ {0}
        BY <1>5, <2>3, TailsAre
      <4> QED BY <2>8, <2>1, <2>2, <4>1 DEF Indexes
    <3>2. under(f) = IF Len(tail) = 1 THEN <<TRUE, TryKey(<<f - 1, number>>)>>
                     ELSE IF inner = <<>> THEN <<FALSE, NoKey>>
                     ELSE <<elements[inner[1]][shorter] # NoKey,
                            Joined(<<f - 1, number>>, elements[inner[1]][shorter])>>
      BY <2>8
    <3>3. CASE Len(tail) = 1
      <4>1. under(f)[2] = TryKey(<<f - 1, number>>)
        BY <3>2, <3>3
      <4>2. number = NumberOf[Without(parts, Len(Parts(fields[f])))[1]]
        OBVIOUS
      <4>3. Len(Without(parts, Len(Parts(fields[f])))) = 1
        BY <3>3
      <4> HIDE DEF under, number
      <4>4. Answer(fields, TryKey(<<f - 1, number>>), parts)
        BY <3>1, <4>2, <4>3, ElementFound
      <4> QED BY <4>1, <4>4
    <3>4. CASE Len(tail) # 1 /\ inner = <<>>
      <4>1. under(f)[2] = NoKey
        BY <3>2, <3>4
      <4> HIDE DEF under
      <4> QED BY <1>2, <4>1
    <3>5. CASE Len(tail) # 1 /\ inner # <<>>
      <4> DEFINE key == elements[inner[1]][shorter]
      <4>1. under(f)[2] = Joined(<<f - 1, number>>, key)
        BY <3>2, <3>5
      <4>2. inner[1] \in SerializersUnder(next)
        <5> HIDE DEF next
        <5> QED BY <2>8, <3>5 DEF SerializersUnder
      <4>3. inner[1] \in deeper
        <5> HIDE DEF next, inner
        <5> QED BY <2>4, <2>8, <4>2
      <4>4. shorter \in Tails(name)
        <5> HIDE DEF tail
        <5> DEFINE size == Len(tail)
        <5>1. size \in Nat /\ size # 0
          BY <1>5, <2>3, TailsAre DEF tail
        <5> HIDE DEF size
        <5>2. 1 \in 0 .. size
          BY <5>1, OneIn
        <5> QED BY <2>3, <5>2, TailsAre DEF size
      <4>5. Answer(inner[1], key, shorter)
        <5> HIDE DEF inner, shorter
        <5> QED BY <4>3, <4>4
      <4> DEFINE element == next[1]
      <4>6. element.below # <<>> /\ element = fields[f].below[1][1] /\ inner = element.below
        BY <3>5
      <4>7. ~IsDynamicArray(element.metadata)
        <5>1. Tidy(fields[f], W)
          BY DEF Trees
        <5> QED BY <2>8, <5>1 DEF Tidy
      <4>8. number = NumberOf[tail[1]]
        OBVIOUS
      <4> HIDE DEF under, key, number, element, inner, tail
      <4>9. Answer(element.below[1], key, Without(tail, 1))
        BY <4>5, <4>6
      <4>10. Answer(fields, Joined(<<f - 1, number>>, key), parts)
        BY <2>2, <3>1, <4>6, <4>7, <4>8, <4>9, ElementBelowFound
      <4> QED BY <4>1, <4>10
    <3> QED BY <3>3, <3>4, <3>5
  <2> HIDE DEF under, tail, next
  <2> QED BY <2>5, <2>6, <2>7, <2>8
<1>6. ASSUME NEW f \in DOMAIN answer PROVE Answer(fields, answer[f][2], parts)
  <2>1. f \in DOMAIN fields /\ IsPrefixOf(Parts(fields[f]), parts)
    BY <1>6
  <2>2. /\ rest(f) = <<>> => answer[f][2] = TryKey(<<f - 1>>)
        /\ rest(f) # <<>> => answer[f] = under(f)
    <3> HIDE DEF rest, under
    <3> QED BY <2>1
  <2>3. Starts(fields, f, parts) /\ rest(f) = Without(parts, Len(Parts(fields[f])))
    BY <1>4, <2>1
  <2> HIDE DEF under, rest, answer
  <2>4. CASE rest(f) = <<>>
    <3>1. answer[f][2] = TryKey(<<f - 1>>)
      BY <2>2, <2>4
    <3>2. Answer(fields, TryKey(<<f - 1>>), parts)
      BY <2>4, <2>3, FieldFound
    <3> QED BY <3>1, <3>2
  <2>5. CASE rest(f) # <<>>
    BY <1>5, <2>1, <2>2, <2>5
  <2> QED BY <2>4, <2>5
<1>7. ASSUME found # {} PROVE (CHOOSE f \in found : \A g \in found : f <= g) \in found
  <2>1. found \subseteq Nat
    <3>1. DOMAIN answer \subseteq DOMAIN fields
      <4> HIDE DEF rest, under
      <4> QED OBVIOUS
    <3>2. DOMAIN fields \subseteq Nat
      BY DEF Trees
    <3> HIDE DEF answer
    <3> QED BY <3>1, <3>2
  <2> HIDE DEF found
  <2>2. \E f \in found : \A g \in found : f <= g
    BY <1>7, <2>1, LeastElement
  <2> QED BY <2>2
<1>8. found \subseteq DOMAIN answer
  <2> HIDE DEF answer
  <2> QED OBVIOUS
<1> DEFINE first == CHOOSE f \in found : \A g \in found : f <= g
<1> HIDE DEF answer, found
<1> QED BY <1>1, <1>2, <1>6, <1>7, <1>8

(* The serializers so many steps below one are those below the ones of a   *)
(* step less.                                                              *)
Under(level) == UNION {SerializersUnder(fields) : fields \in level}

LEMMA LevelsAre ==
  ASSUME NEW root
  PROVE  /\ SerializersFrom(root)[0] = {root}
         /\ \A d \in 1 .. Top + 2 : SerializersFrom(root)[d] = Under(SerializersFrom(root)[d - 1])
<1> DEFINE n == Top + 2
           start == {root}
           R(g) == g = [d \in 0 .. n |-> IF d = 0 THEN start ELSE Under(g[d - 1])]
           Upto(m, g) == g = [d \in 0 .. m |-> IF d = 0 THEN start ELSE Under(g[d - 1])]
           S == {m \in 0 .. n : \E g : Upto(m, g)}
<1>1. SerializersFrom(root) = CHOOSE g : R(g)
  BY DEF SerializersFrom, Under
<1>2. n \in Nat
  BY TopAssumption
<1> HIDE DEF n, start
<1>3. 0 \in S
  <2> DEFINE g == [d \in 0 .. 0 |-> start]
  <2>1. Upto(0, g)
    OBVIOUS
  <2>2. 0 \in 0 .. n
    BY <1>2
  <2> QED BY <2>1, <2>2
<1>4. ASSUME NEW m \in 0 .. n - 1, m \in S PROVE m + 1 \in S
  <2>1. PICK f : Upto(m, f)
    BY <1>4
  <2>2. m \in Nat /\ m \in 0 .. m /\ m + 1 \in 0 .. n
    BY <1>2
  <2> DEFINE g == [d \in 0 .. m + 1 |-> IF d <= m THEN f[d] ELSE Under(f[m])]
  <2>3. ASSUME NEW d \in 0 .. m + 1
        PROVE  g[d] = IF d = 0 THEN start ELSE Under(g[d - 1])
    <3>1. CASE d = 0
      <4>1. 0 \in 0 .. m /\ 0 <= m
        BY <2>2
      <4>2. g[d] = f[0]
        BY <3>1, <4>1
      <4>3. f[0] = start
        BY <2>1, <4>1
      <4> QED BY <3>1, <4>2, <4>3
    <3>2. CASE d # 0 /\ d <= m
      <4>1. d \in 0 .. m /\ d - 1 \in 0 .. m + 1 /\ d - 1 <= m
        BY <2>2, <3>2
      <4>2. g[d] = f[d] /\ g[d - 1] = f[d - 1]
        BY <3>2, <4>1
      <4>3. f[d] = Under(f[d - 1])
        <5> HIDE DEF g
        <5> QED BY <2>1, <3>2, <4>1
      <4> HIDE DEF g
      <4> QED BY <3>2, <4>2, <4>3
    <3>3. CASE ~(d <= m)
      <4>1. d = m + 1 /\ d - 1 = m /\ m \in 0 .. m + 1 /\ m <= m /\ d # 0
        BY <2>2, <3>3
      <4>2. g[d] = Under(f[m]) /\ g[m] = f[m]
        BY <2>2, <3>3, <4>1
      <4> HIDE DEF g
      <4> QED BY <4>1, <4>2
    <3> QED BY <3>1, <3>2, <3>3
  <2>4. g = [d \in 0 .. m + 1 |-> g[d]]
    OBVIOUS
  <2> HIDE DEF g
  <2>5. Upto(m + 1, g)
    BY <2>3, <2>4
  <2> QED BY <2>2, <2>5
<1>5. PICK f : Upto(n, f)
  <2> HIDE DEF S
  <2>1. \A k \in 0 .. n : k \in S
    BY <1>2, <1>3, <1>4, Stepwise
  <2>2. n \in S
    BY <1>2, <2>1
  <2> QED BY <2>2 DEF S
<1>6. R(f)
  BY <1>5
<1> DEFINE level == SerializersFrom(root)
<1>7. R(level)
  <2> HIDE DEF R
  <2> QED BY <1>1, <1>6
<1> HIDE DEF level
<1>8. 0 \in 0 .. n /\ \A d \in 1 .. n : d \in 0 .. n /\ d # 0
  BY <1>2
<1>9. level[0] = start /\ \A d \in 1 .. n : level[d] = Under(level[d - 1])
  BY <1>7, <1>8
<1> QED BY <1>9 DEF level, n, start

(* What the search answers at a depth, from its answers further down. *)
Row(root, name, d, below, elements) ==
  [fields \in SerializersFrom(root)[d] |-> [parts \in Tails(name) |->
     IF d > Top THEN NoKey ELSE ResolveParts(below, elements, fields, parts)]]

LEMMA AnswersAre ==
  ASSUME NEW root, NEW name
  PROVE  \E answers :
           /\ ResolveFieldKey(root, name) = answers[0][root][name]
           /\ \A d \in 0 .. Top + 2 :
                answers[d] = Row(root, name, d, answers[d + 1], answers[d + 2])
<1> DEFINE n == Top + 2
           R(g) == g = [d \in 0 .. n |-> Row(root, name, d, g[d + 1], g[d + 2])]
           Upto(m, g) == g = [d \in n - m .. n |-> Row(root, name, d, g[d + 1], g[d + 2])]
           S == {m \in 0 .. n : \E g : Upto(m, g)}
           answers == CHOOSE g : R(g)
<1>1. ResolveFieldKey(root, name) = answers[0][root][name]
  BY DEF ResolveFieldKey, Row
<1>2. n \in Nat /\ Top \in Nat
  BY TopAssumption
<1>3. ASSUME NEW d, d > Top, NEW x, NEW y, NEW u, NEW v
      PROVE  Row(root, name, d, x, y) = Row(root, name, d, u, v)
  BY <1>3 DEF Row
<1>4. n > Top /\ n - 0 = n
  BY <1>2
<1> HIDE DEF n
<1>5. 0 \in S
  <2> DEFINE g == [d \in n - 0 .. n |-> Row(root, name, n, d, d)]
  <2>1. ASSUME NEW d \in n - 0 .. n PROVE g[d] = Row(root, name, d, g[d + 1], g[d + 2])
    <3>1. d = n /\ d > Top
      BY <1>2, <1>4, <2>1
    <3>2. g[d] = Row(root, name, n, d, d)
      OBVIOUS
    <3> HIDE DEF g
    <3> QED BY <1>3, <3>1, <3>2
  <2>2. g = [d \in n - 0 .. n |-> g[d]]
    OBVIOUS
  <2> HIDE DEF g
  <2>3. Upto(0, g)
    BY <2>1, <2>2
  <2>4. 0 \in 0 .. n
    BY <1>2
  <2> QED BY <2>3, <2>4
<1>6. ASSUME NEW m \in 0 .. n - 1, m \in S PROVE m + 1 \in S
  <2> DEFINE low == n - m
             next == n - (m + 1)
  <2>1. PICK f : Upto(m, f)
    BY <1>6
  <2>2. /\ m \in Nat /\ m + 1 \in 0 .. n /\ low \in Nat /\ next \in Nat /\ low = next + 1
        /\ next \in 0 .. n - 1
    BY <1>2
  <2>3. \A d \in low .. n : f[d] = Row(root, name, d, f[d + 1], f[d + 2])
    BY <2>1
  <2> HIDE DEF low, next
  <2> DEFINE g == [d \in next .. n |-> IF low <= d THEN f[d] ELSE Row(root, name, next, f[next + 1], f[next + 2])]
  <2>4. ASSUME NEW d \in low .. n PROVE g[d] = f[d]
    BY <2>2, <2>4
  <2>5. ASSUME NEW d \in next .. n PROVE g[d] = Row(root, name, d, g[d + 1], g[d + 2])
    <3>1. d \in Nat
      BY <2>2, <2>5
    <3>2. CASE low <= d /\ d > Top
      <4>1. d \in low .. n
        BY <2>2, <3>1, <3>2
      <4>2. g[d] = Row(root, name, d, f[d + 1], f[d + 2])
        BY <2>3, <2>4, <4>1
      <4> HIDE DEF g
      <4> QED BY <1>3, <3>2, <4>2
    <3>3. CASE low <= d /\ ~(d > Top)
      <4>1. d \in low .. n /\ d + 1 \in low .. n /\ d + 2 \in low .. n
        BY <1>2, <2>2, <3>1, <3>3 DEF n
      <4>2. g[d] = f[d] /\ g[d + 1] = f[d + 1] /\ g[d + 2] = f[d + 2]
        BY <2>4, <4>1
      <4> HIDE DEF g
      <4> QED BY <2>3, <4>1, <4>2
    <3>4. CASE ~(low <= d)
      <4>1. d = next
        BY <2>2, <2>5, <3>1, <3>4
      <4>2. g[d] = Row(root, name, next, f[next + 1], f[next + 2])
        BY <3>4
      <4>3. CASE d > Top
        <5> HIDE DEF g
        <5> QED BY <1>3, <4>1, <4>2, <4>3
      <4>4. CASE ~(d > Top)
        <5>1. next + 1 \in low .. n /\ next + 2 \in low .. n
          BY <1>2, <2>2, <4>1, <4>4 DEF n
        <5>2. g[next + 1] = f[next + 1] /\ g[next + 2] = f[next + 2]
          BY <2>4, <5>1
        <5> HIDE DEF g
        <5> QED BY <4>1, <4>2, <5>2
      <4> QED BY <4>3, <4>4
    <3> QED BY <3>2, <3>3, <3>4
  <2>6. g = [d \in next .. n |-> g[d]]
    OBVIOUS
  <2> HIDE DEF g
  <2>7. Upto(m + 1, g)
    BY <2>5, <2>6 DEF next
  <2> QED BY <2>2, <2>7
<1>7. PICK f : Upto(n, f)
  <2> HIDE DEF S
  <2>1. \A k \in 0 .. n : k \in S
    BY <1>2, <1>5, <1>6, Stepwise
  <2>2. n \in S
    BY <1>2, <2>1
  <2> QED BY <2>2 DEF S
<1>8. n - n = 0
  BY <1>2
<1>9. R(f)
  BY <1>7, <1>8
<1>10. R(answers)
  <2> HIDE DEF R
  <2> QED BY <1>9
<1> HIDE DEF answers
<1>11. \A d \in 0 .. n : answers[d] = Row(root, name, d, answers[d + 1], answers[d + 2])
  BY <1>10
<1> QED BY <1>1, <1>11 DEF n

(* A search by name answers nothing, or the key of a path the name spells. *)
LEMMA SearchAnswers ==
  ASSUME NEW W, Trees(W), NEW root, root \in W, NEW name, Listing(name)
  PROVE  Answer(root, ResolveFieldKey(root, name), name)
<1> DEFINE n == Top + 2
           level == SerializersFrom(root)
<1>1. PICK answers :
        /\ ResolveFieldKey(root, name) = answers[0][root][name]
        /\ \A d \in 0 .. n : answers[d] = Row(root, name, d, answers[d + 1], answers[d + 2])
  BY AnswersAre
<1> DEFINE Right(d) ==
             \A fields \in level[d], parts \in Tails(name) : Answer(fields, answers[d][fields][parts], parts)
           S == {m \in 0 .. n : \A d \in n - m .. n : Right(d)}
<1>2. n \in Nat /\ Top \in Nat /\ n = Top + 2
  BY TopAssumption
<1>3. level[0] = {root} /\ \A d \in 1 .. n : level[d] = Under(level[d - 1])
  BY LevelsAre
<1> HIDE DEF n, level
<1>4. \A d \in 0 .. n : level[d] \subseteq W
  <2> DEFINE T == {d \in 0 .. n : level[d] \subseteq W}
  <2>1. 0 \in T
    BY <1>2, <1>3
  <2>2. ASSUME NEW d \in 0 .. n - 1, d \in T PROVE d + 1 \in T
    <3> DEFINE next == d + 1
    <3>1. next \in 1 .. n /\ next \in 0 .. n /\ next - 1 = d
      BY <1>2
    <3> HIDE DEF next
    <3>2. level[next] = Under(level[d]) /\ level[d] \subseteq W
      BY <1>3, <2>2, <3>1
    <3>3. \A fields \in W : SerializersUnder(fields) \subseteq W
      BY DEF SerializersUnder, Trees, Tidy
    <3>4. level[next] \subseteq W
      BY <3>2, <3>3 DEF Under
    <3> QED BY <3>1, <3>4 DEF next
  <2> HIDE DEF T
  <2>3. \A d \in 0 .. n : d \in T
    BY <1>2, <2>1, <2>2, Stepwise
  <2> QED BY <2>3 DEF T
<1>5. ASSUME NEW d \in 0 .. n, NEW fields \in level[d], NEW parts \in Tails(name)
      PROVE  answers[d][fields][parts] =
               IF d > Top THEN NoKey
               ELSE ResolveParts(answers[d + 1], answers[d + 2], fields, parts)
  <2>1. answers[d] = Row(root, name, d, answers[d + 1], answers[d + 2])
    BY <1>1
  <2> DEFINE x == answers[d + 1]
             y == answers[d + 2]
  <2> HIDE DEF x, y
  <2>2. answers[d] = Row(root, name, d, x, y)
    BY <2>1 DEF x, y
  <2>3. Row(root, name, d, x, y)[fields][parts] = IF d > Top THEN NoKey ELSE ResolveParts(x, y, fields, parts)
    BY DEF Row, level
  <2> QED BY <2>2, <2>3 DEF x, y
<1>6. ASSUME NEW d \in 0 .. n, d > Top PROVE Right(d)
  <2>1. \A fields, parts : Answer(fields, NoKey, parts)
    BY DEF Answer, IsKey
  <2> QED BY <1>5, <1>6, <2>1
<1>7. ASSUME NEW d \in 0 .. n, ~(d > Top), Right(d + 1), Right(d + 2) PROVE Right(d)
  <2>1. d \in Nat /\ d + 1 \in 1 .. n /\ d + 2 \in 1 .. n /\ (d + 1) - 1 = d /\ (d + 2) - 1 = d + 1
    <3> HIDE DEF Right
    <3> QED BY <1>2, <1>7
  <2>2. level[d + 1] = Under(level[d]) /\ level[d + 2] = Under(level[d + 1])
    BY <1>3, <2>1
  <2> DEFINE here == level[d]
             one == level[d + 1]
             two == level[d + 2]
             x == answers[d + 1]
             y == answers[d + 2]
  <2>3. one = Under(here) /\ two = Under(one)
    BY <2>2
  <2>4. /\ \A s \in one, t \in Tails(name) : Answer(s, x[s][t], t)
        /\ \A s \in two, t \in Tails(name) : Answer(s, y[s][t], t)
    BY <1>7
  <2> SUFFICES ASSUME NEW fields \in here, NEW parts \in Tails(name)
               PROVE  Answer(fields, answers[d][fields][parts], parts)
    OBVIOUS
  <2>5. answers[d][fields][parts] = ResolveParts(x, y, fields, parts)
    BY <1>5, <1>7
  <2> HIDE DEF here, one, two, x, y
  <2>6. SerializersUnder(fields) \subseteq one /\ \A s \in one : SerializersUnder(s) \subseteq two
    BY <2>3 DEF Under
  <2>7. fields \in W
    BY <1>7, <1>4 DEF here
  <2>8. Answer(fields, ResolveParts(x, y, fields, parts), parts)
    BY <2>4, <2>6, <2>7, PartsResolve
  <2> QED BY <2>5, <2>8
<1> HIDE DEF Right
<1>8. 0 \in S
  <2>1. ASSUME NEW d \in n - 0 .. n PROVE d \in 0 .. n /\ d > Top
    BY <1>2, <2>1
  <2>2. 0 \in 0 .. n
    BY <1>2
  <2> QED BY <1>6, <2>1, <2>2
<1>9. ASSUME NEW m \in 0 .. n - 1, m \in S PROVE m + 1 \in S
  <2>1. \A d \in n - m .. n : Right(d)
    BY <1>9
  <2>2. m + 1 \in 0 .. n
    BY <1>2, <1>9
  <2>3. ASSUME NEW d \in n - (m + 1) .. n PROVE Right(d)
    <3>1. d \in 0 .. n /\ (d \in n - m .. n \/ ~(d \in n - m .. n))
      BY <1>2, <1>9, <2>3
    <3>2. CASE d > Top
      BY <1>6, <3>1, <3>2
    <3>3. CASE d \in n - m .. n
      BY <2>1, <3>3
    <3>4. CASE ~(d > Top) /\ ~(d \in n - m .. n)
      <4>1. d + 1 \in n - m .. n /\ d + 2 \in n - m .. n
        BY <1>2, <1>9, <2>3, <3>1, <3>4
      <4> QED BY <1>7, <2>1, <3>1, <3>4, <4>1
    <3> QED BY <3>1, <3>2, <3>3, <3>4
  <2> QED BY <2>2, <2>3
<1>10. Right(0)
  <2> HIDE DEF S
  <2>1. \A k \in 0 .. n : k \in S
    BY <1>2, <1>8, <1>9, Stepwise
  <2>2. n \in S /\ 0 \in n - n .. n
    BY <1>2, <2>1
  <2> QED BY <2>2 DEF S
<1>11. root \in level[0] /\ name \in Tails(name)
  BY <1>3, TailsAre
<1> QED BY <1>1, <1>10, <1>11 DEF Right

----------------------------------------------------------------------------
(* The serializers a name is searched in.                                  *)

(* The serializers installed, and those of a build, are such trees.        *)
Grown(b, W) ==
  /\ b = [message |-> b.message, profile |-> b.profile, field_cache |-> b.field_cache,
          serializer_map |-> b.serializer_map, fields |-> b.fields, definition |-> b.definition]
  /\ Listing(b.fields)
  /\ \A i \in DOMAIN b.field_cache : Tidy(b.field_cache[i], W)
  /\ \A k \in DOMAIN b.fields : Tidy(b.fields[k], W)
  /\ \A name \in DOMAIN b.serializer_map : b.serializer_map[name] \in W
Holds(table, W) == Trees(W) /\ \A class \in DOMAIN table : table[class] \in W
TreesInv ==
  \E W : Holds(serializers.table, W) /\ (build # NoBuild => Grown(build[1], W))

(* What holds of some serializers holds of more. *)
LEMMA TidyMore ==
  ASSUME NEW W, NEW X, W \subseteq X, NEW field, Tidy(field, W)
  PROVE  Tidy(field, X)
BY DEF Tidy

(* A field that is built brings at most one serializer with it. *)
LEMMA BuiltIsTidy ==
  ASSUME NEW W, Trees(W), NEW profile, NEW proto, NEW map,
         \A name \in DOMAIN map : map[name] \in W
  PROVE  \E X : W \subseteq X /\ Trees(X) /\ Tidy(BuiltField(profile, proto, map), X)
<1> DEFINE m == MetadataOf(profile, proto)
           nested == Nested(proto, map)
           field == BuiltField(profile, proto, map)
<1>1. nested # <<>> => nested[1] \in W
  BY DEF Nested
<1>2. ASSUME NEW serializer, DOMAIN serializer \subseteq Nat,
             \A f \in DOMAIN serializer : Tidy(serializer[f], W)
      PROVE  W \subseteq W \cup {serializer} /\ Trees(W \cup {serializer}) /\ serializer \in W \cup {serializer}
  BY <1>2, TidyMore DEF Trees
<1> HIDE DEF m, nested
<1>3. CASE IsFixedArray(m)
  <2> DEFINE copies == [k \in 1 .. m.length |-> Field(proto, m, nested)]
  <2>1. field = Field(proto, m, <<copies>>)
    BY <1>3 DEF BuiltField, m, nested
  <2>2. ~IsDynamicArray(m)
    BY <1>3 DEF IsFixedArray, IsDynamicArray
  <2>3. DOMAIN copies \subseteq Nat
    <3> SUFFICES ASSUME NEW k \in 1 .. m.length PROVE k \in Nat
      OBVIOUS
    <3> QED OBVIOUS
  <2>4. \A k \in DOMAIN copies : Tidy(copies[k], W)
    BY <1>1, <2>2 DEF Field, Tidy
  <2> HIDE DEF copies
  <2>5. field.metadata = m /\ field.below[1] = copies
    BY <2>1 DEF Field
  <2>6. Tidy(field, W \cup {copies})
    <3> HIDE DEF field
    <3> QED BY <2>2, <2>5 DEF Tidy
  <2> QED BY <1>2, <2>3, <2>4, <2>6
<1>4. CASE ~IsFixedArray(m) /\ IsDynamicArray(m)
  <2> DEFINE inside == IF m.special = "serializers" THEN nested ELSE <<>>
             element == Element(InnerMetadata(m), inside)
             elements == <<element>>
  <2>1. field = Field(proto, m, <<elements>>)
    BY <1>4 DEF BuiltField, m, nested
  <2>2. element.below = inside /\ element.metadata = InnerMetadata(m)
    BY DEF Element
  <2>3. ~IsDynamicArray(InnerMetadata(m))
    <3>1. \A decoder : ~IsDynamicArray(Plain(decoder))
      BY DEF Plain, Metadata, IsDynamicArray
    <3> QED BY <3>1 DEF InnerMetadata
  <2> HIDE DEF element
  <2>4. Tidy(element, W)
    BY <1>1, <2>2, <2>3 DEF Tidy
  <2>5. DOMAIN elements = {1} /\ elements[1] = element
    OBVIOUS
  <2> HIDE DEF elements
  <2>6. field.metadata = m /\ field.below[1] = elements
    BY <2>1 DEF Field
  <2>7. Tidy(field, W \cup {elements})
    <3> HIDE DEF field
    <3> QED BY <2>2, <2>3, <2>5, <2>6 DEF Tidy
  <2>8. DOMAIN elements \subseteq Nat /\ \A f \in DOMAIN elements : Tidy(elements[f], W)
    BY <2>4, <2>5
  <2> QED BY <1>2, <2>7, <2>8
<1>5. CASE ~IsFixedArray(m) /\ ~IsDynamicArray(m)
  <2>1. field = Field(proto, m, nested)
    BY <1>5 DEF BuiltField, m, nested
  <2>2. field.metadata = m /\ field.below = nested
    BY <2>1 DEF Field
  <2> HIDE DEF field
  <2>3. Tidy(field, W)
    BY <1>1, <1>5, <2>2 DEF Tidy
  <2> QED BY <2>3 DEF field
<1> QED BY <1>3, <1>4, <1>5

(* A build grows by a field, and by a definition. *)
LEMMA WithFieldGrows ==
  ASSUME NEW b, NEW W, Trees(W), Grown(b, W)
  PROVE  \E X : W \subseteq X /\ Trees(X) /\ Grown(WithField(b), X)
<1> DEFINE index == NextIndex(b)
           field == IF index \in DOMAIN b.field_cache THEN b.field_cache[index]
                    ELSE BuiltField(b.profile, b.message.fields[index + 1], b.serializer_map)
           fields == Append(b.fields, field)
           cache == Put(b.field_cache, index, field)
           c == WithField(b)
<1>1. PICK X : W \subseteq X /\ Trees(X) /\ Tidy(field, X)
  <2>1. CASE index \in DOMAIN b.field_cache
    <3>1. field = b.field_cache[index] /\ Tidy(b.field_cache[index], W)
      BY <2>1 DEF Grown
    <3> HIDE DEF field, index
    <3> QED BY <3>1
  <2>2. CASE index \notin DOMAIN b.field_cache
    <3> DEFINE proto == b.message.fields[index + 1]
               map == b.serializer_map
    <3>1. field = BuiltField(b.profile, proto, map)
      BY <2>2
    <3>2. \A name \in DOMAIN map : map[name] \in W
      BY DEF Grown
    <3> HIDE DEF field, index, proto, map
    <3>3. \E X : W \subseteq X /\ Trees(X) /\ Tidy(BuiltField(b.profile, proto, map), X)
      BY <3>2, BuiltIsTidy
    <3> QED BY <3>1, <3>3
  <2> QED BY <2>1, <2>2
<1>2. c = [b EXCEPT !.fields = fields, !.field_cache = cache]
  BY DEF WithField
<1> HIDE DEF field, index, c
<1>3. /\ Listing(fields)
      /\ \A k \in DOMAIN fields : (k \in DOMAIN b.fields /\ fields[k] = b.fields[k]) \/ fields[k] = field
  <2>1. Listing(b.fields)
    BY DEF Grown
  <2>2. /\ Listing(fields) /\ Len(fields) = Len(b.fields) + 1 /\ fields[Len(b.fields) + 1] = field
        /\ \A k \in DOMAIN b.fields : fields[k] = b.fields[k]
    BY <2>1, AppendIs
  <2>3. Len(b.fields) \in Nat /\ DOMAIN b.fields = 1 .. Len(b.fields) /\ DOMAIN fields = 1 .. Len(fields)
    BY <2>1, <2>2, ListingIs
  <2> HIDE DEF fields
  <2>4. \A k \in DOMAIN fields : k \in DOMAIN b.fields \/ k = Len(b.fields) + 1
    BY <2>2, <2>3
  <2> QED BY <2>2, <2>4
<1>4. \A i \in DOMAIN cache :
        (i \in DOMAIN b.field_cache /\ cache[i] = b.field_cache[i]) \/ cache[i] = field
  BY DEF Put
<1> HIDE DEF fields, cache
<1>5. /\ c.fields = fields /\ c.field_cache = cache /\ c.serializer_map = b.serializer_map
      /\ c = [message |-> c.message, profile |-> c.profile, field_cache |-> c.field_cache,
              serializer_map |-> c.serializer_map, fields |-> c.fields, definition |-> c.definition]
  <2>1. b = [message |-> b.message, profile |-> b.profile, field_cache |-> b.field_cache,
             serializer_map |-> b.serializer_map, fields |-> b.fields, definition |-> b.definition]
    BY DEF Grown
  <2>2. c = [message |-> b.message, profile |-> b.profile, field_cache |-> cache,
             serializer_map |-> b.serializer_map, fields |-> fields, definition |-> b.definition]
    BY <1>2, <2>1
  <2>3. /\ c.message = b.message /\ c.profile = b.profile /\ c.definition = b.definition
        /\ c.fields = fields /\ c.field_cache = cache /\ c.serializer_map = b.serializer_map
    BY <2>2
  <2> QED BY <2>2, <2>3
<1>6. /\ \A i \in DOMAIN cache : Tidy(cache[i], X)
      /\ \A k \in DOMAIN fields : Tidy(fields[k], X)
      /\ \A name \in DOMAIN b.serializer_map : b.serializer_map[name] \in X
  <2>1. /\ \A i \in DOMAIN b.field_cache : Tidy(b.field_cache[i], X)
        /\ \A k \in DOMAIN b.fields : Tidy(b.fields[k], X)
        /\ \A name \in DOMAIN b.serializer_map : b.serializer_map[name] \in X
    BY <1>1, TidyMore DEF Grown
  <2> QED BY <1>1, <1>3, <1>4, <2>1
<1>7. Grown(c, X)
  BY <1>3, <1>5, <1>6 DEF Grown
<1> QED BY <1>1, <1>7 DEF c

LEMMA FinishedGrows ==
  ASSUME NEW b, NEW W, Trees(W), Grown(b, W)
  PROVE  \E X : W \subseteq X /\ Trees(X) /\ Grown(Finished(b), X)
<1> DEFINE map == Put(b.serializer_map, Current(b).name, b.fields)
           next == b.definition + 1
           c == Finished(b)
           X == W \cup {b.fields}
<1>1. c = [b EXCEPT !.serializer_map = map, !.fields = <<>>, !.definition = next]
  BY DEF Finished
<1>2. \A name \in DOMAIN map : map[name] = b.fields
                               \/ (name \in DOMAIN b.serializer_map /\ map[name] = b.serializer_map[name])
  BY DEF Put
<1> HIDE DEF map, c, next
<1>3. /\ c.fields = <<>> /\ c.field_cache = b.field_cache /\ c.serializer_map = map
      /\ c = [message |-> c.message, profile |-> c.profile, field_cache |-> c.field_cache,
              serializer_map |-> c.serializer_map, fields |-> c.fields, definition |-> c.definition]
  <2>1. b = [message |-> b.message, profile |-> b.profile, field_cache |-> b.field_cache,
             serializer_map |-> b.serializer_map, fields |-> b.fields, definition |-> b.definition]
    BY DEF Grown
  <2>2. c = [message |-> b.message, profile |-> b.profile, field_cache |-> b.field_cache,
             serializer_map |-> map, fields |-> <<>>, definition |-> next]
    BY <1>1, <2>1
  <2>3. /\ c.message = b.message /\ c.profile = b.profile /\ c.definition = next
        /\ c.fields = <<>> /\ c.field_cache = b.field_cache /\ c.serializer_map = map
    BY <2>2
  <2> QED BY <2>2, <2>3
<1>4. Trees(X)
  <2>1. DOMAIN b.fields \subseteq Nat
    <3>1. Listing(b.fields)
      BY DEF Grown
    <3>2. Len(b.fields) \in Nat /\ DOMAIN b.fields = 1 .. Len(b.fields)
      BY <3>1, ListingIs
    <3> QED BY <3>2
  <2>2. \A k \in DOMAIN b.fields : Tidy(b.fields[k], W)
    BY DEF Grown
  <2> QED BY <2>1, <2>2, TidyMore DEF Trees
<1>5. Listing(<<>>)
  BY DEF Listing
<1>6. /\ \A i \in DOMAIN b.field_cache : Tidy(b.field_cache[i], X)
      /\ \A name \in DOMAIN map : map[name] \in X
  BY <1>2, TidyMore DEF Grown
<1>7. \A k \in DOMAIN <<>> : Tidy(<<>>[k], X)
  OBVIOUS
<1>8. \A k \in DOMAIN c.fields : Tidy(c.fields[k], X)
  BY <1>3, <1>7
<1> HIDE DEF X
<1>9. Grown(c, X)
  BY <1>3, <1>5, <1>6, <1>8 DEF Grown
<1>10. W \subseteq X
  BY DEF X
<1> QED BY <1>4, <1>9, <1>10 DEF c

LEMMA TreesInit == SchemaInit => TreesInv
<1> SUFFICES ASSUME SchemaInit PROVE TreesInv
  OBVIOUS
<1>1. serializers.table = <<>> /\ build = NoBuild
  BY DEF SchemaInit, TableInit
<1>2. Trees({})
  BY DEF Trees
<1>3. Holds(serializers.table, {})
  BY <1>1, <1>2 DEF Holds
<1> QED BY <1>1, <1>3 DEF TreesInv

LEMMA TreesStep == TreesInv /\ [SchemaNext]_schema => TreesInv'
<1> SUFFICES ASSUME TreesInv, [SchemaNext]_schema PROVE TreesInv'
  OBVIOUS
<1>1. PICK W : Holds(serializers.table, W) /\ (build # NoBuild => Grown(build[1], W))
  BY DEF TreesInv
<1>2. ASSUME NEW X, W \subseteq X, Trees(X) PROVE Holds(serializers.table, X)
  BY <1>1, <1>2 DEF Holds
<1>3. CASE UNCHANGED <<serializers, build>>
  BY <1>1, <1>3 DEF TreesInv
<1>4. CASE ReceiveSerializers
  <2>1. PICK message \in Messages, profile \in Profiles :
          build' = IF MessageAccepted(message) THEN <<StartBuild(message, profile)>> ELSE NoBuild
    BY <1>4 DEF ReceiveSerializers
  <2> DEFINE b == StartBuild(message, profile)
  <2>2. build' # NoBuild => build'[1] = b
    BY <2>1
  <2>3. /\ b.fields = <<>> /\ b.field_cache = <<>> /\ b.serializer_map = <<>>
        /\ b = [message |-> b.message, profile |-> b.profile, field_cache |-> b.field_cache,
                serializer_map |-> b.serializer_map, fields |-> b.fields, definition |-> b.definition]
    BY DEF StartBuild
  <2> HIDE DEF b
  <2>4. Listing(<<>>) /\ \A V : \A k \in DOMAIN <<>> : Tidy(<<>>[k], V) /\ <<>>[k] \in V
    BY DEF Listing
  <2>5. Grown(b, W)
    BY <2>3, <2>4 DEF Grown
  <2>6. UNCHANGED serializers
    BY <1>4 DEF ReceiveSerializers
  <2> QED BY <1>1, <2>2, <2>5, <2>6 DEF TreesInv
<1>5. CASE BuildField
  <2>1. Grown(build[1], W) /\ Trees(W)
    BY <1>1, <1>5 DEF BuildField, Holds
  <2>2. PICK X : W \subseteq X /\ Trees(X) /\ Grown(WithField(build[1]), X)
    BY <2>1, WithFieldGrows
  <2>3. UNCHANGED serializers /\ (build' # NoBuild => build'[1] = WithField(build[1]))
    BY <1>5 DEF BuildField
  <2>4. Holds(serializers.table, X)
    BY <1>2, <2>2
  <2> QED BY <2>2, <2>3, <2>4 DEF TreesInv
<1>6. CASE FinishDefinition
  <2>1. Grown(build[1], W) /\ Trees(W)
    BY <1>1, <1>6 DEF FinishDefinition, Holds
  <2>2. PICK X : W \subseteq X /\ Trees(X) /\ Grown(Finished(build[1]), X)
    BY <2>1, FinishedGrows
  <2>3. UNCHANGED serializers /\ build' = <<Finished(build[1])>>
    BY <1>6 DEF FinishDefinition, Finished
  <2>4. build'[1] = Finished(build[1])
    BY <2>3
  <2>5. Holds(serializers.table, X)
    BY <1>2, <2>2
  <2> QED BY <2>2, <2>3, <2>4, <2>5 DEF TreesInv
<1>7. CASE InstallSerializers
  <2>1. PICK id : InstallTable(id, Valid(properties, id))
    BY <1>7 DEF InstallSerializers
  <2>2. build' = NoBuild /\ Grown(build[1], W)
    BY <1>1, <2>1 DEF InstallTable
  <2>3. UNCHANGED serializers \/ serializers'.table = build[1].serializer_map
    BY <2>1 DEF InstallTable
  <2>4. Holds(serializers.table, W)'
    <3>1. Holds(build[1].serializer_map, W)
      BY <1>1, <2>2 DEF Holds, Grown
    <3> QED BY <1>1, <2>3, <3>1
  <2> QED BY <2>2, <2>4 DEF TreesInv
<1>8. UNCHANGED <<serializers, build>> \/ ReceiveSerializers \/ BuildField \/ FinishDefinition \/ InstallSerializers
  BY DEF SchemaNext, schema, ParseSerializers, InstallClassInfo, CompileFilter, ProjectProperties,
         WithProperties, HandlePacketEntities, EndPacketEntities
<1> QED BY <1>3, <1>4, <1>5, <1>6, <1>7, <1>8

(* A name of any table that is built from messages finds no other field    *)
(* than one it spells: pieces of it are what spells the fields the path    *)
(* goes through and the numerals of the elements it picks, whatever the    *)
(* limits of a key and however deep and shared the serializers are         *)
(* (Serializer::resolve_field_key).                                        *)
THEOREM NamesFindNoOtherHolds == SchemaSpec => []NamesFindNoOther
<1>1. TreesInv => NamesFindNoOther
  <2> SUFFICES ASSUME TreesInv, NEW class \in DOMAIN serializers.table, NEW name \in Queries,
                      ResolveFieldKey(serializers.table[class], name) # NoKey
               PROVE  LET fields == serializers.table[class]
                          path == Components(ResolveFieldKey(fields, name))
                      IN  LeadsTo(fields, path) /\ Spells(name, fields, path)
    BY DEF NamesFindNoOther
  <2> DEFINE fields == serializers.table[class]
             key == ResolveFieldKey(fields, name)
  <2>1. PICK W : Trees(W) /\ fields \in W
    BY DEF TreesInv, Holds
  <2>2. Listing(name)
    BY QueriesAssumption
  <2>3. Answer(fields, key, name)
    <3> HIDE DEF fields
    <3> QED BY <2>1, <2>2, SearchAnswers
  <2>4. Finds(fields, Components(key), name)
    BY <2>3 DEF Answer
  <2> HIDE DEF fields, key
  <2>5. LeadsTo(fields, Components(key)) /\ Spells(name, fields, Components(key))
    BY <2>4, FindsIs
  <2> QED BY <2>5 DEF fields, key
<1> QED BY <1>1, TreesInit, TreesStep, PTL DEF SchemaSpec

----------------------------------------------------------------------------
(* Selections.                                                             *)

(* One key's components begin another's when their paths agree so far. *)
LEMMA PrefixOfIs ==
  ASSUME NEW q, IsAddress(q), NEW p, IsAddress(p)
  PROVE  IsPrefixOf(Components(Pack(q)), Components(Pack(p))) <=>
           q.last <= p.last /\ \A d \in 0 .. q.last : p.data[d] = q.data[d]
<1> DEFINE s == Components(Pack(q))
           t == Components(Pack(p))
           m == q.last + 1
           n == p.last + 1
<1>1. q.last \in Nat /\ p.last \in Nat
  BY PackIs, TopAssumption DEF Depths
<1>2. /\ s \in Seq(Int) /\ Len(s) = m /\ \A k \in 1 .. m : s[k] = q.data[k - 1]
      /\ t \in Seq(Int) /\ Len(t) = n /\ \A k \in 1 .. n : t[k] = p.data[k - 1]
  BY ComponentsAre
<1> DEFINE b == q.last
           e == p.last
           begin == SubSeq(t, 1, m)
<1>3. IsPrefixOf(s, t) <=> m \in 0 .. n /\ begin = s
  <2> HIDE DEF s, t, m, n
  <2> QED BY <1>2 DEF IsPrefixOf
<1>4. m \in 0 .. n <=> b <= e
  BY <1>1
<1>5. ASSUME b <= e
      PROVE  begin = s <=> \A d \in 0 .. b : p.data[d] = q.data[d]
  <2>1. m \in Nat /\ n \in Nat /\ m <= n
    BY <1>1, <1>5
  <2>2. begin \in Seq(Int) /\ Len(begin) = m /\ \A k \in 1 .. m : begin[k] = t[k]
    <3> HIDE DEF s, t, m, n
    <3> QED BY <1>2, <2>1
  <2>3. \A k \in 1 .. m : begin[k] = p.data[k - 1]
    BY <1>2, <2>1, <2>2
  <2> HIDE DEF begin, s
  <2>4. begin = s <=> \A k \in 1 .. m : begin[k] = s[k]
    <3> HIDE DEF m
    <3> QED BY <1>2, <2>2
  <2>5. (\A k \in 1 .. m : begin[k] = s[k]) <=> \A k \in 1 .. m : p.data[k - 1] = q.data[k - 1]
    BY <1>2, <2>3
  <2>6. ASSUME \A k \in 1 .. m : p.data[k - 1] = q.data[k - 1], NEW d \in 0 .. b
        PROVE  p.data[d] = q.data[d]
    <3>1. d + 1 \in 1 .. m /\ (d + 1) - 1 = d
      BY <1>1
    <3> QED BY <2>6, <3>1
  <2>7. ASSUME \A d \in 0 .. b : p.data[d] = q.data[d], NEW k \in 1 .. m
        PROVE  p.data[k - 1] = q.data[k - 1]
    <3>1. k - 1 \in 0 .. b
      BY <1>1
    <3> QED BY <2>7, <3>1
  <2> QED BY <2>4, <2>5, <2>6, <2>7
<1> QED BY <1>3, <1>4, <1>5

(* Of the paths that lead to a field, the compiled keys and masks let      *)
(* through those that begin with an answer to the search by name.          *)
LEMMA SelectedIs ==
  ASSUME NEW fields, NEW keys, \A key \in keys : IsKey(key) /\ key # NoKey,
         NEW p, IsAddress(p), LeadsTo(fields, Components(Pack(p)))
  PROVE  (\/ Pack(p) \in keys
          \/ \E key \in keys : /\ HasSubtree(fields, key)
                               /\ Pack(p) % Subtree(key).mask = Subtree(key).key
                               /\ KeyDepth(Pack(p)) >= Subtree(key).depth)
         <=> \E key \in keys : IsPrefixOf(Components(key), Components(Pack(p)))
<1> DEFINE path == Components(Pack(p))
           Through(key) == /\ HasSubtree(fields, key)
                           /\ Pack(p) % Subtree(key).mask = Subtree(key).key
                           /\ KeyDepth(Pack(p)) >= Subtree(key).depth
<1>1. Packable(p) /\ p.last \in Depths /\ p.last \in Nat /\ KeyDepth(Pack(p)) = p.last
  <2>1. Packable(p) /\ p.last \in Depths
    BY PackIs
  <2> QED BY <2>1, KeyParts, TopAssumption DEF Depths
<1>2. \A key \in keys : \E q : IsAddress(q) /\ key = Pack(q)
  BY DEF IsKey
<1>3. ASSUME NEW q, IsAddress(q), NEW key, key = Pack(q)
      PROVE  /\ q.last \in Nat
             /\ Through(key) <=> /\ HasSubtree(fields, key)
                                 /\ \A d \in 0 .. q.last : p.data[d] = q.data[d]
                                 /\ q.last <= p.last
  <2>1. Packable(q) /\ KeyDepth(Pack(q)) = q.last /\ q.last \in Nat
    <3>1. Packable(q) /\ q.last \in Depths
      BY <1>3, PackIs
    <3> QED BY <3>1, KeyParts, TopAssumption DEF Depths
  <2>2. Subtree(key).mask = ChildWeight(key) /\ Subtree(key).key = Prefix(key, key) /\ Subtree(key).depth = KeyDepth(key)
    BY DEF Subtree
  <2>3. Pack(p) % Subtree(key).mask = Prefix(Pack(p), Pack(q))
    BY <1>3, <2>2 DEF Prefix
  <2>4. Prefix(Pack(p), Pack(q)) = Prefix(Pack(q), Pack(q)) <=> \A d \in 0 .. q.last : p.data[d] = q.data[d]
    BY <1>1, <2>1, PrefixesAgree
  <2>5. KeyDepth(Pack(p)) >= Subtree(key).depth <=> q.last <= p.last
    BY <1>1, <1>3, <2>1, <2>2
  <2> QED BY <1>3, <2>1, <2>2, <2>3, <2>4, <2>5
<1>4. ASSUME Pack(p) \in keys PROVE \E key \in keys : IsPrefixOf(Components(key), path)
  <2>1. IsPrefixOf(Components(Pack(p)), path)
    BY <1>1, PrefixOfIs
  <2> QED BY <1>4, <2>1
<1>5. ASSUME NEW key \in keys, Through(key) PROVE IsPrefixOf(Components(key), path)
  <2>1. PICK q : IsAddress(q) /\ key = Pack(q)
    BY <1>2
  <2> HIDE DEF Through
  <2>2. q.last <= p.last /\ \A d \in 0 .. q.last : p.data[d] = q.data[d]
    BY <1>3, <1>5, <2>1
  <2> QED BY <2>1, <2>2, PrefixOfIs
<1>6. ASSUME NEW key \in keys, IsPrefixOf(Components(key), path)
      PROVE  Pack(p) \in keys \/ Through(key)
  <2>1. PICK q : IsAddress(q) /\ key = Pack(q)
    BY <1>2
  <2> HIDE DEF Through
  <2>2. q.last <= p.last /\ \A d \in 0 .. q.last : p.data[d] = q.data[d]
    BY <1>6, <2>1, PrefixOfIs
  <2>3. CASE q.last = p.last
    <3>1. Named(p) = Named(q)
      BY <2>1, <2>2, <2>3, NamedIs DEF IsAddress
    <3>2. p = q
      BY <2>1, <3>1, NamedIs DEF IsAddress
    <3> QED BY <2>1, <3>2
  <2>4. CASE q.last # p.last
    <3> DEFINE k == q.last + 1
               begin == SubSeq(path, 1, k)
               at == ResolveFieldPath(fields, begin)
    <3>1. q.last \in Nat /\ Len(Components(key)) = k /\ Len(path) = p.last + 1
      BY <1>3, <2>1, ComponentsAre
    <3>2. k \in 1 .. Len(path) /\ k < Len(path)
      BY <1>1, <2>2, <2>4, <3>1
    <3>3. begin = Components(key)
      BY <1>6, <3>1 DEF IsPrefixOf
    <3> HIDE DEF path, k
    <3>4. at # NoField /\ at[1].below # <<>>
      BY <3>2 DEF LeadsTo, path
    <3>5. at = ResolveFieldPath(fields, Components(key))
      BY <3>3
    <3> HIDE DEF at
    <3>6. HasSubtree(fields, key)
      BY <3>4, <3>5 DEF HasSubtree
    <3> QED BY <1>3, <2>1, <2>2, <3>6
  <2> QED BY <2>3, <2>4
<1> HIDE DEF Through, path
<1>7. (Pack(p) \in keys \/ \E key \in keys : Through(key)) <=> \E key \in keys : IsPrefixOf(Components(key), path)
  BY <1>4, <1>5, <1>6
<1> QED BY <1>7 DEF Through, path

LEMMA AddressesAre == \A p \in Addresses : IsAddress(p)
<1> SUFFICES ASSUME NEW p \in Addresses PROVE p \in Path
  BY DEF Addresses, IsAddress
<1>1. /\ p = [data |-> p.data, last |-> p.last] /\ p.last \in Depths
      /\ p.data \in [Depths -> UNION {Component(d) : d \in Depths}]
  BY DEF Addresses
<1>2. UNION {Component(d) : d \in Depths} \subseteq Int
  BY DEF Component
<1>3. p.data \in [Depths -> Int]
  BY <1>1, <1>2
<1> QED BY <1>1, <1>3 DEF Path

(* A class of a filter that was compiled against a table. *)
LEMMA ClassSelects ==
  ASSUME NEW table, NEW class \in DOMAIN table, NEW W, Trees(W), table[class] \in W,
         NEW names, \A name \in names : Listing(name),
         NEW field, NEW p, IsAddress(p), LeadsTo(table[class], Components(Pack(p)))
  PROVE  Retains(ClassProperties(table, class, names), Pack(p), field) <=>
           \/ IsPointer(field.metadata)
           \/ IsDynamicArray(field.metadata)
           \/ \E key \in {ResolveFieldKey(table[class], name) : name \in names} \ {NoKey} :
                IsPrefixOf(Components(key), Components(Pack(p)))
<1> DEFINE fields == table[class]
           keys == {ResolveFieldKey(fields, name) : name \in names} \ {NoKey}
           selected == ClassProperties(table, class, names)
           subtrees == {Subtree(key) : key \in {k \in keys : HasSubtree(fields, k)}}
           Through(subtree) == /\ Pack(p) % subtree.mask = subtree.key
                               /\ KeyDepth(Pack(p)) >= subtree.depth
<1>1. \A key \in keys : IsKey(key) /\ key # NoKey
  BY SearchAnswers DEF Answer
<1>2. selected.keys = keys /\ selected.subtrees = subtrees
  BY DEF ClassProperties
<1> HIDE DEF keys, selected, subtrees
<1>3. Retains(selected, Pack(p), field) <=>
        \/ Pack(p) \in keys
        \/ IsPointer(field.metadata)
        \/ IsDynamicArray(field.metadata)
        \/ \E subtree \in subtrees : Through(subtree)
  BY <1>2 DEF Retains
<1>4. (\E subtree \in subtrees : Through(subtree)) <=>
        \E key \in keys : HasSubtree(fields, key) /\ Through(Subtree(key))
  <2> HIDE DEF Through, fields
  <2> QED BY DEF subtrees
<1>5. (Pack(p) \in keys \/ \E key \in keys : HasSubtree(fields, key) /\ Through(Subtree(key))) <=>
        \E key \in keys : IsPrefixOf(Components(key), Components(Pack(p)))
  BY <1>1, SelectedIs
<1> HIDE DEF Through
<1>6. Retains(selected, Pack(p), field) <=>
        \/ IsPointer(field.metadata)
        \/ IsDynamicArray(field.metadata)
        \/ \E key \in keys : IsPrefixOf(Components(key), Components(Pack(p)))
  BY <1>3, <1>4, <1>5
<1> QED BY <1>6 DEF selected, keys, fields

(* What a filter keeps is what it was asked for: compiled from requests of *)
(* a caller, against the serializers installed if it has their identity.   *)
Made(f) ==
  f # NoFilter =>
    /\ f[1].requests \in RequestLists
    /\ f[1].compiled.schema = serializers.schema_id =>
         f[1].compiled = Compiled(serializers, f[1].requests)
FiltersInv ==
  /\ Made(filter)
  /\ Made(properties)
  /\ decoding => build = NoBuild /\ Valid(properties, serializers.schema_id)

LEMMA FiltersSelect == TreesInv /\ FiltersInv => SelectionsAreSubtrees
<1> SUFFICES ASSUME TreesInv, FiltersInv, decoding, properties # NoFilter,
                    NEW class \in DOMAIN serializers.table,
                    NEW p \in Addresses,
                    LeadsTo(serializers.table[class], Components(Pack(p)))
             PROVE  LET fields == serializers.table[class]
                        requests == properties[1].requests
                        asked == {ResolveFieldKey(fields, name) : name \in NamesOf(requests, class)} \ {NoKey}
                        listed == \E r \in DOMAIN requests : requests[r].class = class
                        path == Components(Pack(p))
                        field == ResolveFieldPath(fields, path)[1]
                    IN  Keeps(properties[1].compiled, class, Pack(p), field) <=>
                          \/ ~listed
                          \/ IsPointer(field.metadata)
                          \/ IsDynamicArray(field.metadata)
                          \/ \E key \in asked : IsPrefixOf(Components(key), path)
  BY DEF SelectionsAreSubtrees
<1> DEFINE fields == serializers.table[class]
           requests == properties[1].requests
           names == NamesOf(requests, class)
           asked == {ResolveFieldKey(fields, name) : name \in names} \ {NoKey}
           listed == \E r \in DOMAIN requests : requests[r].class = class
           path == Components(Pack(p))
           field == ResolveFieldPath(fields, path)[1]
           compiled == Compiled(serializers, requests)
           wanted == \/ IsPointer(field.metadata)
                     \/ IsDynamicArray(field.metadata)
                     \/ \E key \in asked : IsPrefixOf(Components(key), path)
<1>1. requests \in RequestLists /\ properties[1].compiled = compiled
  BY DEF FiltersInv, Made, Valid
<1>2. \A name \in names : Listing(name)
  BY <1>1, RequestsAssumption DEF NamesOf
<1>3. Retains(ClassProperties(serializers.table, class, names), Pack(p), field) <=> wanted
  <2>1. PICK W : Holds(serializers.table, W)
    BY DEF TreesInv
  <2>2. Trees(W) /\ fields \in W
    BY <2>1 DEF Holds
  <2> HIDE DEF names, field
  <2> QED BY <1>2, <2>2, AddressesAre, ClassSelects
<1>4. /\ class \in DOMAIN compiled.classes <=> listed
      /\ listed => compiled.classes[class] = ClassProperties(serializers.table, class, names)
  <2>1. compiled.classes = [c \in {requests[r].class : r \in DOMAIN requests} |->
                              ClassProperties(serializers.table, c, NamesOf(requests, c))]
    BY DEF Compiled
  <2> HIDE DEF compiled, requests
  <2> QED BY <2>1
<1> HIDE DEF compiled, wanted, field, names, listed
<1>5. Keeps(compiled, class, Pack(p), field) <=> ~listed \/ wanted
  BY <1>3, <1>4 DEF Keeps
<1> QED BY <1>1, <1>5 DEF listed, wanted, field, names

LEMMA FiltersInit == SchemaInit => FiltersInv
BY DEF SchemaInit, FiltersInv, Made, NoFilter

LEMMA FiltersStep == FiltersInv /\ [SchemaNext]_schema => FiltersInv'
<1> SUFFICES ASSUME FiltersInv, [SchemaNext]_schema PROVE FiltersInv'
  OBVIOUS
<1>1. ASSUME UNCHANGED <<serializers, filter, properties>>
      PROVE  Made(filter)' /\ Made(properties)'
  BY <1>1 DEF FiltersInv, Made
<1>2. CASE ParseSerializers
  <2>1. UNCHANGED serializers
    BY <1>2 DEF ParseSerializers, ReceiveSerializers, BuildField, FinishDefinition
  <2>2. UNCHANGED <<filter, properties>> /\ ~decoding'
    BY <1>2 DEF ParseSerializers
  <2> QED BY <1>1, <2>1, <2>2 DEF FiltersInv
<1>3. CASE InstallSerializers
  <2>1. PICK id \in Identities \ Held : InstallTable(id, Valid(properties, id))
    BY <1>3 DEF InstallSerializers
  <2>2. UNCHANGED <<filter, properties, decoding>>
    BY <1>3 DEF InstallSerializers
  <2>3. ~decoding
    BY <2>1 DEF InstallTable, FiltersInv
  <2>4. CASE UNCHANGED serializers
    BY <1>1, <2>2, <2>3, <2>4 DEF FiltersInv
  <2>5. CASE serializers'.schema_id = id
    <3>1. ASSUME NEW f \in {filter, properties} PROVE f # NoFilter => f[1].compiled.schema # id
      BY <2>1 DEF Held
    <3>2. (filter # NoFilter => filter[1].requests \in RequestLists)
          /\ (properties # NoFilter => properties[1].requests \in RequestLists)
      BY DEF FiltersInv, Made
    <3>3. Made(filter)' /\ Made(properties)'
      BY <2>2, <2>5, <3>1, <3>2 DEF Made
    <3> QED BY <2>2, <2>3, <3>3 DEF FiltersInv
  <2>6. serializers'.schema_id = id \/ UNCHANGED serializers
    BY <2>1 DEF InstallTable
  <2> QED BY <2>4, <2>5, <2>6
<1>4. CASE InstallClassInfo
  <2>1. UNCHANGED <<serializers, filter, properties, build, decoding>> /\ ~decoding
    BY <1>4 DEF InstallClassInfo, Idle
  <2> QED BY <1>1, <2>1 DEF FiltersInv
<1>5. CASE CompileFilter
  <2>1. PICK requests \in RequestLists :
          filter' = <<[requests |-> requests, compiled |-> Compiled(serializers, requests)]>>
    BY <1>5 DEF CompileFilter
  <2>2. UNCHANGED <<serializers, properties, decoding>> /\ ~decoding
    BY <1>5 DEF CompileFilter, Idle
  <2>3. filter'[1].requests = requests /\ filter'[1].compiled = Compiled(serializers, requests)
    BY <2>1
  <2>4. Made(filter)'
    BY <2>2, <2>3 DEF Made
  <2>5. Made(properties)'
    BY <2>2 DEF FiltersInv, Made
  <2> QED BY <2>2, <2>4, <2>5 DEF FiltersInv
<1>6. CASE ProjectProperties \/ WithProperties
  <2>1. UNCHANGED <<serializers, filter, decoding>> /\ ~decoding /\ properties' \in {filter, properties}
    BY <1>6 DEF ProjectProperties, WithProperties, Idle
  <2>2. Made(filter)' /\ Made(properties)'
    BY <2>1 DEF FiltersInv, Made
  <2> QED BY <2>1, <2>2 DEF FiltersInv
<1>7. CASE HandlePacketEntities
  <2>1. /\ UNCHANGED <<serializers, filter, properties, build>> /\ build = NoBuild
        /\ decoding' = Valid(properties, serializers.schema_id)
    BY <1>7 DEF HandlePacketEntities, Idle
  <2>2. decoding' => (build = NoBuild /\ Valid(properties, serializers.schema_id))'
    BY <2>1 DEF Valid
  <2> QED BY <1>1, <2>1, <2>2 DEF FiltersInv
<1>8. CASE EndPacketEntities
  <2>1. UNCHANGED <<serializers, filter, properties>> /\ ~decoding'
    BY <1>8 DEF EndPacketEntities
  <2> QED BY <1>1, <2>1 DEF FiltersInv
<1>9. CASE UNCHANGED schema
  BY <1>9 DEF schema, FiltersInv, Made, Valid
<1> QED BY <1>2, <1>3, <1>4, <1>5, <1>6, <1>7, <1>8, <1>9 DEF SchemaNext

(* While entities are decoded under a filter, of every path that leads to  *)
(* a field the masked keys of the filter let through the ones asked for    *)
(* with all that is below them, pointers and arrays, and nothing else:     *)
(* for every table, whatever the limits of a key, and however tables and   *)
(* filters were installed, replaced and handed over before.                *)
THEOREM SelectionsAreSubtreesHolds == SchemaSpec => []SelectionsAreSubtrees
<1>1. SchemaInit => FiltersInv
  BY FiltersInit
<1>2. FiltersInv /\ [SchemaNext]_schema => FiltersInv'
  BY FiltersStep
<1>3. TreesInv /\ FiltersInv => SelectionsAreSubtrees
  BY FiltersSelect
<1> QED BY <1>1, <1>2, <1>3, TreesInit, TreesStep, PTL DEF SchemaSpec
=============================================================================
