-------------------------- MODULE BitReaderProofs ---------------------------
(***************************************************************************)
(* Proofs about BitReader, for every width of bytes and words: the digits  *)
(* of a number make the number again, and what a read gives is the bits    *)
(* from the cursor on.                                                     *)
(*                                                                         *)
(* The argument: the buffer is a sequence of bits (BitAt), without end for *)
(* there are zeros behind it.  What n of them say (Value) splits anywhere  *)
(* (ValueSplits), so dividing by a power of two drops the first of them    *)
(* and a remainder keeps them (ValueDivides).  A byte is the value of its  *)
(* bits (BytesAreBits) and so is a row of bytes (ValuesGroup); every read  *)
(* cuts a value out of such a row.                                         *)
(***************************************************************************)
EXTENDS BitReader, FiniteSetTheorems, WellFoundedInduction, TLAPS

----------------------------------------------------------------------------
(* Numbers.                                                                *)

(* A set of numbers that is not empty has a least element: among the       *)
(* intervals that end in it, one contains no smaller one.                  *)
LEMMA LeastElement ==
  ASSUME NEW S, S \subseteq Nat, S # {}
  PROVE  \E least \in S : \A k \in S : least <= k
<1> DEFINE Upto == {0 .. k : k \in S}
<1>1. Upto \subseteq FiniteSubsetsOf(Nat) /\ Upto # {}
  <2>1. ASSUME NEW k \in S PROVE 0 .. k \in FiniteSubsetsOf(Nat)
    BY FS_Interval DEF FiniteSubsetsOf
  <2> QED BY <2>1
<1>2. PICK small \in Upto :
        \A other \in Upto : ~(<<other, small>> \in StrictSubsetOrdering(Nat))
  BY <1>1, FS_StrictSubsetOrderingWellFounded, WFMin
<1>3. PICK least \in S : small = 0 .. least
  OBVIOUS
<1>4. ASSUME NEW k \in S PROVE least <= k
  <2> SUFFICES ASSUME k < least PROVE FALSE
    OBVIOUS
  <2>1. 0 .. k \in Upto /\ 0 .. k \subseteq 0 .. least /\ 0 .. k # 0 .. least
    OBVIOUS
  <2> HIDE DEF Upto
  <2>2. <<0 .. k, small>> \in StrictSubsetOrdering(Nat)
    BY <1>3, <2>1 DEF StrictSubsetOrdering
  <2> QED BY <1>2, <2>1, <2>2
<1> QED BY <1>4

LEMMA MinIsLeast ==
  ASSUME NEW S, S \subseteq Nat, S # {}
  PROVE  Min(S) \in S /\ \A k \in S : Min(S) <= k
BY LeastElement DEF Min

(* What holds at 0 and goes from each number to the next. *)
LEMMA Stepwise ==
  ASSUME NEW n \in Nat, NEW S, 0 \in S, \A k \in 0 .. n - 1 : k \in S => k + 1 \in S
  PROVE  \A k \in 0 .. n : k \in S
<1> DEFINE T == {k \in 0 .. n : k \notin S}
<1> SUFFICES ASSUME T # {} PROVE FALSE
  OBVIOUS
<1>1. T \subseteq Nat
  OBVIOUS
<1>2. PICK least \in T : \A k \in T : least <= k
  <2> HIDE DEF T
  <2> QED BY <1>1, LeastElement
<1>3. least \in 0 .. n /\ least \notin S /\ least # 0
  OBVIOUS
<1>4. least - 1 \in 0 .. n - 1 /\ (least - 1) + 1 = least /\ least - 1 \in 0 .. n /\ ~(least <= least - 1)
  BY <1>3
<1>5. least - 1 \in S
  BY <1>2, <1>4
<1> QED BY <1>3, <1>4, <1>5

(* f is what a recursion over 0 .. n defines, from its start and its steps. *)
Recurses(f, n, V, start, step) ==
  /\ f \in [0 .. n -> V]
  /\ f[0] = start
  /\ \A k \in 1 .. n : f[k] = step[k][f[k - 1]]

(* A recursion over an interval defines a function. *)
LEMMA Recursion ==
  ASSUME NEW n \in Nat, NEW V, NEW start \in V, NEW step \in [1 .. n -> [V -> V]]
  PROVE  \E f : Recurses(f, n, V, start, step)
<1> DEFINE Upto(m, f) == f[0] = start /\ \A k \in 1 .. m : f[k] = step[k][f[k - 1]]
           S == {m \in 0 .. n : \E f \in [0 .. m -> V] : Upto(m, f)}
<1>1. 0 \in S
  <2> DEFINE f == [k \in 0 .. 0 |-> start]
  <2>1. f \in [0 .. 0 -> V] /\ Upto(0, f)
    OBVIOUS
  <2>2. 0 \in 0 .. n
    OBVIOUS
  <2> QED BY <2>1, <2>2
<1>2. ASSUME NEW m \in 0 .. n - 1, m \in S PROVE m + 1 \in S
  <2>1. PICK f \in [0 .. m -> V] : Upto(m, f)
    BY <1>2
  <2> DEFINE g == [k \in 0 .. m + 1 |-> IF k <= m THEN f[k] ELSE step[m + 1][f[m]]]
  <2>2. m + 1 \in 0 .. n /\ m + 1 \in 1 .. n /\ m \in 0 .. m /\ m \in Nat
    OBVIOUS
  <2>3. step[m + 1][f[m]] \in V
    BY <2>2
  <2>4. g \in [0 .. m + 1 -> V]
    BY <2>2, <2>3
  <2>5. ASSUME NEW k \in 1 .. m + 1
        PROVE  g[k] = step[k][g[k - 1]]
    <3>1. CASE k <= m
      <4>1. g[k] = f[k] /\ k \in 1 .. m
        BY <2>2, <3>1
      <4>2. k - 1 \in 0 .. m + 1 /\ k - 1 <= m
        BY <2>2, <3>1
      <4>3. g[k - 1] = f[k - 1]
        BY <4>2
      <4>4. f[k] = step[k][f[k - 1]]
        BY <2>1, <4>1
      <4> QED BY <4>1, <4>3, <4>4
    <3>2. CASE ~(k <= m)
      <4>1. k = m + 1 /\ k - 1 = m /\ m \in 0 .. m + 1
        BY <2>2, <3>2
      <4>2. g[k] = step[m + 1][f[m]] /\ g[m] = f[m]
        BY <2>2, <3>2, <4>1
      <4> QED BY <4>1, <4>2
    <3> QED BY <3>1, <3>2
  <2>6. g[0] = start
    BY <2>1, <2>2
  <2> HIDE DEF g
  <2>7. Upto(m + 1, g)
    BY <2>5, <2>6
  <2> QED BY <2>2, <2>4, <2>7
<1>3. n \in S
  <2> HIDE DEF S
  <2>1. \A k \in 0 .. n : k \in S
    BY <1>1, <1>2, Stepwise
  <2> QED BY <2>1
<1>4. PICK f \in [0 .. n -> V] : Upto(n, f)
  BY <1>3
<1>5. Recurses(f, n, V, start, step)
  BY <1>4 DEF Recurses
<1> QED BY <1>5

(* Dividing what was put together from a quotient and a remainder. *)
LEMMA RemainderAndQuotient ==
  ASSUME NEW h \in Nat \ {0}, NEW q \in Nat, NEW r \in 0 .. h - 1
  PROVE  (h * q + r) % h = r /\ (h * q + r) \div h = q
<1> DEFINE x == h * q + r
           s == x % h
           t == x \div h
<1>1. x \in Int
  BY SMTT(20)
<1>2. x = h * t + s /\ t \in Int /\ s \in 0 .. h - 1
  BY <1>1, SMTT(20)
<1>3. h * (q - t) = h * q - h * t /\ h * q \in Int /\ h * t \in Int
  BY <1>2, SMTT(20)
<1> HIDE DEF s, t
<1>4. h * (q - t) < h /\ -h < h * (q - t)
  BY <1>2, <1>3
<1>5. q - t = 0
  <2>1. ASSUME NEW c \in Int, h * c < h, -h < h * c PROVE c = 0
    <3>1. CASE c >= 1
      <4>1. h * c >= h * 1
        BY <3>1, SMTT(20)
      <4> QED BY <2>1, <4>1
    <3>2. CASE c <= -1
      <4>1. h * c <= h * (-1) /\ h * (-1) = -h
        BY <3>2, SMTT(20)
      <4> QED BY <2>1, <4>1
    <3> QED BY <3>1, <3>2
  <2> QED BY <1>2, <1>4, <2>1
<1>6. t = q /\ s = r
  BY <1>1, <1>2, <1>3, <1>5
<1> QED BY <1>6 DEF s, t

(* A product of natural numbers is one. *)
LEMMA ProductIn == ASSUME NEW a \in Nat, NEW b \in Nat PROVE a * b \in Nat
  OBVIOUS
----------------------------------------------------------------------------
(* Digits.                                                                 *)

LEMMA ProductOrder ==
  ASSUME NEW a \in Int, NEW b \in Int, NEW c \in Nat, a <= b
  PROVE  a * c <= b * c
  OBVIOUS

(* A recursion that divides: what is left after each digit. *)
LEMMA QuotientsAre ==
  ASSUME NEW n \in Nat, NEW base \in Nat \ {0}, NEW count \in Nat
  PROVE  /\ Quotients(n, base, count) \in [0 .. count -> Nat]
         /\ Quotients(n, base, count)[0] = n
         /\ \A k \in 1 .. count :
              Quotients(n, base, count)[k] = Quotients(n, base, count)[k - 1] \div base
<1> DEFINE step == [k \in 1 .. count |-> [v \in Nat |-> v \div base]]
           R(g) == g = [k \in 0 .. count |-> IF k = 0 THEN n ELSE g[k - 1] \div base]
           rest == Quotients(n, base, count)
<1>1. step \in [1 .. count -> [Nat -> Nat]]
  <2>1. ASSUME NEW v \in Nat PROVE v \div base \in Nat
    BY SMTT(20)
  <2> QED BY <2>1
<1>2. PICK f : Recurses(f, count, Nat, n, step)
  <2> HIDE DEF step
  <2> QED BY <1>1, Recursion
<1>3. f \in [0 .. count -> Nat] /\ f[0] = n
  BY <1>2 DEF Recurses
<1>4. ASSUME NEW k \in 0 .. count, k # 0 PROVE f[k] = f[k - 1] \div base
  <2>1. k \in 1 .. count /\ k - 1 \in 0 .. count
    BY <1>4
  <2>2. f[k - 1] \in Nat
    BY <1>3, <2>1
  <2>3. step[k][f[k - 1]] = f[k - 1] \div base
    BY <2>1, <2>2
  <2> HIDE DEF step
  <2> QED BY <1>2, <2>1, <2>3 DEF Recurses
<1>5. R(f)
  <2> HIDE DEF step
  <2> QED BY <1>3, <1>4
<1>6. rest = CHOOSE g : R(g)
  BY DEF Quotients
<1>7. R(rest)
  <2> HIDE DEF R, rest
  <2> QED BY <1>5, <1>6
<1> HIDE DEF step, rest
<1>8. DOMAIN rest = 0 .. count /\ rest[0] = n
  BY <1>7
<1>9. ASSUME NEW k \in 1 .. count PROVE rest[k] = rest[k - 1] \div base
  BY <1>7
<1> DEFINE S == {k \in 0 .. count : rest[k] \in Nat}
<1>10. \A k \in 0 .. count : k \in S
  <2>1. 0 \in S
    BY <1>8
  <2>2. ASSUME NEW k \in 0 .. count - 1, k \in S PROVE k + 1 \in S
    <3>1. k + 1 \in 1 .. count /\ (k + 1) - 1 = k
      OBVIOUS
    <3>2. rest[k + 1] = rest[k] \div base
      BY <1>9, <3>1
    <3>3. rest[k] \div base \in Nat
      BY <2>2, SMTT(20)
    <3> QED BY <3>1, <3>2, <3>3
  <2> HIDE DEF S
  <2> QED BY <2>1, <2>2, Stepwise
<1>11. rest \in [0 .. count -> Nat]
  BY <1>7, <1>10
<1> QED BY <1>8, <1>9, <1>11 DEF rest

(* Each digit is what r loses at a step, until nothing is left.            *)
Unwinds(r, digits, base) ==
  /\ Len(digits) \in Nat /\ base \in Nat
  /\ r \in [0 .. Len(digits) -> Nat]
  /\ r[Len(digits)] = 0
  /\ \A k \in 1 .. Len(digits) : digits[k] \in Nat /\ r[k - 1] = digits[k] + base * r[k]

(* Such digits make the number r begins with. *)
LEMMA ComposedIs ==
  ASSUME NEW digits, NEW base, NEW r, Unwinds(r, digits, base)
  PROVE  Composed(digits, base) = r[0]
<1> DEFINE m == Len(digits)
           R(g) == g = [k \in 0 .. m |-> IF k = 0 THEN 0
                                         ELSE digits[m + 1 - k] + base * g[k - 1]]
           f == [k \in 0 .. m |-> r[m - k]]
           upper == CHOOSE g : R(g)
<1>0. /\ m \in Nat /\ base \in Nat /\ r \in [0 .. m -> Nat] /\ r[m] = 0
      /\ \A k \in 1 .. m : digits[k] \in Nat /\ r[k - 1] = digits[k] + base * r[k]
  BY DEF Unwinds
<1>1. R(f)
  <2>1. ASSUME NEW k \in 0 .. m
        PROVE  f[k] = IF k = 0 THEN 0 ELSE digits[m + 1 - k] + base * f[k - 1]
    <3>1. CASE k = 0
      BY <1>0, <3>1
    <3>2. CASE k # 0
      <4>1. m + 1 - k \in 1 .. m /\ (m + 1 - k) - 1 = m - k /\ k - 1 \in 0 .. m /\ m - (k - 1) = m + 1 - k
        BY <1>0, <3>2
      <4>2. f[k] = r[m - k] /\ f[k - 1] = r[m + 1 - k]
        BY <4>1
      <4>3. r[(m + 1 - k) - 1] = digits[m + 1 - k] + base * r[m + 1 - k]
        BY <1>0, <4>1
      <4> QED BY <3>2, <4>1, <4>2, <4>3
    <3> QED BY <3>1, <3>2
  <2> DEFINE value == [k \in 0 .. m |-> IF k = 0 THEN 0
                                        ELSE digits[m + 1 - k] + base * f[k - 1]]
  <2>2. \A k \in 0 .. m : f[k] = value[k]
    BY <2>1
  <2>3. f = [k \in 0 .. m |-> f[k]] /\ value = [k \in 0 .. m |-> value[k]]
    OBVIOUS
  <2>4. f = value
    <3> HIDE DEF f, value
    <3>1. [k \in 0 .. m |-> f[k]] = [k \in 0 .. m |-> value[k]]
      BY <2>2
    <3> QED BY <2>3, <3>1
  <2> QED BY <2>4
<1>2. R(upper)
  <2> HIDE DEF R, f
  <2> QED BY <1>1
<1>3. Composed(digits, base) = upper[m]
  BY DEF Composed
<1> HIDE DEF upper, m
<1>4. upper[0] = 0 /\ \A k \in 1 .. m : upper[k] = digits[m + 1 - k] + base * upper[k - 1]
  <2>1. ASSUME NEW k \in 1 .. m PROVE upper[k] = digits[m + 1 - k] + base * upper[k - 1]
    <3>1. k \in 0 .. m /\ k # 0
      BY <1>0
    <3> QED BY <1>2, <3>1, Zenon
  <2>2. 0 \in 0 .. m
    BY <1>0
  <2> QED BY <1>2, <2>1, <2>2, Zenon
<1> HIDE DEF f, R
<1> DEFINE S == {k \in 0 .. m : upper[k] = r[m - k]}
<1>5. 0 \in S
  BY <1>0, <1>4
<1>6. ASSUME NEW k \in 0 .. m - 1, k \in S PROVE k + 1 \in S
  <2>1. k + 1 \in 1 .. m /\ (k + 1) - 1 = k /\ m + 1 - (k + 1) = m - k /\ m - k \in 1 .. m
        /\ (m - k) - 1 = m - (k + 1)
    BY <1>0
  <2>2. upper[k + 1] = digits[m - k] + base * upper[k]
    BY <1>4, <2>1
  <2>3. upper[k] = r[m - k]
    BY <1>6
  <2>4. r[(m - k) - 1] = digits[m - k] + base * r[m - k]
    BY <1>0, <2>1
  <2> QED BY <2>1, <2>2, <2>3, <2>4
<1>7. \A k \in 0 .. m : k \in S
  <2> HIDE DEF S
  <2> QED BY <1>0, <1>5, <1>6, Stepwise
<1>8. upper[m] = r[m - m]
  BY <1>0, <1>7
<1> QED BY <1>0, <1>3, <1>8 DEF m

(* All digits are such digits of some number. *)
LEMMA UnwindingExists ==
  ASSUME NEW digits, Len(digits) \in Nat, \A k \in 1 .. Len(digits) : digits[k] \in Nat,
         NEW base \in Nat
  PROVE  \E r : Unwinds(r, digits, base)
<1> DEFINE m == Len(digits)
           start == 0
           step == [k \in 1 .. m |-> [v \in Nat |-> digits[m + 1 - k] + base * v]]
<1>1. step \in [1 .. m -> [Nat -> Nat]] /\ start \in Nat
  <2>1. ASSUME NEW k \in 1 .. m, NEW v \in Nat PROVE digits[m + 1 - k] + base * v \in Nat
    <3>1. m + 1 - k \in 1 .. m
      OBVIOUS
    <3>2. digits[m + 1 - k] \in Nat /\ base * v \in Nat
      BY <3>1, ProductIn
    <3> QED BY <3>2
  <2> QED BY <2>1
<1>2. PICK f : Recurses(f, m, Nat, start, step)
  <2> HIDE DEF step, start
  <2> QED BY <1>1, Recursion
<1>3. f \in [0 .. m -> Nat] /\ f[0] = 0
  BY <1>2 DEF Recurses
<1>4. ASSUME NEW k \in 1 .. m PROVE f[k] = digits[m + 1 - k] + base * f[k - 1]
  <2>1. k - 1 \in 0 .. m
    BY <1>4
  <2>2. f[k - 1] \in Nat
    BY <1>3, <2>1
  <2>3. step[k][f[k - 1]] = digits[m + 1 - k] + base * f[k - 1]
    BY <2>2
  <2> HIDE DEF step
  <2> QED BY <1>2, <2>3 DEF Recurses
<1> DEFINE r == [k \in 0 .. m |-> f[m - k]]
<1>5. r \in [0 .. m -> Nat] /\ r[m] = 0
  BY <1>3
<1>6. ASSUME NEW k \in 1 .. m PROVE r[k - 1] = digits[k] + base * r[k]
  <2>1. m + 1 - k \in 1 .. m /\ (m + 1 - k) - 1 = m - k /\ m + 1 - (m + 1 - k) = k
        /\ k - 1 \in 0 .. m /\ m - (k - 1) = m + 1 - k
    OBVIOUS
  <2>2. f[m + 1 - k] = digits[m + 1 - (m + 1 - k)] + base * f[(m + 1 - k) - 1]
    BY <1>4, <2>1
  <2>3. r[k - 1] = f[m + 1 - k] /\ r[k] = f[m - k]
    BY <2>1
  <2> QED BY <2>1, <2>2, <2>3
<1> HIDE DEF r
<1>7. Unwinds(r, digits, base)
  BY <1>5, <1>6 DEF Unwinds
<1> QED BY <1>7

LEMMA ComposedTyped ==
  ASSUME NEW digits, Len(digits) \in Nat, \A k \in 1 .. Len(digits) : digits[k] \in Nat,
         NEW base \in Nat
  PROVE  Composed(digits, base) \in Nat
<1>1. PICK r : Unwinds(r, digits, base)
  BY UnwindingExists
<1>2. r[0] \in Nat
  BY <1>1 DEF Unwinds
<1> QED BY <1>1, <1>2, ComposedIs

(* A number is its remainder and its quotient. *)
LEMMA DivisionIs ==
  ASSUME NEW n \in Nat, NEW base \in Nat \ {0}
  PROVE  /\ n \div base \in Nat /\ n % base \in 0 .. base - 1
         /\ n = (n % base) + base * (n \div base)
<1>1. n \div base \in Nat /\ n % base \in 0 .. base - 1
  BY SMTT(20)
<1>2. n = (n % base) + base * (n \div base)
  BY SMTT(20)
<1> QED BY <1>1, <1>2

(* The digits of a number, up to where nothing is left, make the number. *)
LEMMA DigitsMake ==
  ASSUME NEW n \in Nat, NEW base \in Nat \ {0}, NEW count \in Nat, NEW m \in 0 .. count,
         Quotients(n, base, count)[m] = 0,
         NEW digits, Len(digits) = m,
         \A k \in 1 .. m : digits[k] = Quotients(n, base, count)[k - 1] % base
  PROVE  Composed(digits, base) = n
<1> DEFINE rest == Quotients(n, base, count)
           r == [k \in 0 .. m |-> rest[k]]
<1>1. rest \in [0 .. count -> Nat] /\ rest[0] = n /\ \A k \in 1 .. count : rest[k] = rest[k - 1] \div base
  <2>1. rest \in [0 .. count -> Nat]
    BY QuotientsAre
  <2>2. rest[0] = n
    BY QuotientsAre
  <2>3. \A k \in 1 .. count : rest[k] = rest[k - 1] \div base
    BY QuotientsAre
  <2> QED BY <2>1, <2>2, <2>3
<1> HIDE DEF rest
<1>2. r \in [0 .. m -> Nat] /\ r[m] = 0 /\ r[0] = n
  BY <1>1 DEF rest
<1>3. ASSUME NEW k \in 1 .. m PROVE digits[k] \in Nat /\ r[k - 1] = digits[k] + base * r[k]
  <2>1. k \in 1 .. count /\ k - 1 \in 0 .. count /\ k - 1 \in 0 .. m /\ k \in 0 .. m
    OBVIOUS
  <2>2. rest[k - 1] \in Nat /\ rest[k] = rest[k - 1] \div base
    BY <1>1, <2>1
  <2>3. digits[k] = rest[k - 1] % base
    BY DEF rest
  <2>4. digits[k] \in Nat /\ rest[k - 1] = digits[k] + base * rest[k]
    <3>1. /\ rest[k - 1] % base \in 0 .. base - 1
          /\ rest[k - 1] = (rest[k - 1] % base) + base * (rest[k - 1] \div base)
      BY <2>2, DivisionIs
    <3> QED BY <2>2, <2>3, <3>1
  <2> QED BY <2>1, <2>4
<1>4. Unwinds(r, digits, base)
  <2> HIDE DEF r
  <2> QED BY <1>2, <1>3 DEF Unwinds
<1>5. Composed(digits, base) = r[0]
  BY <1>4, ComposedIs
<1> QED BY <1>2, <1>5

----------------------------------------------------------------------------
(* Powers of two.                                                          *)

LEMMA WordIs ==
  /\ WordBits \in Nat /\ ByteBits \in 1 .. WordBits
  /\ HalfBits \in 0 .. WordBits
<1>1. ByteBits \in Nat /\ ByteBits >= 1 /\ WordBytes \in Nat /\ WordBytes >= 1
  BY ByteAssumption
<1>2. WordBytes * ByteBits >= 1 * ByteBits /\ WordBytes * ByteBits \in Nat
  BY <1>1, SMTT(20)
<1> QED BY <1>1, <1>2, VarintAssumption DEF WordBits

LEMMA PowersAre ==
  /\ PowerOf2[0] = 1
  /\ \A n \in 0 .. WordBits : PowerOf2[n] \in Nat \ {0}
  /\ \A n \in 0 .. WordBits - 1 : PowerOf2[n + 1] = 2 * PowerOf2[n]
<1> DEFINE top == WordBits
           V == Nat \ {0}
           start == 1
           step == [k \in 1 .. top |-> [v \in V |-> 2 * v]]
           R(g) == g = [n \in 0 .. WordBits |-> IF n = 0 THEN 1 ELSE 2 * g[n - 1]]
<1>1. top \in Nat /\ start \in V
  BY WordIs
<1>2. step \in [1 .. top -> [V -> V]]
  OBVIOUS
<1>3. PICK f : Recurses(f, top, V, start, step)
  <2> HIDE DEF top, start, step, V
  <2> QED BY <1>1, <1>2, Recursion
<1>4. f \in [0 .. top -> V] /\ f[0] = 1
  BY <1>3 DEF Recurses
<1>5. ASSUME NEW k \in 0 .. top, k # 0 PROVE f[k] = 2 * f[k - 1]
  <2>1. k \in 1 .. top /\ k - 1 \in 0 .. top
    BY <1>1, <1>5
  <2>2. f[k - 1] \in V
    BY <1>4, <2>1
  <2>3. step[k][f[k - 1]] = 2 * f[k - 1]
    BY <2>1, <2>2
  <2> HIDE DEF step
  <2> QED BY <1>3, <2>1, <2>3 DEF Recurses
<1>6. R(PowerOf2)
  <2>1. R(f)
    <3> HIDE DEF step
    <3> QED BY <1>4, <1>5
  <2>2. PowerOf2 = CHOOSE g : R(g)
    BY DEF PowerOf2
  <2> HIDE DEF R
  <2> QED BY <2>1, <2>2
<1>7. PowerOf2[0] = 1 /\ \A k \in 0 .. top - 1 : PowerOf2[k + 1] = 2 * PowerOf2[k]
  <2>1. 0 \in 0 .. top /\ \A k \in 0 .. top - 1 : k + 1 \in 0 .. top /\ k + 1 # 0 /\ (k + 1) - 1 = k
    BY <1>1
  <2> QED BY <1>6, <2>1
<1> DEFINE S == {n \in 0 .. top : PowerOf2[n] \in V}
<1>8. 0 \in S
  BY <1>1, <1>7
<1>9. ASSUME NEW k \in 0 .. top - 1, k \in S PROVE k + 1 \in S
  <2>1. k + 1 \in 0 .. top /\ k \in Nat
    BY <1>1
  <2>2. PowerOf2[k] \in V /\ PowerOf2[k + 1] = 2 * PowerOf2[k]
    BY <1>7, <1>9
  <2> QED BY <2>1, <2>2
<1>10. \A n \in 0 .. top : n \in S
  <2> HIDE DEF S, top
  <2> QED BY <1>1, <1>8, <1>9, Stepwise
<1> QED BY <1>7, <1>10

(* Widths add up as numbers multiply. *)
LEMMA PowersMultiply ==
  ASSUME NEW a \in Nat, NEW b \in Nat, a + b <= WordBits
  PROVE  PowerOf2[a + b] = PowerOf2[a] * PowerOf2[b]
<1> DEFINE S == {k \in 0 .. b : PowerOf2[a + k] = PowerOf2[a] * PowerOf2[k]}
<1>0. a \in 0 .. WordBits /\ PowerOf2[a] \in Nat
  BY WordIs, PowersAre
<1>1. 0 \in S
  BY <1>0, PowersAre
<1>2. ASSUME NEW k \in 0 .. b - 1, k \in S PROVE k + 1 \in S
  <2>1. a + k \in 0 .. WordBits - 1 /\ k \in 0 .. WordBits - 1 /\ a + (k + 1) = (a + k) + 1
    BY WordIs
  <2>2. PowerOf2[(a + k) + 1] = 2 * PowerOf2[a + k] /\ PowerOf2[k + 1] = 2 * PowerOf2[k] /\ PowerOf2[k] \in Nat
    BY <2>1, WordIs, PowersAre
  <2>3. PowerOf2[a + k] = PowerOf2[a] * PowerOf2[k]
    BY <1>2
  <2>4. \A x, y \in Nat : 2 * (x * y) = x * (2 * y)
    BY SMTT(20)
  <2>5. PowerOf2[a + (k + 1)] = PowerOf2[a] * PowerOf2[k + 1]
    BY <1>0, <2>1, <2>2, <2>3, <2>4
  <2> QED BY <2>5
<1>3. \A k \in 0 .. b : k \in S
  <2> HIDE DEF S
  <2> QED BY <1>1, <1>2, Stepwise
<1> QED BY <1>3

(* A number below a product, divided by one factor, is below the other.    *)
LEMMA QuotientBelow ==
  ASSUME NEW x \in Nat, NEW b \in Nat \ {0}, NEW y \in Nat, x < b * y
  PROVE  x \div b \in Nat /\ x \div b < y
<1> DEFINE q == x \div b
           r == x % b
<1>1. q \in Nat /\ r \in 0 .. b - 1 /\ x = r + b * q
  BY DivisionIs
<1> HIDE DEF q, r
<1>2. CASE q >= y
  <2>1. b * q >= b * y /\ b * q \in Int /\ b * y \in Int
    BY <1>1, <1>2, SMTT(20)
  <2> QED BY <1>1, <2>1
<1>3. CASE ~(q >= y)
  BY <1>1, <1>3 DEF q
<1> QED BY <1>2, <1>3

(* As many digits as hold a number leave nothing of it. *)
LEMMA QuotientsEnd ==
  ASSUME NEW bits \in Nat, NEW count \in Nat \ {0}, count * bits <= WordBits,
         NEW n \in Nat, n < PowerOf2[count * bits]
  PROVE  /\ PowerOf2[bits] \in Nat \ {0}
         /\ Quotients(n, PowerOf2[bits], count)[count] = 0
<1> DEFINE base == PowerOf2[bits]
           rest == Quotients(n, base, count)
           width(k) == (count - k) * bits
<1>1. ASSUME NEW k \in 0 .. count
      PROVE  width(k) \in 0 .. WordBits /\ (k # count => width(k) = width(k + 1) + bits)
  <2>1. width(k) \in Nat
    BY SMTT(20)
  <2>2. width(k) <= count * bits /\ count * bits \in Nat
    BY SMTT(20)
  <2>3. (count - k) * bits = (count - (k + 1)) * bits + bits
    BY SMTT(20)
  <2> QED BY <2>1, <2>2, <2>3, WordIs
<1>2. bits \in 0 .. WordBits
  <2>1. bits <= count * bits /\ count * bits \in Nat
    BY SMTT(20)
  <2> QED BY <2>1, WordIs
<1>3. base \in Nat \ {0}
  BY <1>2, PowersAre
<1> HIDE DEF base
<1>4. rest[0] = n /\ rest \in [0 .. count -> Nat]
  <2>1. rest[0] = n
    BY <1>3, QuotientsAre
  <2>2. rest \in [0 .. count -> Nat]
    BY <1>3, QuotientsAre
  <2> QED BY <2>1, <2>2
<1>5. \A k \in 1 .. count : rest[k] = rest[k - 1] \div base
  BY <1>3, QuotientsAre
<1> DEFINE S == {k \in 0 .. count : rest[k] < PowerOf2[width(k)]}
<1>6. 0 \in S
  <2>1. (count - 0) * bits = count * bits
    OBVIOUS
  <2> QED BY <1>4, <2>1 DEF base
<1> HIDE DEF rest
<1>7. ASSUME NEW k \in 0 .. count - 1, k \in S PROVE k + 1 \in S
  <2>1. k \in 0 .. count /\ k + 1 \in 1 .. count /\ k + 1 \in 0 .. count /\ (k + 1) - 1 = k /\ k # count
    OBVIOUS
  <2>2. width(k) = bits + width(k + 1) /\ width(k + 1) \in Nat /\ bits + width(k + 1) <= WordBits
    <3> HIDE DEF width
    <3>1. width(k) \in 0 .. WordBits /\ width(k + 1) \in 0 .. WordBits /\ width(k) = width(k + 1) + bits
      BY <1>1, <2>1
    <3> QED BY <3>1, WordIs
  <2>3. PowerOf2[width(k)] = base * PowerOf2[width(k + 1)]
    <3> HIDE DEF width
    <3> QED BY <2>2, PowersMultiply DEF base
  <2>4. PowerOf2[width(k + 1)] \in Nat
    <3> HIDE DEF width
    <3> QED BY <1>1, <2>1, PowersAre
  <2>5. rest[k] \in Nat /\ rest[k] < base * PowerOf2[width(k + 1)]
    BY <1>4, <1>7, <2>1, <2>3
  <2>6. rest[k] \div base < PowerOf2[width(k + 1)]
    <3> HIDE DEF width
    <3> QED BY <1>3, <2>4, <2>5, QuotientBelow
  <2>7. rest[k + 1] = rest[k] \div base
    BY <1>5, <2>1
  <2> QED BY <2>1, <2>6, <2>7
<1>8. count \in S
  <2> HIDE DEF S
  <2>1. \A k \in 0 .. count : k \in S
    BY <1>6, <1>7, Stepwise
  <2> QED BY <2>1
<1>9. rest[count] < 1 /\ rest[count] \in Nat
  <2>1. (count - count) * bits = 0
    BY SMTT(20)
  <2> QED BY <1>4, <1>8, <2>1, PowersAre
<1> QED BY <1>3, <1>9 DEF rest, base

LEMMA DigitsAre ==
  ASSUME NEW n \in Nat, NEW base \in Nat \ {0}, NEW count \in Nat
  PROVE  /\ Digits(n, base, count) \in Seq(Nat)
         /\ Len(Digits(n, base, count)) = count
         /\ \A k \in 1 .. count :
              Digits(n, base, count)[k] = Quotients(n, base, count)[k - 1] % base
<1> DEFINE rest == Quotients(n, base, count)
           d == Digits(n, base, count)
<1>1. d = [k \in 1 .. count |-> rest[k - 1] % base]
  BY DEF Digits
<1>2. rest \in [0 .. count -> Nat]
  BY QuotientsAre
<1> HIDE DEF rest, d
<1>3. ASSUME NEW k \in 1 .. count PROVE d[k] = rest[k - 1] % base /\ d[k] \in Nat
  <2>1. k - 1 \in 0 .. count
    OBVIOUS
  <2>2. rest[k - 1] % base \in 0 .. base - 1
    BY <1>2, <2>1, DivisionIs
  <2> QED BY <1>1, <2>2
<1>4. d \in Seq(Nat) /\ Len(d) = count
  BY <1>1, <1>3
<1> QED BY <1>3, <1>4 DEF rest, d

(* The digits of a number in a byte's base, put together again.            *)
DigitsOf(digits, n, base, count) ==
  Len(digits) = count /\ \A k \in 1 .. count : digits[k] = Digits(n, base, count)[k]

LEMMA DigitsRoundTrip ==
  ASSUME NEW bits \in Nat, NEW count \in Nat \ {0}, count * bits <= WordBits,
         NEW n \in Nat, n < PowerOf2[count * bits],
         NEW digits, DigitsOf(digits, n, PowerOf2[bits], count)
  PROVE  Composed(digits, PowerOf2[bits]) = n
<1> DEFINE base == PowerOf2[bits]
<1>1. base \in Nat \ {0} /\ Quotients(n, base, count)[count] = 0
  BY QuotientsEnd
<1> HIDE DEF base
<1>2. \A k \in 1 .. count : Digits(n, base, count)[k] = Quotients(n, base, count)[k - 1] % base
  BY <1>1, DigitsAre
<1>3. Len(digits) = count /\ \A k \in 1 .. count : digits[k] = Quotients(n, base, count)[k - 1] % base
  <2>1. DigitsOf(digits, n, base, count)
    BY DEF base
  <2> QED BY <1>2, <2>1 DEF DigitsOf
<1>4. count \in 0 .. count
  OBVIOUS
<1>5. Composed(digits, base) = n
  BY <1>1, <1>3, <1>4, DigitsMake
<1> QED BY <1>5 DEF base

----------------------------------------------------------------------------
(* What bits say.                                                          *)

(* The number that n digits of f make, from the digit `at` on. *)
ValueIn(f, at, n, base) == Composed([i \in 1 .. n |-> f[at + i - 1]], base)
Value(f, at, n) == ValueIn(f, at, n, 2)

(* It is the first digit, and the others a place higher. *)
LEMMA ValueUnrolls ==
  ASSUME NEW f \in [Nat -> Nat], NEW at \in Nat, NEW n \in Nat, NEW base \in Nat
  PROVE  /\ ValueIn(f, at, n, base) \in Nat
         /\ ValueIn(f, at, n + 1, base) = f[at] + base * ValueIn(f, at + 1, n, base)
<1> DEFINE d == [i \in 1 .. n + 1 |-> f[at + i - 1]]
           t == [i \in 1 .. n |-> f[(at + 1) + i - 1]]
           h == [i \in 1 .. n |-> f[at + i - 1]]
<1>1. Len(d) = n + 1 /\ Len(t) = n /\ Len(h) = n
  OBVIOUS
<1>2. ASSUME NEW i \in 1 .. n + 1 PROVE d[i] \in Nat
  <2>1. at + i - 1 \in Nat
    OBVIOUS
  <2> QED BY <2>1
<1>3. ASSUME NEW i \in 1 .. n PROVE h[i] \in Nat /\ t[i] = d[i + 1]
  <2>1. at + i - 1 \in Nat /\ i + 1 \in 1 .. n + 1 /\ (at + 1) + i - 1 = at + (i + 1) - 1
    OBVIOUS
  <2> QED BY <2>1
<1>4. d[1] = f[at]
  <2>1. 1 \in 1 .. n + 1 /\ at + 1 - 1 = at
    OBVIOUS
  <2> QED BY <2>1
<1>5. /\ ValueIn(f, at, n + 1, base) = Composed(d, base)
      /\ ValueIn(f, at + 1, n, base) = Composed(t, base)
      /\ ValueIn(f, at, n, base) = Composed(h, base)
  BY DEF ValueIn
<1> HIDE DEF d, t, h
<1>6. Composed(h, base) \in Nat
  BY <1>1, <1>3, ComposedTyped
<1>7. PICK r : Unwinds(r, d, base)
  <2>1. Len(d) \in Nat /\ \A i \in 1 .. Len(d) : d[i] \in Nat
    BY <1>1, <1>2
  <2> QED BY <2>1, UnwindingExists
<1>8. /\ r \in [0 .. n + 1 -> Nat] /\ r[n + 1] = 0
      /\ \A k \in 1 .. n + 1 : r[k - 1] = d[k] + base * r[k]
  BY <1>1, <1>7 DEF Unwinds
<1> DEFINE q == [k \in 0 .. n |-> r[k + 1]]
<1>9. q \in [0 .. n -> Nat] /\ q[n] = 0 /\ q[0] = r[1]
  <2>1. ASSUME NEW k \in 0 .. n PROVE r[k + 1] \in Nat
    <3>1. k + 1 \in 0 .. n + 1
      OBVIOUS
    <3> QED BY <1>8, <3>1
  <2>2. n \in 0 .. n /\ 0 \in 0 .. n /\ 0 + 1 = 1
    OBVIOUS
  <2>3. q \in [0 .. n -> Nat]
    BY <2>1
  <2>4. q[n] = r[n + 1] /\ q[0] = r[0 + 1]
    BY <2>2
  <2> QED BY <1>8, <2>2, <2>3, <2>4
<1>10. ASSUME NEW k \in 1 .. n PROVE t[k] \in Nat /\ q[k - 1] = t[k] + base * q[k]
  <2>1. k + 1 \in 1 .. n + 1 /\ (k + 1) - 1 = k /\ k - 1 \in 0 .. n /\ (k - 1) + 1 = k /\ k \in 0 .. n
    OBVIOUS
  <2>2. r[(k + 1) - 1] = d[k + 1] + base * r[k + 1]
    BY <1>8, <2>1
  <2>3. q[k - 1] = r[k] /\ q[k] = r[k + 1]
    BY <2>1
  <2>4. t[k] = d[k + 1] /\ d[k + 1] \in Nat
    BY <1>2, <1>3, <2>1
  <2> QED BY <2>1, <2>2, <2>3, <2>4
<1> HIDE DEF q
<1>11. Unwinds(q, t, base)
  BY <1>1, <1>9, <1>10 DEF Unwinds
<1>12. Composed(d, base) = r[0] /\ Composed(t, base) = r[1]
  BY <1>7, <1>9, <1>11, ComposedIs
<1>13. r[0] = d[1] + base * r[1]
  <2>1. 1 \in 1 .. n + 1 /\ 1 - 1 = 0
    OBVIOUS
  <2> QED BY <1>8, <2>1
<1> QED BY <1>4, <1>5, <1>6, <1>12, <1>13

LEMMA ValueOfNone ==
  ASSUME NEW f \in [Nat -> Nat], NEW at \in Nat, NEW base \in Nat
  PROVE  ValueIn(f, at, 0, base) = 0
<1> DEFINE d == [i \in 1 .. 0 |-> f[at + i - 1]]
<1>1. Len(d) = 0
  OBVIOUS
<1>2. ValueIn(f, at, 0, base) = Composed(d, base)
  BY DEF ValueIn
<1> HIDE DEF d
<1>3. PICK r : Unwinds(r, d, base)
  <2>1. Len(d) \in Nat /\ \A i \in 1 .. Len(d) : d[i] \in Nat
    BY <1>1
  <2> QED BY <2>1, UnwindingExists
<1>4. r[0] = 0
  BY <1>1, <1>3 DEF Unwinds
<1> QED BY <1>2, <1>3, <1>4, ComposedIs

LEMMA BitValue ==
  ASSUME NEW f \in [Nat -> Nat], NEW at \in Nat, NEW n \in Nat
  PROVE  /\ Value(f, at, n) \in Nat /\ Value(f, at, 0) = 0
         /\ Value(f, at, n + 1) = f[at] + 2 * Value(f, at + 1, n)
<1>1. 2 \in Nat
  OBVIOUS
<1> QED BY <1>1, ValueUnrolls, ValueOfNone DEF Value

(* The first m bits and, m places higher, the others. *)
LEMMA ValueSplits ==
  ASSUME NEW f \in [Nat -> Nat], NEW at \in Nat, NEW m \in 0 .. WordBits, NEW n \in Nat
  PROVE  Value(f, at, m + n) = Value(f, at, m) + PowerOf2[m] * Value(f, at + m, n)
<1> DEFINE rest == Value(f, at + m, n)
           lo(k) == at + (m - k)
           Splits(k) == Value(f, lo(k), k + n) = Value(f, lo(k), k) + PowerOf2[k] * rest
           S == {k \in 0 .. m : Splits(k)}
<1>0. m \in Nat /\ at + m \in Nat /\ rest \in Nat /\ WordBits \in Nat
  BY WordIs, BitValue
<1>1. 0 \in S
  <2>1. lo(0) = at + m /\ 0 + n = n
    BY <1>0
  <2>2. Value(f, at + m, 0) = 0 /\ PowerOf2[0] = 1
    BY <1>0, BitValue, PowersAre
  <2> HIDE DEF rest
  <2>3. 1 * rest = rest /\ 0 + rest = rest
    BY <1>0
  <2>4. Splits(0)
    BY <2>1, <2>2, <2>3 DEF rest
  <2> QED BY <2>4, <1>0
<1> HIDE DEF rest
<1>2. ASSUME NEW k \in 0 .. m - 1, k \in S PROVE k + 1 \in S
  <2>1. /\ lo(k + 1) \in Nat /\ lo(k + 1) + 1 = lo(k) /\ k \in Nat /\ k + n \in Nat
        /\ (k + 1) + n = (k + n) + 1 /\ k \in 0 .. WordBits - 1 /\ k \in 0 .. WordBits
        /\ k + 1 \in 0 .. m /\ lo(k) \in Nat
    BY <1>0
  <2>2. Splits(k)
    BY <1>2
  <2> DEFINE l == lo(k + 1)
             v == Value(f, lo(k), k)
             p == PowerOf2[k]
  <2>3. /\ Value(f, l, (k + 1) + n) = f[l] + 2 * Value(f, lo(k), k + n)
        /\ Value(f, l, k + 1) = f[l] + 2 * v
        /\ v \in Nat /\ f[l] \in Nat
    <3>1. l \in Nat /\ l + 1 = lo(k)
      BY <2>1
    <3>2. k \in Nat /\ k + n \in Nat /\ lo(k) \in Nat /\ (k + 1) + n = (k + n) + 1
      BY <2>1
    <3> HIDE DEF l, lo
    <3>3. Value(f, l, (k + n) + 1) = f[l] + 2 * Value(f, l + 1, k + n)
      BY <3>1, <3>2, BitValue
    <3>4. Value(f, l, k + 1) = f[l] + 2 * Value(f, l + 1, k)
      BY <3>1, <3>2, BitValue
    <3>5. Value(f, lo(k), k) \in Nat /\ f[l] \in Nat
      BY <3>1, <3>2, BitValue
    <3> QED BY <3>1, <3>2, <3>3, <3>4, <3>5
  <2>4. PowerOf2[k + 1] = 2 * p /\ p \in Nat
    BY <2>1, PowersAre
  <2>5. Value(f, lo(k), k + n) = v + p * rest
    BY <2>2
  <2> HIDE DEF v, p, l
  <2>6. f[l] + 2 * (v + p * rest) = (f[l] + 2 * v) + (2 * p) * rest
    <3>1. p * rest \in Nat /\ (2 * p) * rest = 2 * (p * rest)
      BY <1>0, <2>4, SMTT(20)
    <3> QED BY <2>3, <3>1
  <2>7. Splits(k + 1)
    BY <2>3, <2>4, <2>5, <2>6 DEF l
  <2> QED BY <2>1, <2>7
<1>3. m \in S
  <2> HIDE DEF S
  <2>1. \A k \in 0 .. m : k \in S
    BY <1>0, <1>1, <1>2, Stepwise
  <2> QED BY <1>0, <2>1
<1>4. lo(m) = at
  BY <1>0
<1> QED BY <1>3, <1>4 DEF rest

Bits == {0, 1}

(* m bits are less than the m-th power of two. *)
LEMMA ValueBelow ==
  ASSUME NEW f \in [Nat -> Bits], NEW at \in Nat, NEW m \in 0 .. WordBits
  PROVE  Value(f, at, m) \in 0 .. PowerOf2[m] - 1
<1> DEFINE lo(k) == at + (m - k)
           S == {k \in 0 .. m : Value(f, lo(k), k) < PowerOf2[k]}
<1>0. m \in Nat /\ f \in [Nat -> Nat] /\ WordBits \in Nat
  BY WordIs DEF Bits
<1>1. 0 \in S
  <2>1. Value(f, lo(0), 0) = 0 /\ PowerOf2[0] = 1
    BY <1>0, BitValue, PowersAre
  <2> QED BY <1>0, <2>1
<1>2. ASSUME NEW k \in 0 .. m - 1, k \in S PROVE k + 1 \in S
  <2>1. /\ lo(k + 1) \in Nat /\ lo(k + 1) + 1 = lo(k) /\ k \in Nat
        /\ k \in 0 .. WordBits - 1 /\ k \in 0 .. WordBits
        /\ k + 1 \in 0 .. m /\ lo(k) \in Nat
    BY <1>0
  <2> DEFINE l == lo(k + 1)
             v == Value(f, lo(k), k)
  <2>2. Value(f, l, k + 1) = f[l] + 2 * v /\ v \in Nat
    <3>1. l \in Nat /\ l + 1 = lo(k)
      BY <2>1
    <3>2. k \in Nat /\ lo(k) \in Nat
      BY <2>1
    <3> HIDE DEF l, lo
    <3>3. Value(f, l, k + 1) = f[l] + 2 * Value(f, l + 1, k)
      BY <1>0, <3>1, <3>2, BitValue
    <3>4. Value(f, lo(k), k) \in Nat
      BY <1>0, <3>2, BitValue
    <3> QED BY <3>1, <3>3, <3>4
  <2>3. v < PowerOf2[k]
    BY <1>2
  <2>4. PowerOf2[k + 1] = 2 * PowerOf2[k] /\ PowerOf2[k] \in Nat
    BY <2>1, PowersAre
  <2>5. f[l] = 0 \/ f[l] = 1
    BY <2>1 DEF Bits
  <2> HIDE DEF v, l
  <2>6. Value(f, l, k + 1) < PowerOf2[k + 1]
    BY <2>2, <2>3, <2>4, <2>5
  <2> QED BY <2>1, <2>6 DEF l
<1>3. m \in S
  <2> HIDE DEF S
  <2>1. \A k \in 0 .. m : k \in S
    BY <1>0, <1>1, <1>2, Stepwise
  <2> QED BY <1>0, <2>1
<1>4. lo(m) = at
  BY <1>0
<1>5. Value(f, at, m) \in Nat /\ PowerOf2[m] \in Nat
  BY <1>0, BitValue, PowersAre
<1>6. Value(f, at, m) < PowerOf2[m]
  BY <1>3, <1>4
<1> QED BY <1>5, <1>6

(* Dividing by a power of two separates the first bits from the others. *)
LEMMA ValueDivides ==
  ASSUME NEW f \in [Nat -> Bits], NEW at \in Nat, NEW m \in 0 .. WordBits, NEW n \in Nat
  PROVE  /\ Value(f, at, m + n) % PowerOf2[m] = Value(f, at, m)
         /\ Value(f, at, m + n) \div PowerOf2[m] = Value(f, at + m, n)
<1> DEFINE h == PowerOf2[m]
           q == Value(f, at + m, n)
           r == Value(f, at, m)
<1>1. f \in [Nat -> Nat] /\ at + m \in Nat
  BY WordIs DEF Bits
<1>2. h \in Nat \ {0} /\ q \in Nat /\ r \in 0 .. h - 1
  BY <1>1, PowersAre, BitValue, ValueBelow
<1>3. Value(f, at, m + n) = r + h * q
  BY <1>1, ValueSplits
<1> HIDE DEF h, q, r
<1>4. h * q \in Nat
  BY <1>2, ProductIn
<1>5. r + h * q = h * q + r
  BY <1>2, <1>4
<1>6. (h * q + r) % h = r /\ (h * q + r) \div h = q
  BY <1>2, RemainderAndQuotient
<1> QED BY <1>3, <1>5, <1>6 DEF h, q, r

(* Three of these facts under names of their own, for where their sums are *)
(* sums of sums.                                                           *)
Unrolls(f, at, n, base) == ValueIn(f, at, n + 1, base) = f[at] + base * ValueIn(f, at + 1, n, base)
Splits(f, at, m, n)     == Value(f, at, m + n) = Value(f, at, m) + PowerOf2[m] * Value(f, at + m, n)
Remains(f, at, m, n)    == Value(f, at, m + n) % PowerOf2[m] = Value(f, at, m)

LEMMA UnrollsAlways ==
  ASSUME NEW f \in [Nat -> Nat], NEW at \in Nat, NEW n \in Nat, NEW base \in Nat
  PROVE  Unrolls(f, at, n, base)
BY ValueUnrolls DEF Unrolls

LEMMA SplitsAlways ==
  ASSUME NEW f \in [Nat -> Nat], NEW at \in Nat, NEW m \in 0 .. WordBits, NEW n \in Nat
  PROVE  Splits(f, at, m, n)
BY ValueSplits DEF Splits

LEMMA RemainsAlways ==
  ASSUME NEW f \in [Nat -> Bits], NEW at \in Nat, NEW m \in 0 .. WordBits, NEW n \in Nat
  PROVE  Remains(f, at, m, n)
BY ValueDivides DEF Remains

LEMMA ValueCut ==
  ASSUME NEW f \in [Nat -> Bits], NEW at \in Nat, NEW low \in 0 .. WordBits,
         NEW n \in 0 .. WordBits, NEW all \in Nat, low + n <= all
  PROVE  Cut(Value(f, at, all), low, n) = Value(f, at + low, n)
<1>1. all - low \in Nat /\ low + (all - low) = all /\ (all - low) - n \in Nat
      /\ n + ((all - low) - n) = all - low /\ at + low \in Nat
  BY WordIs
<1>2. Value(f, at, all) \div PowerOf2[low] = Value(f, at + low, all - low)
  <2> DEFINE rest == all - low
  <2>1. rest \in Nat /\ low + rest = all
    BY <1>1
  <2> HIDE DEF rest
  <2>2. Value(f, at, low + rest) \div PowerOf2[low] = Value(f, at + low, rest)
    BY <2>1, ValueDivides
  <2> QED BY <2>1, <2>2 DEF rest
<1>3. Value(f, at + low, all - low) % PowerOf2[n] = Value(f, at + low, n)
  <2> DEFINE rest == (all - low) - n
  <2>1. rest \in Nat /\ n + rest = all - low
    BY <1>1
  <2> HIDE DEF rest
  <2>2. Value(f, at + low, n + rest) % PowerOf2[n] = Value(f, at + low, n)
    <3>1. Remains(f, at + low, n, rest)
      BY <1>1, <2>1, RemainsAlways
    <3> QED BY <3>1 DEF Remains
  <2> QED BY <2>1, <2>2
<1> QED BY <1>2, <1>3 DEF Cut

(* Bytes that are the values of their bits make the value of all. *)
LEMMA ValuesGroup ==
  ASSUME NEW f \in [Nat -> Bits], NEW g \in [Nat -> Nat], NEW j \in Nat, NEW count \in Nat,
         \A k \in Nat : g[k] = Value(f, k * ByteBits, ByteBits)
  PROVE  ValueIn(g, j, count, PowerOf2[ByteBits]) = Value(f, j * ByteBits, count * ByteBits)
<1> DEFINE base == PowerOf2[ByteBits]
           lo(k) == j + (count - k)
           Groups(k) == ValueIn(g, lo(k), k, base) = Value(f, lo(k) * ByteBits, k * ByteBits)
           S == {k \in 0 .. count : Groups(k)}
<1>0. f \in [Nat -> Nat] /\ ByteBits \in Nat /\ ByteBits \in 0 .. WordBits /\ base \in Nat
  BY WordIs, PowersAre DEF Bits
<1>1. 0 \in S
  <2>1. lo(0) \in Nat /\ 0 * ByteBits = 0 /\ lo(0) * ByteBits \in Nat
    <3>1. lo(0) \in Nat
      OBVIOUS
    <3> HIDE DEF lo
    <3> QED BY <1>0, <3>1, ProductIn
  <2> HIDE DEF lo, base
  <2>2. Value(f, lo(0) * ByteBits, 0) = 0 /\ ValueIn(g, lo(0), 0, base) = 0
    BY <1>0, <2>1, BitValue, ValueOfNone
  <2>3. Groups(0)
    BY <2>1, <2>2
  <2> QED BY <2>3
<1>2. ASSUME NEW k \in 0 .. count - 1, k \in S PROVE k + 1 \in S
  <2>1. /\ lo(k + 1) \in Nat /\ lo(k + 1) + 1 = lo(k) /\ k \in Nat /\ lo(k) \in Nat
        /\ k + 1 \in 0 .. count
    OBVIOUS
  <2>2. Groups(k)
    BY <1>2
  <2> DEFINE l == lo(k + 1)
             bits == k * ByteBits
             from == l * ByteBits
  <2>3. /\ bits \in Nat /\ from \in Nat /\ lo(k) * ByteBits = from + ByteBits
        /\ (k + 1) * ByteBits = ByteBits + bits
    <3> HIDE DEF lo
    <3>1. k * ByteBits \in Nat /\ l * ByteBits \in Nat
      BY <1>0, <2>1, ProductIn
    <3>2. (l + 1) * ByteBits = l * ByteBits + ByteBits /\ (k + 1) * ByteBits = ByteBits + k * ByteBits
      BY <1>0, <2>1, SMTT(20)
    <3> QED BY <2>1, <3>1, <3>2
  <2>4. ValueIn(g, l, k + 1, base) = g[l] + base * ValueIn(g, lo(k), k, base)
    <3>1. l \in Nat /\ l + 1 = lo(k)
      BY <2>1
    <3>2. k \in Nat /\ base \in Nat
      BY <1>0, <2>1
    <3> HIDE DEF l, lo, base
    <3>3. ValueIn(g, l, k + 1, base) = g[l] + base * ValueIn(g, l + 1, k, base)
      <4>1. Unrolls(g, l, k, base)
        BY <3>1, <3>2, UnrollsAlways
      <4> QED BY <4>1 DEF Unrolls
    <3> QED BY <3>1, <3>3
  <2> HIDE DEF bits, from
  <2>5. Value(f, from, ByteBits + bits)
          = Value(f, from, ByteBits) + base * Value(f, from + ByteBits, bits)
    <3>1. Splits(f, from, ByteBits, bits)
      BY <1>0, <2>3, SplitsAlways
    <3> QED BY <3>1 DEF Splits
  <2>6. g[l] = Value(f, from, ByteBits)
    BY <2>1 DEF from
  <2>7. ValueIn(g, lo(k), k, base) = Value(f, from + ByteBits, bits)
    BY <2>2, <2>3 DEF bits
  <2>8. Groups(k + 1)
    <3> HIDE DEF base
    <3>1. ValueIn(g, l, k + 1, base) = Value(f, from, ByteBits + bits)
      BY <2>4, <2>5, <2>6, <2>7
    <3> QED BY <2>3, <3>1 DEF from
  <2> QED BY <2>1, <2>8
<1>3. count \in S
  <2> HIDE DEF S
  <2>1. \A k \in 0 .. count : k \in S
    BY <1>1, <1>2, Stepwise
  <2> QED BY <2>1
<1>4. lo(count) = j
  OBVIOUS
<1> QED BY <1>3, <1>4

----------------------------------------------------------------------------
(* The buffer.                                                             *)

BufferTyped == data \in Seq(0 .. PowerOf2[ByteBits] - 1)

(* The buffer as bits and as bytes, with zeros behind it. *)
BitAt  == [i \in Nat |-> IF i < TotalBits THEN Bit(i) ELSE 0]
ByteAt == [k \in Nat |-> IF k < Len(data) THEN data[k + 1] ELSE 0]

LEMMA ByteIs ==
  /\ ByteBits \in Nat \ {0} /\ ByteBits \in 0 .. WordBits /\ PowerOf2[ByteBits] \in Nat \ {0}
  /\ PowerOf2[0] = 1 /\ 0 \in 0 .. WordBits /\ WordBits \in Nat
BY WordIs, PowersAre

(* n whole bytes fit in x bits exactly when their bits do. *)
LEMMA BytesFit ==
  ASSUME NEW x \in Nat, NEW n \in Nat
  PROVE  n <= x \div ByteBits <=> n * ByteBits <= x
<1> DEFINE q == x \div ByteBits
<1>1. ByteBits \in Nat /\ ByteBits > 0
  BY ByteAssumption
<1>2. q \in Nat /\ q * ByteBits <= x /\ x < (q + 1) * ByteBits
  BY <1>1
<1> HIDE DEF q
<1>3. ASSUME n <= q PROVE n * ByteBits <= x
  <2>1. n * ByteBits <= q * ByteBits
    BY <1>1, <1>2, <1>3, ProductOrder
  <2> QED BY <1>1, <1>2, <2>1, ProductIn
<1>4. ASSUME n > q PROVE n * ByteBits > x
  <2>1. (q + 1) * ByteBits <= n * ByteBits
    BY <1>1, <1>2, <1>4, ProductOrder
  <2> QED BY <1>1, <1>2, <2>1, ProductIn
<1>5. n * ByteBits \in Nat
  BY <1>1, ProductIn
<1> QED BY <1>2, <1>3, <1>4, <1>5 DEF q

(* A bit offset is a byte and a bit in it. *)
LEMMA BitOffsetIs ==
  ASSUME NEW at \in Nat
  PROVE  /\ at \div ByteBits \in Nat /\ at % ByteBits \in 0 .. ByteBits - 1
         /\ (at \div ByteBits) * ByteBits \in Nat
         /\ at = (at \div ByteBits) * ByteBits + (at % ByteBits)
<1>1. at \div ByteBits \in Nat /\ at % ByteBits \in 0 .. ByteBits - 1
      /\ at = (at % ByteBits) + ByteBits * (at \div ByteBits)
  BY ByteIs, DivisionIs
<1> DEFINE q == at \div ByteBits
<1> HIDE DEF q
<1>2. ASSUME q \in Nat PROVE ByteBits * q = q * ByteBits /\ q * ByteBits \in Nat
  BY <1>2, ByteIs, SMTT(20)
<1>3. q * ByteBits \in Nat /\ ByteBits * q = q * ByteBits
  BY <1>1, <1>2 DEF q
<1> QED BY <1>1, <1>3 DEF q

LEMMA InByte ==
  ASSUME NEW k \in Nat, NEW j \in 0 .. ByteBits - 1
  PROVE  /\ k * ByteBits \in Nat /\ k * ByteBits + j \in Nat
         /\ (k * ByteBits + j) \div ByteBits = k /\ (k * ByteBits + j) % ByteBits = j
<1>1. k * ByteBits \in Nat /\ k * ByteBits = ByteBits * k
  BY ByteIs, SMTT(20)
<1>2. (ByteBits * k + j) % ByteBits = j /\ (ByteBits * k + j) \div ByteBits = k
  BY ByteIs, RemainderAndQuotient
<1> QED BY <1>1, <1>2

(* Dividing twice is dividing by the product. *)
LEMMA DividesTwice ==
  ASSUME NEW x \in Nat, NEW a \in Nat \ {0}, NEW b \in Nat \ {0}
  PROVE  a * b \in Nat \ {0} /\ (x \div a) \div b = x \div (a * b)
<1> DEFINE q == x \div a
           r == x % a
           t == q \div b
           s == q % b
<1>1. q \in Nat /\ r \in 0 .. a - 1 /\ x = r + a * q
  BY DivisionIs
<1> HIDE DEF q, r
<1>2. t \in Nat /\ s \in 0 .. b - 1 /\ q = s + b * t
  BY <1>1, DivisionIs
<1> HIDE DEF s, t
<1>3. a * b \in Nat \ {0} /\ a * s + r \in 0 .. a * b - 1
  <2>1. a * b \in Nat /\ a * b >= 1 /\ a * s \in Nat
    BY <1>2, SMTT(20)
  <2>2. a * s <= a * (b - 1) /\ a * (b - 1) = a * b - a
    <3>1. s <= b - 1 /\ s \in Nat /\ b - 1 \in Nat
      BY <1>2
    <3>2. a * s <= a * (b - 1)
      BY <3>1, SMTT(20)
    <3>3. a * (b - 1) = a * b - a
      BY SMTT(20)
    <3> QED BY <3>2, <3>3
  <2> QED BY <1>1, <2>1, <2>2
<1>4. x = (a * b) * t + (a * s + r)
  <2>1. a * (s + b * t) = a * s + (a * b) * t
    BY <1>2, SMTT(20)
  <2>2. a * s \in Int /\ (a * b) * t \in Int
    BY <1>2, SMTT(20)
  <2> QED BY <1>1, <1>2, <2>1, <2>2
<1> DEFINE h == a * b
           u == a * s + r
<1>5. h \in Nat \ {0} /\ u \in 0 .. h - 1 /\ x = h * t + u
  BY <1>3, <1>4
<1> HIDE DEF h, u
<1>6. (h * t + u) \div h = t
  BY <1>2, <1>5, RemainderAndQuotient
<1> QED BY <1>3, <1>5, <1>6 DEF t, q, h

(* The bits of a byte. *)
LEMMA BitOfByte ==
  ASSUME BufferTyped, NEW k \in Nat, NEW j \in 0 .. ByteBits - 1
  PROVE  /\ ByteAt[k] \in 0 .. PowerOf2[ByteBits] - 1
         /\ PowerOf2[j] \in Nat \ {0}
         /\ BitAt[k * ByteBits + j] = (ByteAt[k] \div PowerOf2[j]) % 2
<1> DEFINE i == k * ByteBits + j
<1>1. k * ByteBits \in Nat /\ i \in Nat /\ i \div ByteBits = k /\ i % ByteBits = j
  BY InByte
<1>2. j \in 0 .. WordBits /\ 1 \in 0 .. WordBits /\ 0 \in 0 .. WordBits - 1
  BY ByteIs
<1>3. PowerOf2[j] \in Nat \ {0} /\ PowerOf2[1] = 2
  <2>1. PowerOf2[0 + 1] = 2 * PowerOf2[0] /\ PowerOf2[0] = 1
    BY <1>2, PowersAre
  <2> QED BY <1>2, <2>1, PowersAre
<1>4. Len(data) \in Nat /\ TotalBits = Len(data) * ByteBits
  BY DEF BufferTyped, TotalBits
<1> HIDE DEF i
<1>5. CASE k < Len(data)
  <2>1. ByteAt[k] = data[k + 1] /\ k + 1 \in 1 .. Len(data)
    BY <1>4, <1>5 DEF ByteAt
  <2>2. data[k + 1] \in 0 .. PowerOf2[ByteBits] - 1
    <3>1. ASSUME NEW T, data \in Seq(T) PROVE data[k + 1] \in T
      BY <2>1, <3>1
    <3> QED BY <3>1 DEF BufferTyped
  <2>3. i < TotalBits
    <3>1. (k + 1) * ByteBits <= Len(data) * ByteBits /\ (k + 1) * ByteBits = k * ByteBits + ByteBits
          /\ Len(data) * ByteBits \in Nat
      <4>1. k + 1 <= Len(data) /\ k + 1 \in Nat /\ ByteBits \in Nat
        BY <1>4, <1>5, ByteIs
      <4> HIDE DEF i
      <4>2. \A m \in Nat : k + 1 <= m => (k + 1) * ByteBits <= m * ByteBits /\ m * ByteBits \in Nat
        BY <4>1, SMTT(20)
      <4>3. (k + 1) * ByteBits = k * ByteBits + ByteBits
        BY <4>1, SMTT(20)
      <4> QED BY <1>4, <4>1, <4>2, <4>3
    <3> QED BY <1>1, <1>4, <3>1, ByteIs DEF i
  <2>4. BitAt[i] = Bit(i)
    BY <1>1, <2>3 DEF BitAt
  <2>5. Bit(i) = (data[k + 1] \div PowerOf2[j]) % PowerOf2[1]
    BY <1>1 DEF Bit, Cut
  <2> QED BY <1>3, <2>1, <2>2, <2>4, <2>5 DEF i
<1>6. CASE ~(k < Len(data))
  <2>1. ByteAt[k] = 0
    BY <1>6 DEF ByteAt
  <2>2. ~(i < TotalBits)
    <3>1. Len(data) * ByteBits <= k * ByteBits /\ Len(data) * ByteBits \in Nat
      <4>1. \A m \in Nat : m <= k => m * ByteBits <= k * ByteBits /\ m * ByteBits \in Nat
        BY ByteIs, SMTT(20)
      <4> QED BY <1>4, <1>6, <4>1
    <3> QED BY <1>1, <1>4, <3>1 DEF i
  <2>3. BitAt[i] = 0
    BY <1>1, <2>2 DEF BitAt
  <2>4. (0 \div PowerOf2[j]) % 2 = 0
    <3>1. \A p \in Nat \ {0} : 0 \div p = 0
      BY SMTT(20)
    <3> QED BY <1>3, <3>1
  <2> QED BY <1>3, <2>1, <2>3, <2>4, ByteIs DEF i
<1> QED BY <1>5, <1>6

LEMMA BufferIs ==
  ASSUME BufferTyped
  PROVE  BitAt \in [Nat -> Bits] /\ BitAt \in [Nat -> Nat] /\ ByteAt \in [Nat -> Nat]
<1>1. ASSUME NEW i \in Nat PROVE BitAt[i] \in Bits
  <2>1. i \div ByteBits \in Nat /\ i % ByteBits \in 0 .. ByteBits - 1
        /\ i = (i \div ByteBits) * ByteBits + (i % ByteBits)
    BY BitOffsetIs
  <2> DEFINE k == i \div ByteBits
             j == i % ByteBits
  <2>2. k \in Nat /\ j \in 0 .. ByteBits - 1 /\ i = k * ByteBits + j
    BY <2>1
  <2> HIDE DEF k, j
  <2>3. ByteAt[k] \in Nat /\ PowerOf2[j] \in Nat \ {0}
        /\ BitAt[k * ByteBits + j] = (ByteAt[k] \div PowerOf2[j]) % 2
    BY <2>2, BitOfByte
  <2>4. ByteAt[k] \div PowerOf2[j] \in Nat
    BY <2>3, DivisionIs
  <2> QED BY <2>2, <2>3, <2>4 DEF Bits
<1>2. ASSUME NEW k \in Nat PROVE ByteAt[k] \in Nat
  <2>1. 0 \in 0 .. ByteBits - 1
    BY ByteIs
  <2> QED BY <2>1, BitOfByte
<1>3. BitAt = [i \in Nat |-> BitAt[i]] /\ ByteAt = [k \in Nat |-> ByteAt[k]]
  BY DEF BitAt, ByteAt
<1>4. BitAt \in [Nat -> Bits] /\ ByteAt \in [Nat -> Nat]
  BY <1>1, <1>2, <1>3
<1> QED BY <1>4 DEF Bits

(* A byte is what its bits say. *)
LEMMA BytesAreBits ==
  ASSUME BufferTyped, NEW k \in Nat
  PROVE  ByteAt[k] = Value(BitAt, k * ByteBits, ByteBits)
<1> DEFINE x == ByteAt[k]
           from == k * ByteBits
           lo(j) == from + (ByteBits - j)
           S == {j \in 0 .. ByteBits : Value(BitAt, lo(j), j) = x \div PowerOf2[ByteBits - j]}
<1>1. from \in Nat /\ ByteBits \in Nat \ {0} /\ 0 \in 0 .. ByteBits - 1 /\ ByteBits <= WordBits /\ WordBits \in Nat
  BY ByteIs, ProductIn
<1>2. x \in 0 .. PowerOf2[ByteBits] - 1 /\ x \in Nat /\ PowerOf2[ByteBits] \in Nat \ {0}
  BY <1>1, ByteIs, BitOfByte
<1> HIDE DEF x
<1>3. \A j \in 0 .. ByteBits - 1 : BitAt[from + j] = (x \div PowerOf2[j]) % 2
  BY BitOfByte DEF x
<1> HIDE DEF from
<1>4. 0 \in S
  <2>1. lo(0) \in Nat /\ ByteBits - 0 = ByteBits
    BY <1>1
  <2>2. Value(BitAt, lo(0), 0) = 0
    <3> HIDE DEF lo
    <3> QED BY <2>1, BufferIs, BitValue
  <2>3. x \div PowerOf2[ByteBits] = 0
    <3>1. \A p \in Nat \ {0} : x < p => x \div p = 0
      BY <1>2, SMTT(20)
    <3> QED BY <1>2, <3>1
  <2> QED BY <1>1, <2>1, <2>2, <2>3
<1>5. ASSUME NEW j \in 0 .. ByteBits - 1, j \in S PROVE j + 1 \in S
  <2> DEFINE l == ByteBits - (j + 1)
             p == PowerOf2[l]
             v == Value(BitAt, lo(j), j)
  <2>1. /\ l \in 0 .. ByteBits - 1 /\ l \in 0 .. WordBits - 1 /\ l \in 0 .. WordBits /\ l + 1 = ByteBits - j
        /\ from + l \in Nat /\ (from + l) + 1 = lo(j) /\ from + l = lo(j + 1) /\ j \in Nat
        /\ j + 1 \in 0 .. ByteBits
    BY <1>1
  <2> HIDE DEF l, lo
  <2>2. p \in Nat \ {0} /\ PowerOf2[l + 1] = p * 2
    BY <2>1, PowersAre
  <2>3. v = x \div PowerOf2[l + 1]
    BY <1>5, <2>1
  <2>4. Value(BitAt, lo(j + 1), j + 1) = BitAt[from + l] + 2 * v
    <3>1. Value(BitAt, from + l, j + 1) = BitAt[from + l] + 2 * Value(BitAt, (from + l) + 1, j)
      BY <2>1, BufferIs, BitValue
    <3> QED BY <2>1, <3>1
  <2>5. BitAt[from + l] = (x \div p) % 2
    BY <1>3, <2>1
  <2> HIDE DEF p, v
  <2>6. v = (x \div p) \div 2
    <3>1. 2 \in Nat \ {0} /\ x \in Nat
      BY <1>2
    <3>2. (x \div p) \div 2 = x \div (p * 2)
      BY <2>2, <3>1, DividesTwice
    <3> QED BY <2>2, <2>3, <3>2
  <2>7. x \div p = ((x \div p) % 2) + 2 * ((x \div p) \div 2)
    <3>1. x \div p \in Nat
      BY <1>2, <2>2, DivisionIs
    <3> QED BY <3>1, DivisionIs
  <2>8. Value(BitAt, lo(j + 1), j + 1) = x \div p
    BY <2>4, <2>5, <2>6, <2>7
  <2> QED BY <2>1, <2>8 DEF l, p
<1>6. ByteBits \in S
  <2> HIDE DEF S
  <2>1. \A j \in 0 .. ByteBits : j \in S
    BY <1>1, <1>4, <1>5, Stepwise
  <2> QED BY <1>1, <2>1
<1>7. lo(ByteBits) = from /\ PowerOf2[ByteBits - ByteBits] = 1 /\ x \div 1 = x
  BY <1>1, <1>2, ByteIs
<1> QED BY <1>6, <1>7 DEF x, from

----------------------------------------------------------------------------
(* What a read gives is the bits from the cursor on.                       *)

(* The bytes behind a byte are those of its number. *)
LEMMA BytesBehind ==
  ASSUME BufferTyped, NEW at \in Nat, NEW i \in Nat
  PROVE  /\ at \div ByteBits + i \in Nat
         /\ ByteAfter(at, i) = ByteAt[at \div ByteBits + i]
         /\ ByteAfter(at, i) = Value(BitAt, (at \div ByteBits + i) * ByteBits, ByteBits)
<1> DEFINE k == at \div ByteBits + i
<1>1. k \in Nat
  <2>1. at \div ByteBits \in Nat
    BY BitOffsetIs
  <2> QED BY <2>1
<1>2. Len(data) \in Nat
  BY DEF BufferTyped
<1>3. ByteAfter(at, i) = IF k + 1 <= Len(data) THEN data[k + 1] ELSE 0
  BY DEF ByteAfter
<1> HIDE DEF k
<1>4. ByteAfter(at, i) = ByteAt[k]
  BY <1>1, <1>2, <1>3 DEF ByteAt
<1>5. ByteAt[k] = Value(BitAt, k * ByteBits, ByteBits)
  BY <1>1, BytesAreBits
<1> QED BY <1>1, <1>4, <1>5 DEF k

(* The laws of values, for the bits of the buffer. *)
LEMMA BufferDivides ==
  ASSUME BufferTyped, NEW at \in Nat, NEW m \in 0 .. WordBits, NEW n \in Nat
  PROVE  /\ Value(BitAt, at, m + n) % PowerOf2[m] = Value(BitAt, at, m)
         /\ Value(BitAt, at, m + n) \div PowerOf2[m] = Value(BitAt, at + m, n)
<1>1. BitAt \in [Nat -> Bits]
  BY BufferIs
<1> HIDE DEF BitAt
<1> QED BY <1>1, ValueDivides

LEMMA BufferSplits ==
  ASSUME BufferTyped, NEW at \in Nat, NEW m \in 0 .. WordBits, NEW n \in Nat
  PROVE  /\ Value(BitAt, at, m + n) = Value(BitAt, at, m) + Value(BitAt, at + m, n) * PowerOf2[m]
         /\ PowerOf2[m] \in Nat \ {0}
         /\ Value(BitAt, at, m) \in Nat /\ Value(BitAt, at + m, n) \in Nat
<1>1. BitAt \in [Nat -> Nat]
  BY BufferIs
<1>2. Value(BitAt, at, m + n) = Value(BitAt, at, m) + PowerOf2[m] * Value(BitAt, at + m, n)
  BY <1>1, ValueSplits
<1>3. m \in Nat /\ at + m \in Nat
  BY WordIs
<1>4. PowerOf2[m] \in Nat \ {0} /\ Value(BitAt, at, m) \in Nat /\ Value(BitAt, at + m, n) \in Nat
  BY <1>1, <1>3, PowersAre, BitValue
<1>5. \A a, b \in Nat : a * b = b * a
  OBVIOUS
<1> QED BY <1>2, <1>4, <1>5

LEMMA BufferCut ==
  ASSUME BufferTyped, NEW at \in Nat, NEW low \in 0 .. WordBits,
         NEW n \in 0 .. WordBits, NEW all \in Nat, low + n <= all
  PROVE  Cut(Value(BitAt, at, all), low, n) = Value(BitAt, at + low, n)
<1>1. BitAt \in [Nat -> Bits]
  BY BufferIs
<1> QED BY <1>1, ValueCut

(* A word is a whole row of bits. *)
LEMMA WindowIsBits ==
  ASSUME BufferTyped, NEW at \in Nat
  PROVE  Window(at) = Value(BitAt, (at \div ByteBits) * ByteBits, WordBits)
<1> DEFINE j == at \div ByteBits
           d == [i \in 1 .. WordBytes |-> ByteAfter(at, i - 1)]
           e == [i \in 1 .. WordBytes |-> ByteAt[j + i - 1]]
<1>1. j \in Nat /\ WordBytes \in Nat
  BY BitOffsetIs, ByteAssumption
<1>2. ASSUME NEW i \in 1 .. WordBytes PROVE d[i] = e[i]
  <2>1. i - 1 \in Nat
    BY <1>1
  <2>2. ByteAfter(at, i - 1) = ByteAt[j + (i - 1)]
    BY <2>1, BytesBehind
  <2>3. j + (i - 1) = j + i - 1
    BY <1>1
  <2> HIDE DEF j
  <2> QED BY <2>2, <2>3
<1>3. d = e
  BY <1>2
<1>4. Window(at) = ValueIn(ByteAt, j, WordBytes, PowerOf2[ByteBits])
  BY <1>3 DEF Window, ValueIn
<1> HIDE DEF j, d, e
<1>5. ValueIn(ByteAt, j, WordBytes, PowerOf2[ByteBits]) = Value(BitAt, j * ByteBits, WordBytes * ByteBits)
  BY <1>1, BufferIs, BytesAreBits, ValuesGroup
<1> QED BY <1>4, <1>5 DEF WordBits, j

LEMMA PeekIsBits ==
  ASSUME BufferTyped, NEW at \in Nat, NEW n \in 0 .. WordBits
  PROVE  Peek(at, n) = Value(BitAt, at, n)
<1> DEFINE start == (at \div ByteBits) * ByteBits
           offset == at % ByteBits
           taken == WordBits - offset
           low == Window(at) \div PowerOf2[offset]
<1>1. /\ start \in Nat /\ offset \in 0 .. ByteBits - 1 /\ at = start + offset
      /\ ByteBits \in 0 .. WordBits /\ WordBits \in Nat
  BY BitOffsetIs, ByteIs
<1>2. offset \in 0 .. WordBits /\ taken \in 0 .. WordBits /\ offset + taken = WordBits /\ taken \in Nat
  BY <1>1
<1>3. Window(at) = Value(BitAt, start, WordBits)
  BY WindowIsBits
<1>4. Peek(at, n) = IF offset + n <= WordBits THEN low % PowerOf2[n]
                    ELSE low + Cut(ByteAfter(at, WordBytes), 0, n - taken) * PowerOf2[taken]
  BY DEF Peek
<1> HIDE DEF start, offset, taken
<1>5. Value(BitAt, start, offset + taken) \div PowerOf2[offset] = Value(BitAt, start + offset, taken)
  BY <1>1, <1>2, BufferDivides
<1>6. low = Value(BitAt, at, taken)
  BY <1>1, <1>2, <1>3, <1>5
<1> HIDE DEF low
<1>7. CASE offset + n <= WordBits
  <2>1. taken - n \in Nat /\ n + (taken - n) = taken
    BY <1>1, <1>2, <1>7
  <2> DEFINE rest == taken - n
  <2>2. rest \in Nat /\ n + rest = taken
    BY <2>1
  <2> HIDE DEF rest
  <2>3. Value(BitAt, at, n + rest) % PowerOf2[n] = Value(BitAt, at, n)
    BY <2>2, BufferDivides
  <2> QED BY <1>4, <1>6, <1>7, <2>2, <2>3
<1>8. CASE ~(offset + n <= WordBits)
  <2> DEFINE more == n - taken
  <2>1. more \in 0 .. ByteBits /\ more \in 0 .. WordBits /\ more \in Nat /\ taken + more = n
        /\ 0 \in 0 .. WordBits /\ ByteBits \in Nat /\ 0 + more <= ByteBits
    BY <1>1, <1>2, <1>8
  <2> HIDE DEF more
  <2>2. ByteAfter(at, WordBytes) = Value(BitAt, at + taken, ByteBits)
    <3>1. WordBytes \in Nat
      BY ByteAssumption
    <3>2. ByteAfter(at, WordBytes) = Value(BitAt, (at \div ByteBits + WordBytes) * ByteBits, ByteBits)
      BY <3>1, BytesBehind
    <3>3. at \div ByteBits \in Nat
      BY BitOffsetIs
    <3>4. (at \div ByteBits + WordBytes) * ByteBits = start + WordBits
      <4> DEFINE q == at \div ByteBits
      <4>1. q \in Nat
        BY <3>3
      <4> HIDE DEF q
      <4>2. (q + WordBytes) * ByteBits = q * ByteBits + WordBytes * ByteBits
        BY <3>1, <4>1, ByteIs, SMTT(20)
      <4> QED BY <4>2 DEF q, start, WordBits
    <3>5. start + WordBits = at + taken
      BY <1>1, <1>2
    <3> QED BY <3>2, <3>4, <3>5
  <2>3. at + taken \in Nat /\ (at + taken) + 0 = at + taken
    BY <1>2
  <2>4. Cut(Value(BitAt, at + taken, ByteBits), 0, more) = Value(BitAt, (at + taken) + 0, more)
    BY <2>1, <2>3, BufferCut
  <2>5. Value(BitAt, at, taken + more)
          = Value(BitAt, at, taken) + Value(BitAt, at + taken, more) * PowerOf2[taken]
    BY <1>2, <2>1, BufferSplits
  <2>8. Peek(at, n) = low + Value(BitAt, at + taken, more) * PowerOf2[taken]
    BY <1>4, <1>8, <2>2, <2>3, <2>4 DEF more
  <2> QED BY <1>6, <2>1, <2>5, <2>8
<1> QED BY <1>7, <1>8

LEMMA PeekU8IsBits ==
  ASSUME BufferTyped, NEW at \in Nat
  PROVE  PeekU8(at) = Value(BitAt, at, ByteBits)
<1> DEFINE q == at \div ByteBits
           start == q * ByteBits
           offset == at % ByteBits
<1>1. /\ q \in Nat /\ start \in Nat /\ offset \in 0 .. ByteBits - 1 /\ at = start + offset
      /\ ByteBits \in 0 .. WordBits /\ ByteBits \in Nat /\ offset \in 0 .. WordBits
  BY BitOffsetIs, ByteIs
<1>2. /\ q + 0 = q /\ (q + 1) * ByteBits = start + ByteBits
  BY <1>1, SMTT(20)
<1>3. ByteAfter(at, 0) = Value(BitAt, start, ByteBits)
  <2>1. 0 \in Nat
    OBVIOUS
  <2>2. ByteAfter(at, 0) = Value(BitAt, (q + 0) * ByteBits, ByteBits)
    BY <2>1, BytesBehind
  <2> HIDE DEF q
  <2> QED BY <1>2, <2>2
<1>4. ByteAfter(at, 1) = Value(BitAt, start + ByteBits, ByteBits)
  <2>1. 1 \in Nat
    OBVIOUS
  <2>2. ByteAfter(at, 1) = Value(BitAt, (q + 1) * ByteBits, ByteBits)
    BY <2>1, BytesBehind
  <2> HIDE DEF q, start
  <2> QED BY <1>2, <2>2
<1>5. PeekU8(at) = IF offset = 0 THEN ByteAfter(at, 0)
                   ELSE Cut(ByteAfter(at, 0) + ByteAfter(at, 1) * PowerOf2[ByteBits], offset, ByteBits)
  BY DEF PeekU8
<1> HIDE DEF q, start, offset
<1>6. CASE offset = 0
  BY <1>1, <1>3, <1>5, <1>6
<1>7. CASE offset # 0
  <2>1. Value(BitAt, start, ByteBits + ByteBits)
          = Value(BitAt, start, ByteBits) + Value(BitAt, start + ByteBits, ByteBits) * PowerOf2[ByteBits]
    BY <1>1, BufferSplits
  <2> DEFINE both == ByteBits + ByteBits
  <2>4. both \in Nat /\ offset + ByteBits <= both
    BY <1>1
  <2>5. ByteAfter(at, 0) + ByteAfter(at, 1) * PowerOf2[ByteBits] = Value(BitAt, start, both)
    BY <1>3, <1>4, <2>1
  <2> HIDE DEF both
  <2>6. Cut(Value(BitAt, start, both), offset, ByteBits) = Value(BitAt, start + offset, ByteBits)
    BY <1>1, <2>4, BufferCut
  <2> QED BY <1>1, <1>5, <1>7, <2>5, <2>6
<1> QED BY <1>6, <1>7

LEMMA PeekBytesIsBits ==
  ASSUME BufferTyped, NEW at \in Nat, NEW k \in Nat
  PROVE  PeekBytes(at, k) = Value(BitAt, at + k * ByteBits, ByteBits)
<1> DEFINE q == at \div ByteBits
           start == (q + k) * ByteBits
           shift == at % ByteBits
           kept == ByteBits - shift
<1>1. /\ q \in Nat /\ shift \in 0 .. ByteBits - 1 /\ at = q * ByteBits + shift /\ q * ByteBits \in Nat
      /\ ByteBits \in 0 .. WordBits /\ ByteBits \in Nat /\ shift \in 0 .. WordBits
  BY BitOffsetIs, ByteIs, SMTT(30)
<1>2. kept \in Nat /\ kept \in 0 .. WordBits /\ shift + kept = ByteBits /\ kept + shift = ByteBits
  <2> HIDE DEF shift
  <2> QED BY <1>1, ByteIs
<1>3. /\ start \in Nat /\ start = q * ByteBits + k * ByteBits /\ k * ByteBits \in Nat
      /\ (q + (k + 1)) * ByteBits = start + ByteBits
  BY <1>1, SMTT(20)
<1>4. ByteAfter(at, k) = Value(BitAt, start, ByteBits)
  BY BytesBehind
<1>5. ByteAfter(at, k + 1) = Value(BitAt, start + ByteBits, ByteBits)
  <2>1. k + 1 \in Nat
    OBVIOUS
  <2>2. ByteAfter(at, k + 1) = Value(BitAt, (q + (k + 1)) * ByteBits, ByteBits)
    BY <2>1, BytesBehind
  <2> HIDE DEF q, start
  <2> QED BY <1>3, <2>2
<1>6. PeekBytes(at, k) = IF shift = 0 THEN ByteAfter(at, k)
                         ELSE Cut(ByteAfter(at, k), shift, kept)
                              + Cut(ByteAfter(at, k + 1), 0, shift) * PowerOf2[kept]
  BY DEF PeekBytes
<1> DEFINE here == at + k * ByteBits
<1>7. here = start + shift /\ here \in Nat
  <2> HIDE DEF q, start, shift
  <2> QED BY <1>1, <1>3
<1> HIDE DEF q, start, shift, kept, here
<1>8. CASE shift = 0
  BY <1>3, <1>4, <1>6, <1>7, <1>8 DEF here
<1>9. CASE shift # 0
  <2>1. Cut(Value(BitAt, start, ByteBits), shift, kept) = Value(BitAt, here, kept)
    <3>1. shift + kept <= ByteBits
      BY <1>1, <1>2
    <3>2. Cut(Value(BitAt, start, ByteBits), shift, kept) = Value(BitAt, start + shift, kept)
      BY <1>1, <1>2, <1>3, <3>1, BufferCut
    <3> QED BY <1>7, <3>2
  <2>2. Cut(Value(BitAt, start + ByteBits, ByteBits), 0, shift) = Value(BitAt, here + kept, shift)
    <3> DEFINE next == start + ByteBits
    <3>1. next \in Nat /\ next + 0 = here + kept /\ 0 + shift <= ByteBits /\ 0 \in 0 .. WordBits
          /\ shift \in 0 .. WordBits /\ ByteBits \in Nat
      BY <1>1, <1>2, <1>3, <1>7, ByteIs
    <3> HIDE DEF next
    <3>2. Cut(Value(BitAt, next, ByteBits), 0, shift) = Value(BitAt, next + 0, shift)
      BY <3>1, BufferCut
    <3> QED BY <3>1, <3>2 DEF next
  <2>3. Value(BitAt, here, kept + shift)
          = Value(BitAt, here, kept) + Value(BitAt, here + kept, shift) * PowerOf2[kept]
    <3>1. shift \in Nat
      BY <1>1
    <3> QED BY <1>2, <1>7, <3>1, BufferSplits
  <2> QED BY <1>2, <1>4, <1>5, <1>6, <1>9, <2>1, <2>2, <2>3 DEF here
<1> QED BY <1>8, <1>9

(* The definition agrees with it inside the buffer. *)
LEMMA NumberIsBits ==
  ASSUME BufferTyped, NEW at \in Nat, NEW n \in Nat, at + n <= TotalBits
  PROVE  Number(at, n) = Value(BitAt, at, n)
<1> DEFINE d == [i \in 1 .. n |-> Bit(at + i - 1)]
           e == [i \in 1 .. n |-> BitAt[at + i - 1]]
<1>1. TotalBits \in Nat
  <2>1. Len(data) \in Nat
    BY DEF BufferTyped
  <2> QED BY <2>1, ByteIs, ProductIn DEF TotalBits
<1>2. ASSUME NEW i \in 1 .. n PROVE d[i] = e[i]
  <2>1. at + i - 1 \in Nat /\ at + i - 1 < TotalBits
    BY <1>1
  <2> QED BY <2>1 DEF BitAt
<1>3. d = e
  BY <1>2
<1> QED BY <1>3 DEF Number, Value, ValueIn

(* A bit of a word that was looked at is the bit of the buffer. *)
LEMMA BitOfWord ==
  ASSUME BufferTyped, NEW at \in Nat, NEW n \in 0 .. WordBits, NEW i \in 0 .. n - 1,
         at + n <= TotalBits
  PROVE  Cut(Peek(at, n), i, 1) = Bit(at + i) /\ at + i < TotalBits
<1>1. i \in 0 .. WordBits /\ 1 \in 0 .. WordBits /\ n \in Nat /\ i + 1 <= n /\ at + i \in Nat
      /\ i \in Nat
  BY ByteIs
<1>2. Cut(Value(BitAt, at, n), i, 1) = Value(BitAt, at + i, 1)
  BY <1>1, BufferCut
<1>3. Value(BitAt, at + i, 1) = BitAt[at + i]
  <2> DEFINE l == at + i
  <2>1. l \in Nat /\ l + 1 \in Nat /\ BitAt \in [Nat -> Nat] /\ 0 \in Nat
    BY <1>1, BufferIs
  <2> HIDE DEF l
  <2>2. Value(BitAt, l, 0 + 1) = BitAt[l] + 2 * Value(BitAt, l + 1, 0)
    BY <2>1, BitValue
  <2>3. Value(BitAt, l + 1, 0) = 0
    BY <2>1, BitValue
  <2>4. BitAt[l] \in Nat
    BY <2>1
  <2> QED BY <2>2, <2>3, <2>4 DEF l
<1>4. TotalBits \in Nat
  <2>1. Len(data) \in Nat
    BY DEF BufferTyped
  <2> QED BY <2>1, ByteIs, ProductIn DEF TotalBits
<1>5. at + i < TotalBits
  BY <1>1, <1>4
<1>6. BitAt[at + i] = Bit(at + i)
  BY <1>1, <1>5 DEF BitAt
<1> QED BY <1>2, <1>3, <1>5, <1>6, PeekIsBits

(* An operand that fits is read alike in one look and step by step. *)
LEMMA OperandsAgree ==
  ASSUME BufferTyped, NEW at \in Nat, TotalBits - at >= LongestOperand
  PROVE  OperandAtOnce(at) = OperandStepwise(at)
<1> DEFINE word == Peek(at, LongestOperand)
           Looked == {i \in 0 .. 3 : Cut(word, i, 1) = 1} \cup {4}
           Walked == {i \in 0 .. 3 : at + i < TotalBits /\ Bit(at + i) = 1} \cup {4}
           selector == Min(Looked)
           prefix == IF selector < 4 THEN selector + 1 ELSE 4
           payload == PathOperand[selector]
           start == at + prefix
<1>1. TotalBits \in Nat
  <2>1. Len(data) \in Nat
    BY DEF BufferTyped
  <2> QED BY <2>1, ByteIs, ProductIn DEF TotalBits
<1>2. PathOperand[4] \in Nat /\ LongestOperand \in Nat /\ LongestOperand >= 4 /\ LongestOperand \in 0 .. WordBits
      /\ LongestOperand = 4 + PathOperand[4]
  BY OperandAssumption, ByteIs DEF LongestOperand
<1>3. at + LongestOperand <= TotalBits
  BY <1>1, <1>2
<1>4. ASSUME NEW i \in 0 .. 3 PROVE Cut(word, i, 1) = Bit(at + i) /\ at + i < TotalBits
  <2>1. i \in 0 .. LongestOperand - 1
    BY <1>2
  <2> QED BY <1>2, <1>3, <2>1, BitOfWord
<1> HIDE DEF word
<1>5. Looked = Walked
  BY <1>4
<1>6. selector \in 0 .. 4
  <2>1. Looked \subseteq Nat /\ Looked # {} /\ Looked \subseteq 0 .. 4
    OBVIOUS
  <2> HIDE DEF Looked
  <2> QED BY <2>1, MinIsLeast
<1>7. /\ OperandAtOnce(at) = [end |-> at + prefix + PathOperand[selector],
                              value |-> Cut(word, prefix, PathOperand[selector])]
      /\ OperandStepwise(at) = OperandIn(at, Min(Walked))
  BY DEF OperandAtOnce, OperandStepwise, word
<1>8. OperandStepwise(at) = OperandIn(at, selector)
  BY <1>5, <1>7
<1> HIDE DEF Looked, Walked, selector
<1>9. payload \in Nat /\ prefix \in 0 .. 4 /\ prefix + payload <= LongestOperand
  <2>1. CASE selector = 4
    BY <1>2, <2>1
  <2>2. CASE selector # 4
    <3>1. selector \in 0 .. 3 /\ prefix = selector + 1
      BY <1>6, <2>2
    <3> QED BY <3>1, OperandAssumption
  <2> QED BY <2>1, <2>2
<1>10. Advance(at, prefix) = start /\ Advance(start, payload) = start + payload
       /\ start \in Nat /\ start + payload \in Nat
  <2>1. prefix <= TotalBits - at /\ payload <= TotalBits - (at + prefix) /\ at # Failed /\ at + prefix # Failed
    <3> HIDE DEF prefix, payload
    <3> QED BY <1>1, <1>2, <1>3, <1>9 DEF Failed
  <2>2. at + prefix \in Nat /\ (at + prefix) + payload \in Nat
    <3> HIDE DEF prefix, payload
    <3> QED BY <1>9
  <2> QED BY <2>1, <2>2 DEF Advance
<1>11. OperandIn(at, selector) = [end |-> start + payload, value |-> Peek(start, payload)]
  <2>1. start + payload # Failed
    BY <1>10 DEF Failed
  <2> HIDE DEF start, payload
  <2>2. Advance(at, IF selector < 4 THEN selector + 1 ELSE 4) = start
    BY <1>10
  <2> HIDE DEF prefix
  <2> QED BY <1>10, <2>1, <2>2 DEF OperandIn, payload
<1>12. Cut(word, prefix, payload) = Peek(start, payload)
  <2> HIDE DEF prefix, payload
  <2>1. prefix \in 0 .. WordBits /\ payload \in 0 .. WordBits /\ LongestOperand \in Nat
    BY <1>2, <1>9, ByteIs
  <2>2. Cut(Value(BitAt, at, LongestOperand), prefix, payload) = Value(BitAt, at + prefix, payload)
    BY <1>9, <2>1, BufferCut
  <2>3. word = Value(BitAt, at, LongestOperand)
    BY <1>2, PeekIsBits DEF word
  <2>4. Peek(start, payload) = Value(BitAt, start, payload)
    <3> HIDE DEF start
    <3> QED BY <1>10, <2>1, PeekIsBits
  <2> QED BY <2>2, <2>3, <2>4
<1>13. at + prefix + payload = start + payload
  OBVIOUS
<1> HIDE DEF start, prefix
<1> QED BY <1>7, <1>8, <1>11, <1>12, <1>13
=============================================================================
