-------------------------- MODULE DemoReadingProofs --------------------------
(***************************************************************************)
(* Proofs about DemoReading: whatever is recorded and wherever the file is *)
(* cut, the commands read are those written, the index is what their       *)
(* headers say, a completed inspection accounts for the whole file, and    *)
(* the messages of a packet are those sent.                                *)
(*                                                                         *)
(* The argument goes from the bytes up.  The digits of a number compose to *)
(* the number again (DigitsRoundTrip of BitReaderProofs), so a varint      *)
(* reads back whole, or as Nowhere where it is cut (VarintRead); hence a   *)
(* header does (HeaderRead), and a call of next at the start of a command  *)
(* gives that command, fails at it or meets the end of the file            *)
(* (CallReads).  The file is laid out as written                           *)
(* (LaidOut, an invariant for nothing writes it), every offset the client  *)
(* can hold is the start of a command, and the iterator stands where its   *)
(* count says (ReadsInOrder).  With this the two passes are followed       *)
(* command by command: the index built so far is that of a prefix          *)
(* (IndexBuilt), and so is the report (Inspected).                         *)
(*                                                                         *)
(* In a packet the same is done bit by bit: a number is read where its     *)
(* bits are (NumberRead), so a ubitvar and a varint are (UBitVarRead,      *)
(* VarintBitsRead) and a message is (MessageRead); a decoded body is the   *)
(* one recorded (BodyRead), and the bits in it are those of the messages,  *)
(* one behind the other (BodyIs).  The iterator of the messages then       *)
(* stands behind those it gave (MessagesInOrder).                          *)
(***************************************************************************)
EXTENDS DemoReading, BitReaderProofs, FiniteSetTheorems, SequenceTheorems, TLAPS

----------------------------------------------------------------------------
(* Bytes.                                                                  *)

LEMMA BasesAre ==
  /\ Byte \in Nat /\ Byte = 2 * More
  /\ More \in Nat /\ More >= 2
  /\ U32 \in Nat /\ U32 = 2 * PowerOf2[HalfBits - 1] /\ PowerOf2[HalfBits - 1] \in Nat \ {0}
<1>1. ByteBits - 2 \in 0 .. WordBits - 1 /\ ByteBits - 1 \in 0 .. WordBits - 1 /\ HalfBits - 1 \in 0 .. WordBits - 1
      /\ (ByteBits - 2) + 1 = ByteBits - 1 /\ (ByteBits - 1) + 1 = ByteBits /\ (HalfBits - 1) + 1 = HalfBits
  BY WordIs, ByteAssumption, VarintAssumption, FileAssumption
<1>2. /\ PowerOf2[ByteBits - 1] = 2 * PowerOf2[ByteBits - 2] /\ PowerOf2[ByteBits] = 2 * PowerOf2[ByteBits - 1]
      /\ PowerOf2[HalfBits] = 2 * PowerOf2[HalfBits - 1]
  BY <1>1, PowersAre
<1>3. PowerOf2[ByteBits - 2] \in Nat \ {0} /\ PowerOf2[HalfBits - 1] \in Nat \ {0}
  <2>1. ByteBits - 2 \in 0 .. WordBits /\ HalfBits - 1 \in 0 .. WordBits
    BY <1>1, WordIs
  <2> QED BY <2>1, PowersAre
<1> QED BY <1>2, <1>3 DEF Byte, More, U32

----------------------------------------------------------------------------
(* Varints.                                                                *)

(* The groups of a u32: at most as many as the reader takes, each but the  *)
(* last with the bit that says that another follows; they make the number. *)
LEMMA VarintIs ==
  ASSUME NEW n \in Nat, n < U32
  PROVE  /\ Varint(n) \in Seq(Nat)
         /\ Len(Varint(n)) \in 1 .. Varint32Bytes
         /\ \A k \in 1 .. Len(Varint(n)) : Varint(n)[k] < More <=> k = Len(Varint(n))
         /\ \A digits : /\ Len(digits) = Len(Varint(n))
                        /\ \A k \in 1 .. Len(Varint(n)) : digits[k] = Varint(n)[k] % More
                        => Composed(digits, More) = n
<1> DEFINE count == Varint32Bytes
           rest == Quotients(n, More, count)
           Ends(k) == rest[k] = 0 /\ \A j \in 1 .. k - 1 : rest[j] # 0
           rounds == CHOOSE k \in 1 .. count : Ends(k)
           v == Varint(n)
<1>1. count \in Nat \ {0} /\ More \in Nat \ {0} /\ ByteBits - 1 \in Nat
  BY VarintAssumption, ByteAssumption, BasesAre
<1>2. n < PowerOf2[count * (ByteBits - 1)]
  <2> DEFINE w == count * (ByteBits - 1)
  <2>1. w \in Nat /\ HalfBits \in Nat /\ HalfBits <= w /\ w <= WordBits
    BY <1>1, VarintAssumption, FileAssumption, SMTT(20)
  <2>2. HalfBits + (w - HalfBits) = w /\ w - HalfBits \in Nat /\ w - HalfBits \in 0 .. WordBits
    <3> HIDE DEF w
    <3> QED BY <2>1, WordIs
  <2>3. PowerOf2[w] = U32 * PowerOf2[w - HalfBits]
    <3> HIDE DEF w
    <3> QED BY <2>1, <2>2, PowersMultiply DEF U32
  <2>4. PowerOf2[w - HalfBits] \in Nat \ {0}
    <3> HIDE DEF w
    <3> QED BY <2>2, PowersAre
  <2>5. \A a, b \in Nat \ {0} : a <= a * b
    BY SMTT(20)
  <2>6. U32 \in Nat \ {0}
    BY BasesAre
  <2>7. U32 <= PowerOf2[w] /\ PowerOf2[w] \in Int
    <3> HIDE DEF w
    <3> QED BY <2>3, <2>4, <2>5, <2>6
  <2> HIDE DEF w
  <2>8. n < PowerOf2[w]
    BY <2>6, <2>7
  <2> QED BY <2>8 DEF w
<1>3. rest[count] = 0
  BY <1>1, <1>2, FileAssumption, QuotientsEnd DEF More
<1>4. rest[0] = n /\ rest \in [0 .. count -> Nat]
  <2>1. rest[0] = n
    BY <1>1, QuotientsAre
  <2>2. rest \in [0 .. count -> Nat]
    BY <1>1, QuotientsAre
  <2> QED BY <2>1, <2>2
<1> HIDE DEF rest
<1>5. \E k \in 1 .. count : Ends(k)
  <2> DEFINE Zero == {k \in 1 .. count : rest[k] = 0}
  <2>1. Zero \subseteq Nat /\ Zero # {}
    BY <1>1, <1>3
  <2>2. PICK least \in Zero : \A k \in Zero : least <= k
    <3> HIDE DEF Zero
    <3> QED BY <2>1, LeastElement
  <2>3. ASSUME NEW j \in 1 .. least - 1 PROVE rest[j] # 0
    <3>0. least \in 1 .. count
      BY <2>2
    <3>1. j \in 1 .. count /\ ~(least <= j)
      BY <1>1, <3>0
    <3> QED BY <2>2, <3>1
  <2> QED BY <2>2, <2>3
<1>6. rounds \in 1 .. count /\ Ends(rounds)
  <2> HIDE DEF Ends
  <2> QED BY <1>5
<1>7. v = [k \in 1 .. rounds |-> (rest[k - 1] % More) + IF k < rounds THEN More ELSE 0]
  BY DEF Varint, rest
<1> HIDE DEF rounds, v
<1>8. ASSUME NEW k \in 1 .. rounds
      PROVE  /\ v[k] = (rest[k - 1] % More) + IF k < rounds THEN More ELSE 0
             /\ rest[k - 1] \in Nat /\ rest[k - 1] % More \in 0 .. More - 1
  <2>1. k - 1 \in 0 .. count
    BY <1>1, <1>6
  <2>2. rest[k - 1] \in Nat
    BY <1>4, <2>1
  <2>3. rest[k - 1] % More \in 0 .. More - 1
    BY <1>1, <2>2, DivisionIs
  <2> QED BY <1>7, <2>2, <2>3
<1>9. v \in Seq(Nat) /\ Len(v) = rounds
  <2>1. \A k \in 1 .. rounds : v[k] \in Nat
    BY <1>1, <1>8
  <2>2. rounds \in Nat /\ v = [k \in 1 .. rounds |-> v[k]]
    BY <1>6, <1>7
  <2> QED BY <2>1, <2>2
<1>10. \A k \in 1 .. rounds : v[k] < More <=> k = rounds
  BY <1>1, <1>6, <1>8
<1>11. ASSUME NEW digits, Len(digits) = rounds, \A k \in 1 .. rounds : digits[k] = v[k] % More
       PROVE  Composed(digits, More) = n
  <2>1. ASSUME NEW k \in 1 .. rounds PROVE v[k] % More = rest[k - 1] % More
    <3> DEFINE d == rest[k - 1] % More
    <3>1. d \in 0 .. More - 1 /\ (v[k] = d \/ v[k] = d + More)
      BY <1>1, <1>8
    <3> HIDE DEF d
    <3>2. More * 0 + d = d /\ More * 1 + d = d + More
      BY <1>1, <3>1
    <3>3. (More * 0 + d) % More = d /\ (More * 1 + d) % More = d
      BY <1>1, <3>1, RemainderAndQuotient
    <3>4. d % More = d /\ (d + More) % More = d
      BY <3>2, <3>3
    <3>5. v[k] % More = d
      BY <3>1, <3>4
    <3> QED BY <3>5 DEF d
  <2>2. \A k \in 1 .. rounds : digits[k] = rest[k - 1] % More
    BY <1>11, <2>1
  <2>3. rounds \in 0 .. count /\ rest[rounds] = 0
    BY <1>6
  <2> QED BY <1>1, <1>11, <2>2, <2>3, DigitsMake DEF rest
<1> QED BY <1>6, <1>9, <1>10, <1>11 DEF v

----------------------------------------------------------------------------
(* Pieces put together.                                                    *)

Pieces(p) == Len(p) \in Nat /\ \A k \in 1 .. Len(p) : p[k] \in Seq(Nat)

LEMMA JoinedIs ==
  ASSUME NEW pieces, Pieces(pieces)
  PROVE  /\ Joined(pieces) \in [0 .. Len(pieces) -> Seq(Nat)]
         /\ Joined(pieces)[0] = <<>>
         /\ \A k \in 1 .. Len(pieces) : Joined(pieces)[k] = Joined(pieces)[k - 1] \o pieces[k]
<1> DEFINE n == Len(pieces)
           V == Seq(Nat)
           start == <<>>
           step == [k \in 1 .. n |-> [v \in V |-> v \o pieces[k]]]
           R(g) == g = [k \in 0 .. Len(pieces) |-> IF k = 0 THEN <<>> ELSE g[k - 1] \o pieces[k]]
           upto == Joined(pieces)
<1>1. n \in Nat /\ start \in V /\ \A k \in 1 .. n : pieces[k] \in V
  BY DEF Pieces
<1>2. step \in [1 .. n -> [V -> V]]
  <2>1. ASSUME NEW k \in 1 .. n, NEW v \in V PROVE v \o pieces[k] \in V
    BY <1>1
  <2> QED BY <2>1
<1>3. PICK f : Recurses(f, n, V, start, step)
  <2> HIDE DEF n, V, start, step
  <2> QED BY <1>1, <1>2, Recursion
<1>4. f \in [0 .. n -> V] /\ f[0] = <<>>
  BY <1>3 DEF Recurses
<1>5. ASSUME NEW k \in 0 .. n, k # 0 PROVE f[k] = f[k - 1] \o pieces[k]
  <2>1. k \in 1 .. n /\ k - 1 \in 0 .. n
    BY <1>1, <1>5
  <2>2. f[k - 1] \in V
    BY <1>4, <2>1
  <2>3. step[k][f[k - 1]] = f[k - 1] \o pieces[k]
    <3> HIDE DEF V
    <3> QED BY <2>1, <2>2
  <2> HIDE DEF step
  <2> QED BY <1>3, <2>1, <2>3 DEF Recurses
<1>6. R(f)
  <2> HIDE DEF step, V
  <2> QED BY <1>4, <1>5
<1>7. upto = CHOOSE g : R(g)
  BY DEF Joined
<1>8. R(upto)
  <2> HIDE DEF R, upto
  <2> QED BY <1>6, <1>7
<1> HIDE DEF step, upto, V
<1>9. DOMAIN upto = 0 .. n /\ upto[0] = <<>>
  BY <1>1, <1>8
<1>10. ASSUME NEW k \in 1 .. n PROVE upto[k] = upto[k - 1] \o pieces[k]
  <2>1. k \in 0 .. n /\ k # 0
    BY <1>1
  <2> QED BY <1>8, <2>1
<1> DEFINE S == {k \in 0 .. n : upto[k] \in V}
<1>11. 0 \in S
  BY <1>1, <1>9
<1>12. ASSUME NEW k \in 0 .. n - 1, k \in S PROVE k + 1 \in S
  <2>1. k + 1 \in 1 .. n /\ (k + 1) - 1 = k /\ k + 1 \in 0 .. n
    BY <1>1
  <2>2. upto[k + 1] = upto[k] \o pieces[k + 1]
    BY <1>10, <2>1
  <2>3. upto[k] \in V /\ pieces[k + 1] \in V
    BY <1>1, <1>12, <2>1
  <2>4. upto[k + 1] \in V
    BY <2>2, <2>3 DEF V
  <2> QED BY <2>1, <2>4
<1>13. \A k \in 0 .. n : k \in S
  <2> HIDE DEF S, n
  <2> QED BY <1>1, <1>11, <1>12, Stepwise
<1>14. upto \in [0 .. n -> V]
  BY <1>8, <1>9, <1>13
<1> QED BY <1>9, <1>10, <1>14 DEF upto, V

(* A piece, and all there is before it, keep their place.                  *)
LEMMA JoinedKeeps ==
  ASSUME NEW pieces, Pieces(pieces), NEW j \in 0 .. Len(pieces), NEW k \in j .. Len(pieces)
  PROVE  /\ Len(Joined(pieces)[j]) <= Len(Joined(pieces)[k])
         /\ \A i \in 1 .. Len(Joined(pieces)[j]) : Joined(pieces)[k][i] = Joined(pieces)[j][i]
<1> DEFINE upto == Joined(pieces)
           n == Len(pieces)
           Kept(m) == /\ Len(upto[j]) <= Len(upto[m])
                      /\ \A i \in 1 .. Len(upto[j]) : upto[m][i] = upto[j][i]
           S == {m \in 0 .. n - j : Kept(j + m)}
<1>1. upto \in [0 .. n -> Seq(Nat)] /\ \A m \in 1 .. n : upto[m] = upto[m - 1] \o pieces[m]
  BY JoinedIs
<1>2. n \in Nat /\ \A m \in 1 .. n : pieces[m] \in Seq(Nat)
  BY DEF Pieces
<1> HIDE DEF upto
<1>3. 0 \in S
  BY <1>1, <1>2
<1>4. ASSUME NEW m \in 0 .. (n - j) - 1, m \in S PROVE m + 1 \in S
  <2>1. j + m \in 0 .. n /\ j + (m + 1) \in 1 .. n /\ (j + (m + 1)) - 1 = j + m /\ m + 1 \in 0 .. n - j
    BY <1>2
  <2>2. upto[j + (m + 1)] = upto[j + m] \o pieces[j + (m + 1)]
    BY <1>1, <2>1
  <2>3. upto[j + m] \in Seq(Nat) /\ pieces[j + (m + 1)] \in Seq(Nat) /\ upto[j] \in Seq(Nat)
    BY <1>1, <1>2, <2>1
  <2>4. Kept(j + m)
    BY <1>4
  <2>5. ASSUME NEW s \in Seq(Nat), NEW t \in Seq(Nat), NEW u \in Seq(Nat),
               Len(u) <= Len(s), \A i \in 1 .. Len(u) : s[i] = u[i]
        PROVE  Len(u) <= Len(s \o t) /\ \A i \in 1 .. Len(u) : (s \o t)[i] = u[i]
    <3>1. Len(s \o t) = Len(s) + Len(t) /\ Len(s) \in Nat /\ Len(t) \in Nat /\ Len(u) \in Nat
      BY <2>5
    <3>2. ASSUME NEW i \in 1 .. Len(u) PROVE (s \o t)[i] = u[i]
      <4>1. i \in 1 .. Len(s)
        BY <2>5, <3>1
      <4>2. (s \o t)[i] = s[i]
        BY <3>1, <4>1
      <4>3. s[i] = u[i]
        BY <2>5
      <4> QED BY <4>2, <4>3
    <3>3. Len(u) <= Len(s \o t)
      BY <2>5, <3>1
    <3> QED BY <3>2, <3>3
  <2>6. /\ Len(upto[j]) <= Len(upto[j + m] \o pieces[j + (m + 1)])
        /\ \A i \in 1 .. Len(upto[j]) : (upto[j + m] \o pieces[j + (m + 1)])[i] = upto[j][i]
    <3>1. Len(upto[j]) <= Len(upto[j + m]) /\ \A i \in 1 .. Len(upto[j]) : upto[j + m][i] = upto[j][i]
      BY <2>4
    <3> QED BY <2>3, <2>5, <3>1
  <2>7. Kept(j + (m + 1))
    BY <2>2, <2>6
  <2> QED BY <2>1, <2>7
<1>5. \A m \in 0 .. n - j : m \in S
  <2>1. n - j \in Nat
    BY <1>2
  <2> HIDE DEF S
  <2> QED BY <1>3, <1>4, <2>1, Stepwise
<1>6. k - j \in 0 .. n - j /\ j + (k - j) = k
  BY <1>2
<1>7. Kept(k)
  BY <1>5, <1>6
<1> QED BY <1>7 DEF upto

----------------------------------------------------------------------------
(* What is recorded is bytes.                                              *)

LEMMA BitsTyped ==
  ASSUME NEW n \in Nat, NEW width \in Nat
  PROVE  BitsOf(n, width) \in Seq(Nat) /\ Len(BitsOf(n, width)) = width
  BY DigitsAre DEF BitsOf

LEMMA BitsOfBytesTyped ==
  ASSUME NEW bytes \in Seq(Nat)
  PROVE  BitsOfBytes(bytes) \in Seq(Nat)
<1> DEFINE pieces == [k \in DOMAIN bytes |-> BitsOf(bytes[k], ByteBits)]
<1>1. Len(pieces) = Len(bytes) /\ Len(bytes) \in Nat /\ DOMAIN bytes = 1 .. Len(bytes)
  OBVIOUS
<1>2. ASSUME NEW k \in 1 .. Len(bytes) PROVE pieces[k] \in Seq(Nat)
  <2>1. bytes[k] \in Nat /\ ByteBits \in Nat /\ pieces[k] = BitsOf(bytes[k], ByteBits)
    BY ByteAssumption
  <2> QED BY <2>1, BitsTyped
<1> HIDE DEF pieces
<1>3. Pieces(pieces)
  BY <1>1, <1>2 DEF Pieces
<1>4. Joined(pieces) \in [0 .. Len(pieces) -> Seq(Nat)]
  BY <1>3, JoinedIs
<1>5. Joined(pieces)[Len(bytes)] \in Seq(Nat)
  BY <1>1, <1>4
<1> QED BY <1>5 DEF BitsOfBytes, pieces

LEMMA UBitVarBitsTyped ==
  ASSUME NEW n \in Nat, Forms(n) # {}
  PROVE  UBitVarBitsOf(n) \in Seq(Nat)
<1> DEFINE form == Min(Forms(n))
           width == LowBits + UBitVarMore[form]
           bits == BitsOf(n, width)
<1>1. form \in 0 .. 3
  <2>1. Forms(n) \subseteq Nat /\ Forms(n) \subseteq 0 .. 3
    BY DEF Forms
  <2>2. PICK least \in Forms(n) : \A k \in Forms(n) : least <= k
    BY <2>1, LeastElement
  <2>3. form \in Forms(n)
    BY <2>2 DEF Min
  <2> QED BY <2>1, <2>3
<1> HIDE DEF form
<1>2. LowBits \in Nat /\ width \in Nat
  BY <1>1, OperandAssumption DEF LowBits
<1>3. bits \in Seq(Nat) /\ Len(bits) = width
  BY <1>2, BitsTyped
<1>4. BitsOf(form, 2) \in Seq(Nat)
  BY <1>1, BitsTyped, SMTT(30)
<1> HIDE DEF bits
<1>5. SubSeq(bits, 1, LowBits) \in Seq(Nat) /\ SubSeq(bits, LowBits + 1, Len(bits)) \in Seq(Nat)
  <2>1. LowBits <= Len(bits)
    <3>1. UBitVarMore[form] \in Nat
      BY <1>1, OperandAssumption
    <3> QED BY <1>2, <1>3, <3>1
  <2>2. \A i \in 1 .. LowBits : bits[i] \in Nat
    BY <1>2, <1>3, <2>1
  <2>3. \A i \in LowBits + 1 .. Len(bits) : bits[i] \in Nat
    BY <1>2, <1>3
  <2> QED BY <1>2, <1>3, <2>2, <2>3, SubSeqProperties
<1>6. UBitVarBitsOf(n) = SubSeq(bits, 1, LowBits) \o BitsOf(form, 2)
                        \o SubSeq(bits, LowBits + 1, Len(bits))
  BY DEF UBitVarBitsOf, form, bits
<1> QED BY <1>4, <1>5, <1>6

LEMMA MessageBitsTyped ==
  ASSUME NEW m \in RecordedMessages, Forms(m.type) # {}, Len(m.payload) < U32
  PROVE  MessageBits(m) \in Seq(Nat)
<1>1. m.type \in Nat /\ m.payload \in Seq(Nat) /\ Len(m.payload) \in Nat
  <2>1. m.type \in Nat /\ m.payload \in Seq(0 .. Byte - 1)
    BY DEF RecordedMessages
  <2>2. 0 .. Byte - 1 \subseteq Nat
    OBVIOUS
  <2>3. m.payload \in Seq(Nat)
    BY <2>1, <2>2, SeqMonotonic
  <2> QED BY <2>1, <2>3
<1>2. Varint(Len(m.payload)) \in Seq(Nat)
  BY <1>1, VarintIs
<1>3. Varint(Len(m.payload)) \o m.payload \in Seq(Nat)
  BY <1>1, <1>2
<1>4. BitsOfBytes(Varint(Len(m.payload)) \o m.payload) \in Seq(Nat)
  BY <1>3, BitsOfBytesTyped
<1>5. UBitVarBitsOf(m.type) \in Seq(Nat)
  BY <1>1, UBitVarBitsTyped
<1> QED BY <1>4, <1>5 DEF MessageBits

(* The messages of a packet have their forms and their lengths. *)
Sendable(sent) ==
  /\ sent \in Seq(RecordedMessages)
  /\ \A i \in DOMAIN sent :
       Forms(sent[i].type) # {} /\ Len(sent[i].payload) < U32

LEMMA PacketBitsTyped ==
  ASSUME NEW sent, Sendable(sent)
  PROVE  /\ Len(sent) \in Nat
         /\ Pieces([i \in DOMAIN sent |-> MessageBits(sent[i])])
         /\ PacketBits(sent) \in [0 .. Len(sent) -> Seq(Nat)]
<1> DEFINE pieces == [i \in DOMAIN sent |-> MessageBits(sent[i])]
<1>1. Len(sent) \in Nat /\ DOMAIN sent = 1 .. Len(sent)
      /\ \A i \in 1 .. Len(sent) : sent[i] \in RecordedMessages
  BY DEF Sendable
<1>2. ASSUME NEW i \in 1 .. Len(sent) PROVE pieces[i] \in Seq(Nat)
  <2>1. sent[i] \in RecordedMessages /\ Forms(sent[i].type) # {} /\ Len(sent[i].payload) < U32
    BY <1>1 DEF Sendable
  <2>2. pieces[i] = MessageBits(sent[i])
    BY <1>1
  <2> QED BY <2>1, <2>2, MessageBitsTyped
<1>3. Len(pieces) = Len(sent)
  BY <1>1
<1> HIDE DEF pieces
<1>4. Pieces(pieces)
  BY <1>1, <1>2, <1>3 DEF Pieces
<1>5. Joined(pieces) \in [0 .. Len(pieces) -> Seq(Nat)]
  BY <1>4, JoinedIs
<1> QED BY <1>1, <1>3, <1>4, <1>5 DEF PacketBits, pieces

LEMMA PacketTyped ==
  ASSUME NEW sent, Sendable(sent)
  PROVE  Packet(sent) \in Seq(Nat)
<1> DEFINE bits == PacketBits(sent)[Len(sent)]
           length == (Len(bits) + ByteBits - 1) \div ByteBits
           bit(i) == IF i <= Len(bits) THEN bits[i] ELSE 0
           byte(k) == [i \in 1 .. ByteBits |-> bit((k - 1) * ByteBits + i)]
<1>1. bits \in Seq(Nat) /\ Len(bits) \in Nat /\ \A i \in 1 .. Len(bits) : bits[i] \in Nat
  <2>1. Len(sent) \in Nat /\ PacketBits(sent) \in [0 .. Len(sent) -> Seq(Nat)]
    BY PacketBitsTyped
  <2>2. bits \in Seq(Nat)
    BY <2>1
  <2> HIDE DEF bits
  <2> QED BY <2>2
<1>2. ByteBits \in Nat \ {0}
  BY ByteAssumption
<1> HIDE DEF bits
<1>3. length \in Nat
  <2>1. Len(bits) + ByteBits - 1 \in Nat
    BY <1>1, <1>2
  <2> QED BY <1>2, <2>1, DivisionIs
<1> HIDE DEF length
<1>4. ASSUME NEW k \in 1 .. length PROVE Composed(byte(k), 2) \in Nat
  <2>1. ASSUME NEW i \in 1 .. ByteBits PROVE bit((k - 1) * ByteBits + i) \in Nat
    <3>1. (k - 1) * ByteBits \in Nat
      BY <1>2, <1>3, ProductIn
    <3>2. (k - 1) * ByteBits + i \in Nat \ {0}
      BY <1>2, <3>1
    <3> QED BY <1>1, <3>2
  <2>2. Len(byte(k)) = ByteBits /\ \A i \in 1 .. ByteBits : byte(k)[i] = bit((k - 1) * ByteBits + i)
    BY <1>2
  <2> HIDE DEF byte, bit
  <2>3. Len(byte(k)) \in Nat /\ \A i \in 1 .. Len(byte(k)) : byte(k)[i] \in Nat
    BY <1>2, <2>1, <2>2
  <2> QED BY <2>3, ComposedTyped
<1>5. Packet(sent) = [k \in 1 .. length |-> Composed(byte(k), 2)]
  BY DEF Packet, bits, length
<1> HIDE DEF byte
<1> QED BY <1>3, <1>4, <1>5

(* A command that can be recorded. *)
Writable(c) ==
  /\ c \in RecordedCommands
  /\ Sendable(c.messages)
  /\ c.drop <= Len(Packet(c.messages))
  /\ Len(Body(c)) + c.lie < U32 /\ Len(Stored(c)) < U32

LEMMA StoredTyped ==
  ASSUME NEW c, Writable(c)
  PROVE  /\ Body(c) \in Seq(Nat) /\ Stored(c) \in Seq(Nat)
         /\ Len(Stored(c)) \in Nat /\ Len(Stored(c)) < U32
<1> DEFINE packet == Packet(c.messages)
<1>1. packet \in Seq(Nat) /\ c.drop \in Nat /\ c.drop <= Len(packet) /\ c.lie \in Nat
  BY PacketTyped DEF Writable, RecordedCommands
<1> HIDE DEF packet
<1>2. Body(c) = SubSeq(packet, 1, Len(packet) - c.drop)
  BY DEF Body, packet
<1>3. Body(c) \in Seq(Nat) /\ Len(Body(c)) \in Nat
  <2>1. Len(packet) \in Nat /\ \A i \in 1 .. Len(packet) - c.drop : packet[i] \in Nat
    BY <1>1
  <2>2. Body(c) \in Seq(Nat)
    BY <1>1, <1>2, <2>1, SubSeqProperties
  <2> QED BY <2>2
<1>4. Varint(Len(Body(c)) + c.lie) \in Seq(Nat)
  <2>1. Len(Body(c)) + c.lie \in Nat /\ Len(Body(c)) + c.lie < U32
    BY <1>1, <1>3 DEF Writable
  <2> QED BY <2>1, VarintIs
<1>5. Stored(c) \in Seq(Nat)
  BY <1>3, <1>4 DEF Stored
<1> QED BY <1>3, <1>5 DEF Writable

----------------------------------------------------------------------------
(* What the file is: the commands one behind the other, behind a header    *)
(* whose offsets are those of commands, up to where it is cut.             *)

LEMMA UnsignedIs ==
  ASSUME NEW c, Writable(c)
  PROVE  Unsigned(c.tick) \in Nat /\ Unsigned(c.tick) < U32 /\ Signed(Unsigned(c.tick)) = c.tick
<1> DEFINE half == PowerOf2[HalfBits - 1]
<1>1. half \in Nat \ {0} /\ U32 = 2 * half
  BY BasesAre
<1>2. c.tick \in -half .. half - 1
  BY DEF Writable, RecordedCommands
<1>3. Unsigned(c.tick) = IF c.tick < 0 THEN c.tick + U32 ELSE c.tick
  BY DEF Unsigned
<1>4. Signed(Unsigned(c.tick)) = IF Unsigned(c.tick) < half THEN Unsigned(c.tick) ELSE Unsigned(c.tick) - U32
  BY DEF Signed
<1> HIDE DEF half
<1> QED BY <1>1, <1>2, <1>3, <1>4

(* The number a command is written with. *)
RawOf(c) == c.cmd + IF c.compressed THEN CompressedFlag ELSE 0

LEMMA RawIs ==
  ASSUME NEW c, Writable(c)
  PROVE  /\ RawOf(c) \in Nat /\ RawOf(c) < U32
         /\ (RawOf(c) \div CompressedFlag) % 2 = IF c.compressed THEN 1 ELSE 0
         /\ c.cmd \in 0 .. CompressedFlag - 1 /\ c.compressed \in BOOLEAN
<1> DEFINE flag == IF c.compressed THEN 1 ELSE 0
<1>1. CompressedFlag \in Nat \ {0} /\ 2 * CompressedFlag <= U32 /\ U32 \in Nat
  BY FramesAssumption, BasesAre
<1>2. c.cmd \in 0 .. CompressedFlag - 1 /\ c.compressed \in BOOLEAN
  BY DEF Writable, RecordedCommands
<1>3. flag \in {0, 1} /\ RawOf(c) = CompressedFlag * flag + c.cmd
  BY <1>1, <1>2 DEF RawOf
<1> HIDE DEF flag
<1>4. RawOf(c) \div CompressedFlag = flag
  BY <1>1, <1>2, <1>3, RemainderAndQuotient, SMTT(30)
<1>5. flag % 2 = flag
  BY <1>3
<1>6. RawOf(c) \in Nat /\ RawOf(c) < U32
  BY <1>1, <1>2, <1>3
<1> QED BY <1>2, <1>4, <1>5, <1>6 DEF flag

LEMMA CommandBytesAre ==
  ASSUME NEW c, Writable(c)
  PROVE  /\ CommandBytes(c) = Varint(RawOf(c)) \o Varint(Unsigned(c.tick))
                              \o Varint(Len(Stored(c))) \o Stored(c)
         /\ CommandBytes(c) \in Seq(Nat) /\ Len(CommandBytes(c)) \in Nat \ {0}
<1> DEFINE a == Varint(RawOf(c))
           b == Varint(Unsigned(c.tick))
           d == Varint(Len(Stored(c)))
           e == Stored(c)
<1>1. CommandBytes(c) = a \o b \o d \o e
  BY DEF CommandBytes, RawOf
<1>2. a \in Seq(Nat) /\ Len(a) \in 1 .. Varint32Bytes
  BY RawIs, VarintIs
<1>3. b \in Seq(Nat)
  BY UnsignedIs, VarintIs
<1>4. d \in Seq(Nat) /\ e \in Seq(Nat)
  BY StoredTyped, VarintIs
<1>5. CommandBytes(c) = a \o b \o d \o e
  BY <1>1
<1> HIDE DEF a, b, d, e
<1>6. a \o b \o d \o e \in Seq(Nat) /\ Len(a \o b \o d \o e) = Len(a) + Len(b) + Len(d) + Len(e)
  BY <1>2, <1>3, <1>4
<1>7. Len(a) \in Nat \ {0} /\ Len(b) \in Nat /\ Len(d) \in Nat /\ Len(e) \in Nat
  BY <1>2, <1>3, <1>4
<1> QED BY <1>5, <1>6, <1>7 DEF a, b, d, e

LEMMA RecordedAre ==
  ASSUME NEW cs, Recordable(cs)
  PROVE  /\ Len(cs) \in Nat \ {0} /\ DOMAIN cs = 1 .. Len(cs)
         /\ \A k \in 1 .. Len(cs) : Writable(cs[k])
<1>1. cs \in Seq(RecordedCommands) /\ cs # <<>>
  BY DEF Recordable
<1>2. Len(cs) \in Nat \ {0} /\ DOMAIN cs = 1 .. Len(cs) /\ \A k \in 1 .. Len(cs) : cs[k] \in RecordedCommands
  BY <1>1
<1>3. ASSUME NEW k \in 1 .. Len(cs) PROVE Writable(cs[k])
  <2>1. /\ \A i \in DOMAIN cs[k].messages :
             Forms(cs[k].messages[i].type) # {} /\ Len(cs[k].messages[i].payload) < U32
        /\ cs[k].drop <= Len(Packet(cs[k].messages))
        /\ Len(Body(cs[k])) + cs[k].lie < U32 /\ Len(Stored(cs[k])) < U32
    BY <1>2 DEF Recordable
  <2>2. cs[k] \in RecordedCommands /\ cs[k].messages \in Seq(RecordedMessages)
    BY <1>2 DEF RecordedCommands
  <2> QED BY <2>1, <2>2 DEF Writable, Sendable
<1> QED BY <1>2, <1>3

LEMMA WrittenIs ==
  ASSUME NEW cs, Recordable(cs)
  PROVE  /\ Written(cs) \in [0 .. Len(cs) -> Seq(Nat)]
         /\ Written(cs)[0] = <<>>
         /\ \A k \in 1 .. Len(cs) : Written(cs)[k] = Written(cs)[k - 1] \o CommandBytes(cs[k])
         /\ \A k \in 0 .. Len(cs) : /\ Len(Written(cs)[k]) <= Len(Written(cs)[Len(cs)])
                                    /\ \A i \in 1 .. Len(Written(cs)[k]) :
                                         Written(cs)[Len(cs)][i] = Written(cs)[k][i]
<1> DEFINE pieces == [k \in DOMAIN cs |-> CommandBytes(cs[k])]
<1>1. Len(cs) \in Nat /\ DOMAIN cs = 1 .. Len(cs) /\ Len(pieces) = Len(cs)
  BY RecordedAre
<1>2. ASSUME NEW k \in 1 .. Len(cs) PROVE pieces[k] = CommandBytes(cs[k]) /\ pieces[k] \in Seq(Nat)
  BY <1>1, RecordedAre, CommandBytesAre
<1> HIDE DEF pieces
<1>3. Pieces(pieces)
  BY <1>1, <1>2 DEF Pieces
<1>4. Written(cs) = Joined(pieces)
  BY DEF Written, pieces
<1>5. /\ Joined(pieces) \in [0 .. Len(pieces) -> Seq(Nat)]
      /\ Joined(pieces)[0] = <<>>
      /\ \A k \in 1 .. Len(pieces) : Joined(pieces)[k] = Joined(pieces)[k - 1] \o pieces[k]
  BY <1>3, JoinedIs
<1>6. ASSUME NEW k \in 0 .. Len(cs)
      PROVE  /\ Len(Written(cs)[k]) <= Len(Written(cs)[Len(cs)])
             /\ \A i \in 1 .. Len(Written(cs)[k]) : Written(cs)[Len(cs)][i] = Written(cs)[k][i]
  <2>1. k \in 0 .. Len(pieces) /\ Len(cs) \in k .. Len(pieces)
    BY <1>1
  <2>2. /\ Len(Joined(pieces)[k]) <= Len(Joined(pieces)[Len(cs)])
        /\ \A i \in 1 .. Len(Joined(pieces)[k]) : Joined(pieces)[Len(cs)][i] = Joined(pieces)[k][i]
    BY <1>3, <2>1, JoinedKeeps
  <2> QED BY <1>4, <2>2
<1> QED BY <1>1, <1>2, <1>4, <1>5, <1>6

Parts(s, a, b, c, d) ==
  /\ s \in Seq(Nat)
  /\ Len(s) = Len(a) + Len(b) + Len(c) + Len(d)
  /\ \A i \in 1 .. Len(a) : s[i] = a[i]
  /\ \A i \in 1 .. Len(b) : s[Len(a) + i] = b[i]
  /\ \A i \in 1 .. Len(c) : s[Len(a) + Len(b) + i] = c[i]
  /\ \A i \in 1 .. Len(d) : s[Len(a) + Len(b) + Len(c) + i] = d[i]

LEMMA FourParts ==
  ASSUME NEW a \in Seq(Nat), NEW b \in Seq(Nat), NEW c \in Seq(Nat), NEW d \in Seq(Nat)
  PROVE  Parts(a \o b \o c \o d, a, b, c, d)
<1>1. /\ a \o b \in Seq(Nat) /\ Len(a \o b) = Len(a) + Len(b)
      /\ \A i \in 1 .. Len(a) : (a \o b)[i] = a[i]
      /\ \A i \in 1 .. Len(b) : (a \o b)[Len(a) + i] = b[i]
  OBVIOUS
<1> DEFINE ab == a \o b
<1>2. /\ ab \o c \in Seq(Nat) /\ Len(ab \o c) = Len(ab) + Len(c)
      /\ \A i \in 1 .. Len(ab) : (ab \o c)[i] = ab[i]
      /\ \A i \in 1 .. Len(c) : (ab \o c)[Len(ab) + i] = c[i]
  <2> HIDE DEF ab
  <2> QED BY <1>1 DEF ab
<1> DEFINE abc == ab \o c
<1>3. /\ abc \o d \in Seq(Nat) /\ Len(abc \o d) = Len(abc) + Len(d)
      /\ \A i \in 1 .. Len(abc) : (abc \o d)[i] = abc[i]
      /\ \A i \in 1 .. Len(d) : (abc \o d)[Len(abc) + i] = d[i]
  <2>1. abc \in Seq(Nat)
    BY <1>2
  <2> HIDE DEF abc
  <2> QED BY <2>1
<1> DEFINE s == abc \o d
<1>4. Len(a) \in Nat /\ Len(b) \in Nat /\ Len(c) \in Nat /\ Len(d) \in Nat
  OBVIOUS
<1>5. s = a \o b \o c \o d
  OBVIOUS
<1>6. /\ s \in Seq(Nat) /\ Len(s) = Len(a) + Len(b) + Len(c) + Len(d)
      /\ Len(ab) = Len(a) + Len(b) /\ Len(abc) = Len(a) + Len(b) + Len(c)
  BY <1>1, <1>2, <1>3
<1>7. ASSUME NEW i \in 1 .. Len(abc) PROVE s[i] = abc[i]
  BY <1>3
<1>8. ASSUME NEW i \in 1 .. Len(ab) PROVE s[i] = ab[i]
  <2>1. i \in 1 .. Len(abc)
    BY <1>4, <1>6
  <2> QED BY <1>2, <1>7, <2>1
<1>9. ASSUME NEW i \in 1 .. Len(a) PROVE s[i] = a[i]
  <2>1. i \in 1 .. Len(ab)
    BY <1>4, <1>6
  <2> QED BY <1>1, <1>8, <2>1
<1>10. ASSUME NEW i \in 1 .. Len(b) PROVE s[Len(a) + i] = b[i]
  <2>1. Len(a) + i \in 1 .. Len(ab)
    BY <1>4, <1>6
  <2> QED BY <1>1, <1>8, <2>1
<1>11. ASSUME NEW i \in 1 .. Len(c) PROVE s[Len(a) + Len(b) + i] = c[i]
  <2>1. Len(ab) + i \in 1 .. Len(abc)
    BY <1>4, <1>6
  <2>2. s[Len(ab) + i] = c[i]
    BY <1>2, <1>7, <2>1
  <2> QED BY <1>6, <2>2
<1>12. ASSUME NEW i \in 1 .. Len(d) PROVE s[Len(a) + Len(b) + Len(c) + i] = d[i]
  BY <1>3, <1>6
<1> HIDE DEF s, abc, ab
<1>13. Parts(s, a, b, c, d)
  BY <1>6, <1>9, <1>10, <1>11, <1>12 DEF Parts
<1> QED BY <1>5, <1>13

LEMMA DemoIs ==
  ASSUME NEW cs, Recordable(cs), NEW o1 \in Nat, NEW o2 \in Nat
  PROVE  /\ Demo(<<o1, o2>>, cs) \in Seq(Nat)
         /\ Len(Demo(<<o1, o2>>, cs)) = HEADER_SIZE + Len(Written(cs)[Len(cs)])
         /\ \A i \in 1 .. OffsetBytes :
              /\ Demo(<<o1, o2>>, cs)[Len(Magic) + i] = Digits(o1, Byte, OffsetBytes)[i]
              /\ Demo(<<o1, o2>>, cs)[Len(Magic) + OffsetBytes + i] = Digits(o2, Byte, OffsetBytes)[i]
         /\ \A i \in 1 .. Len(Written(cs)[Len(cs)]) :
              Demo(<<o1, o2>>, cs)[HEADER_SIZE + i] = Written(cs)[Len(cs)][i]
<1> DEFINE a == Digits(o1, Byte, OffsetBytes)
           b == Digits(o2, Byte, OffsetBytes)
           w == Written(cs)[Len(cs)]
           whole == Demo(<<o1, o2>>, cs)
<1>1. Magic \in Seq(Nat) /\ OffsetBytes \in Nat /\ Len(Magic) \in Nat
  BY FramesAssumption
<1>2. Byte \in Nat \ {0}
  BY BasesAre
<1>3. a \in Seq(Nat) /\ Len(a) = OffsetBytes /\ b \in Seq(Nat) /\ Len(b) = OffsetBytes
  BY <1>1, <1>2, DigitsAre
<1>4. w \in Seq(Nat) /\ Len(w) \in Nat
  <2>1. Len(cs) \in 0 .. Len(cs)
    BY RecordedAre
  <2>2. w \in Seq(Nat)
    BY <2>1, WrittenIs
  <2> HIDE DEF w
  <2> QED BY <2>2
<1>5. whole = Magic \o a \o b \o w
  BY DEF Demo, OffsetBytesOf
<1>6. HEADER_SIZE = Len(Magic) + OffsetBytes + OffsetBytes
  BY <1>1 DEF HEADER_SIZE
<1> HIDE DEF a, b, w, whole
<1> DEFINE s == Magic \o a \o b \o w
<1>11. Parts(s, Magic, a, b, w)
  BY <1>1, <1>3, <1>4, FourParts
<1> HIDE DEF s
<1>7. /\ whole \in Seq(Nat) /\ Len(whole) = Len(Magic) + Len(a) + Len(b) + Len(w)
      /\ \A i \in 1 .. Len(a) : whole[Len(Magic) + i] = a[i]
      /\ \A i \in 1 .. Len(b) : whole[Len(Magic) + Len(a) + i] = b[i]
      /\ \A i \in 1 .. Len(w) : whole[Len(Magic) + Len(a) + Len(b) + i] = w[i]
  <2>1. whole = s
    BY <1>5 DEF s
  <2> QED BY <1>11, <2>1 DEF Parts
<1>8. whole \in Seq(Nat) /\ Len(whole) = HEADER_SIZE + Len(w)
  BY <1>3, <1>6, <1>7
<1>9. ASSUME NEW i \in 1 .. OffsetBytes
      PROVE  whole[Len(Magic) + i] = a[i] /\ whole[Len(Magic) + OffsetBytes + i] = b[i]
  BY <1>3, <1>7
<1>10. ASSUME NEW i \in 1 .. Len(w) PROVE whole[HEADER_SIZE + i] = w[i]
  BY <1>3, <1>6, <1>7
<1> QED BY <1>8, <1>9, <1>10 DEF a, b, w, whole

(* The k-th command in the file. *)
Bytes(k) == CommandBytes(recorded[k])

LaidOut ==
  /\ recorded \in Recordings
  /\ starts \in [1 .. Len(recorded) + 1 -> Nat]
  /\ starts[1] = HEADER_SIZE
  /\ \A k \in 1 .. Len(recorded) : starts[k + 1] = starts[k] + Len(Bytes(k))
  /\ file \in Seq(Nat) /\ FileLen <= starts[Len(recorded) + 1]
  /\ \A k \in 1 .. Len(recorded) : \A i \in 1 .. Len(Bytes(k)) :
       starts[k] + i <= FileLen => file[starts[k] + i] = Bytes(k)[i]
  /\ FileLen >= HEADER_SIZE =>
       HeaderOffset(0) \in {0, starts[Len(recorded)]} /\ HeaderOffset(1) = 0

(* An offset of the header is the number written there. *)
LEMMA OffsetIs ==
  ASSUME file \in Seq(Nat), NEW at \in Nat, NEW o \in Nat, o < PowerOf2[OffsetBytes * ByteBits],
         \A i \in 1 .. OffsetBytes : file[at + i] = Digits(o, Byte, OffsetBytes)[i]
  PROVE  LittleEndian(at, OffsetBytes) = o
<1> DEFINE digits == [k \in 1 .. OffsetBytes |-> file[at + k]]
<1>1. OffsetBytes \in Nat \ {0} /\ OffsetBytes * ByteBits <= WordBits /\ ByteBits \in Nat
  BY FramesAssumption, ByteAssumption
<1>2. Len(digits) = OffsetBytes
  BY <1>1
<1>3. \A k \in 1 .. OffsetBytes : digits[k] = Digits(o, PowerOf2[ByteBits], OffsetBytes)[k]
  BY DEF Byte
<1> HIDE DEF digits
<1>4. DigitsOf(digits, o, PowerOf2[ByteBits], OffsetBytes)
  BY <1>2, <1>3 DEF DigitsOf
<1>5. Composed(digits, PowerOf2[ByteBits]) = o
  BY <1>1, <1>4, DigitsRoundTrip
<1> QED BY <1>5 DEF LittleEndian, digits, Byte

LEMMA InitLaidOut == Init => LaidOut
<1> SUFFICES ASSUME Init PROVE LaidOut
  OBVIOUS
<1> DEFINE n == Len(recorded)
           W == Written(recorded)
           start(k) == StartOf(recorded, k)
<1>1. recorded \in Recordings /\ Recordable(recorded)
  BY RecordingsAssumption DEF Init
<1>2. n \in Nat \ {0} /\ \A k \in 1 .. n : Writable(recorded[k])
  BY <1>1, RecordedAre
<1>3. starts = [k \in 1 .. n + 1 |-> start(k)]
  BY DEF Init
<1>4. PICK file_info \in {0, starts[n]} :
        \E length \in 0 .. Len(Demo(<<file_info, 0>>, recorded)) :
           file = SubSeq(Demo(<<file_info, 0>>, recorded), 1, length)
  BY DEF Init
<1> DEFINE whole == Demo(<<file_info, 0>>, recorded)
<1>5. PICK length \in 0 .. Len(whole) : file = SubSeq(whole, 1, length)
  BY <1>4
<1>6. HEADER_SIZE \in Nat /\ Len(Magic) \in Nat /\ OffsetBytes \in Nat
  BY FramesAssumption DEF HEADER_SIZE
<1>7. /\ W \in [0 .. n -> Seq(Nat)] /\ W[0] = <<>>
      /\ \A k \in 1 .. n : W[k] = W[k - 1] \o Bytes(k)
      /\ \A k \in 0 .. n : Len(W[k]) <= Len(W[n]) /\ \A i \in 1 .. Len(W[k]) : W[n][i] = W[k][i]
  BY <1>1, WrittenIs DEF Bytes
<1>8. ASSUME NEW k \in 1 .. n + 1 PROVE start(k) = HEADER_SIZE + Len(W[k - 1])
  BY DEF StartOf
<1> HIDE DEF W, start
<1>9. ASSUME NEW k \in 1 .. n + 1
      PROVE  Len(W[k - 1]) \in Nat /\ starts[k] = HEADER_SIZE + Len(W[k - 1])
  <2>1. k - 1 \in 0 .. n
    BY <1>2
  <2>2. W[k - 1] \in Seq(Nat)
    BY <1>7, <2>1
  <2> QED BY <1>3, <1>8, <2>2
<1>10. starts \in [1 .. n + 1 -> Nat]
  <2>1. \A k \in 1 .. n + 1 : starts[k] \in Nat
    BY <1>6, <1>9
  <2> QED BY <1>3, <2>1
<1>11. starts[1] = HEADER_SIZE
  <2>1. 1 \in 1 .. n + 1 /\ Len(W[1 - 1]) = 0
    BY <1>2, <1>7
  <2>2. starts[1] = HEADER_SIZE + Len(W[1 - 1])
    BY <1>9, <2>1
  <2> QED BY <1>6, <2>1, <2>2
<1>12. ASSUME NEW k \in 1 .. n
       PROVE  /\ Bytes(k) \in Seq(Nat) /\ Len(Bytes(k)) \in Nat /\ W[k - 1] \in Seq(Nat)
              /\ W[k] = W[k - 1] \o Bytes(k) /\ Len(W[k]) = Len(W[k - 1]) + Len(Bytes(k))
              /\ starts[k] = HEADER_SIZE + Len(W[k - 1]) /\ starts[k + 1] = HEADER_SIZE + Len(W[k])
  <2>1. Bytes(k) \in Seq(Nat)
    BY <1>2, CommandBytesAre DEF Bytes
  <2>2. k - 1 \in 0 .. n
    BY <1>2
  <2>3. W[k - 1] \in Seq(Nat) /\ W[k] = W[k - 1] \o Bytes(k)
    BY <1>7, <2>2
  <2>4. k \in 1 .. n + 1 /\ k + 1 \in 1 .. n + 1 /\ (k + 1) - 1 = k
    BY <1>2
  <2>5. starts[k] = HEADER_SIZE + Len(W[k - 1])
    BY <1>9, <2>4
  <2>6. starts[k + 1] = HEADER_SIZE + Len(W[(k + 1) - 1])
    BY <1>9, <2>4
  <2>7. Len(W[k]) = Len(W[k - 1]) + Len(Bytes(k)) /\ Len(Bytes(k)) \in Nat
    BY <2>1, <2>3
  <2> QED BY <2>1, <2>3, <2>4, <2>5, <2>6, <2>7
<1>13. starts[n] \in Nat /\ starts[n] < PowerOf2[OffsetBytes * ByteBits]
  <2>1. n \in 1 .. n + 1
    BY <1>2
  <2>2. starts[n] = start(n)
    BY <1>3, <2>1
  <2>3. start(n) < PowerOf2[OffsetBytes * ByteBits]
    BY <1>1 DEF Recordable, start
  <2> QED BY <1>10, <2>1, <2>2, <2>3
<1>14. 0 < PowerOf2[OffsetBytes * ByteBits] /\ 0 \in Nat /\ file_info \in Nat
       /\ file_info < PowerOf2[OffsetBytes * ByteBits]
  <2>1. OffsetBytes * ByteBits \in Nat
    <3>1. ByteBits \in Nat
      BY ByteAssumption
    <3> QED BY <1>6, <3>1, ProductIn
  <2>2. OffsetBytes * ByteBits \in 0 .. WordBits
    BY <2>1, FramesAssumption, WordIs
  <2>3. PowerOf2[OffsetBytes * ByteBits] \in Nat \ {0}
    BY <2>2, PowersAre
  <2> QED BY <1>13, <2>3
<1>15. /\ whole \in Seq(Nat) /\ Len(whole) = HEADER_SIZE + Len(W[n])
       /\ \A i \in 1 .. OffsetBytes :
            /\ whole[Len(Magic) + i] = Digits(file_info, Byte, OffsetBytes)[i]
            /\ whole[Len(Magic) + OffsetBytes + i] = Digits(0, Byte, OffsetBytes)[i]
       /\ \A i \in 1 .. Len(W[n]) : whole[HEADER_SIZE + i] = W[n][i]
  BY <1>1, <1>14, DemoIs DEF W
<1> HIDE DEF whole
<1>16. file \in Seq(Nat) /\ FileLen = length /\ \A i \in 1 .. length : file[i] = whole[i]
  <2>1. Len(whole) \in Nat /\ \A i \in 1 .. length : whole[i] \in Nat
    BY <1>15
  <2>2. SubSeq(whole, 1, length) \in Seq(Nat) /\ Len(SubSeq(whole, 1, length)) = length
        /\ \A i \in 1 .. length : SubSeq(whole, 1, length)[i] = whole[i]
    BY <1>15, <2>1
  <2> QED BY <1>5, <2>2 DEF FileLen
<1>17. FileLen <= starts[n + 1]
  <2>1. n + 1 \in 1 .. n + 1 /\ (n + 1) - 1 = n
    BY <1>2
  <2>2. starts[n + 1] = HEADER_SIZE + Len(W[n])
    BY <1>9, <2>1
  <2> QED BY <1>15, <1>16, <2>2
<1>18. ASSUME NEW k \in 1 .. n, NEW i \in 1 .. Len(Bytes(k)), starts[k] + i <= FileLen
       PROVE  file[starts[k] + i] = Bytes(k)[i]
  <2>0. k \in 0 .. n
    BY <1>2
  <2> DEFINE at == Len(W[k - 1]) + i
  <2>1. at \in 1 .. Len(W[k]) /\ W[k][at] = Bytes(k)[i]
    <3>1. W[k - 1] \in Seq(Nat) /\ Bytes(k) \in Seq(Nat) /\ W[k] = W[k - 1] \o Bytes(k)
      BY <1>12
    <3> QED BY <3>1
  <2>2. at \in 1 .. Len(W[n]) /\ W[n][at] = W[k][at]
    <3>1. Len(W[k]) <= Len(W[n]) /\ \A j \in 1 .. Len(W[k]) : W[n][j] = W[k][j]
      BY <1>7, <2>0
    <3>2. Len(W[n]) \in Nat
      BY <1>15, <1>6, <1>2, <1>7
    <3>3. Len(W[k]) \in Nat
      BY <1>6, <1>12, <1>15
    <3> HIDE DEF at
    <3>4. at \in 1 .. Len(W[n])
      BY <2>1, <3>1, <3>2, <3>3
    <3> QED BY <2>1, <3>1, <3>4
  <2>3. starts[k] + i = HEADER_SIZE + at
    <3>1. starts[k] = HEADER_SIZE + Len(W[k - 1])
      BY <1>12
    <3>2. HEADER_SIZE \in Nat /\ Len(W[k - 1]) \in Nat
      BY <1>6, <1>12
    <3> QED BY <3>1, <3>2
  <2>7. Len(W[k]) \in Nat /\ length \in Nat
    BY <1>6, <1>12, <1>15
  <2>4. HEADER_SIZE + at \in 1 .. length
    BY <1>6, <1>16, <1>18, <2>1, <2>3, <2>7
  <2>5. file[HEADER_SIZE + at] = whole[HEADER_SIZE + at]
    BY <1>16, <2>4
  <2>6. whole[HEADER_SIZE + at] = W[n][at]
    BY <1>15, <2>2
  <2> QED BY <2>1, <2>2, <2>3, <2>5, <2>6
<1>19. ASSUME FileLen >= HEADER_SIZE
       PROVE  HeaderOffset(0) \in {0, starts[n]} /\ HeaderOffset(1) = 0
  <2>0. HEADER_SIZE = Len(Magic) + OffsetBytes + OffsetBytes /\ length \in Nat
    BY <1>6, <1>15 DEF HEADER_SIZE
  <2>1. ASSUME NEW i \in 1 .. OffsetBytes
        PROVE  /\ file[Len(Magic) + i] = Digits(file_info, Byte, OffsetBytes)[i]
               /\ file[Len(Magic) + OffsetBytes + i] = Digits(0, Byte, OffsetBytes)[i]
    <3>1. Len(Magic) + i \in 1 .. length /\ Len(Magic) + OffsetBytes + i \in 1 .. length
      BY <1>6, <1>16, <1>19, <2>0
    <3> QED BY <1>15, <1>16, <3>1
  <2>2. LittleEndian(Len(Magic), OffsetBytes) = file_info
    BY <1>6, <1>14, <1>16, <2>1, OffsetIs
  <2>3. LittleEndian(Len(Magic) + OffsetBytes, OffsetBytes) = 0
    <3>1. Len(Magic) + OffsetBytes \in Nat
      BY <1>6
    <3> QED BY <1>14, <1>16, <2>1, <3>1, OffsetIs
  <2>4. Len(Magic) + 0 * OffsetBytes = Len(Magic) /\ Len(Magic) + 1 * OffsetBytes = Len(Magic) + OffsetBytes
    BY <1>6
  <2> QED BY <1>4, <2>2, <2>3, <2>4 DEF HeaderOffset
<1>20. ASSUME NEW k \in 1 .. n PROVE starts[k + 1] = starts[k] + Len(Bytes(k))
  <2>1. /\ starts[k] = HEADER_SIZE + Len(W[k - 1]) /\ starts[k + 1] = HEADER_SIZE + Len(W[k])
        /\ Len(W[k]) = Len(W[k - 1]) + Len(Bytes(k)) /\ Len(Bytes(k)) \in Nat
    BY <1>12
  <2>2. Len(W[k - 1]) \in Nat
    BY <1>12
  <2> QED BY <1>6, <2>1, <2>2
<1> QED BY <1>1, <1>10, <1>11, <1>20, <1>16, <1>17, <1>18, <1>19 DEF LaidOut

LEMMA StaysLaidOut == LaidOut /\ UNCHANGED written => LaidOut'
  BY DEF LaidOut, written, Bytes, FileLen, HeaderOffset, LittleEndian

----------------------------------------------------------------------------
(* What the readers make of it.                                            *)

LEMMA FileLenIs == ASSUME file \in Seq(Nat) PROVE FileLen \in Nat
  BY DEF FileLen

(* The sequence s is in the file behind `at`, or what is left of it is. *)
WrittenAt(at, s) == \A i \in 1 .. Len(s) : at + i <= FileLen => file[at + i] = s[i]

(* A varint is read back, unless it is cut. *)
LEMMA VarintRead ==
  ASSUME file \in Seq(Nat), NEW n \in Nat, n < U32, NEW at \in 0 .. FileLen, WrittenAt(at, Varint(n))
  PROVE  /\ at + Len(Varint(n)) <= FileLen =>
              TakeVarint[at] = at + Len(Varint(n)) /\ VarintAt[at] = n
         /\ ~(at + Len(Varint(n)) <= FileLen) => TakeVarint[at] = Nowhere
<1> DEFINE v == Varint(n)
           last == Len(v)
           ends == VarintEnds(at)
<1>1. /\ v \in Seq(Nat) /\ last \in 1 .. Varint32Bytes
      /\ \A k \in 1 .. last : v[k] < More <=> k = last
  BY VarintIs
<1>2. /\ FileLen \in Nat /\ at \in Nat /\ at \in Positions /\ at # Nowhere
      /\ Varint32Bytes \in Nat /\ More \in Nat /\ U32 \in Nat
  BY FileLenIs, BasesAre, VarintAssumption DEF Positions, Nowhere
<1>3. ends = {k \in 1 .. Varint32Bytes : at + k <= FileLen /\ (k = Varint32Bytes \/ file[at + k] < More)}
  BY DEF VarintEnds
<1>4. \A k \in 1 .. last : at + k <= FileLen => file[at + k] = v[k]
  BY DEF WrittenAt
<1>5. TakeVarint[at] = IF at = Nowhere \/ ends = {} THEN Nowhere ELSE at + Min(ends)
  BY <1>2 DEF TakeVarint
<1>6. VarintAt[at] = Composed([k \in 1 .. Min(ends) |-> file[at + k] % More], More) % U32
  BY <1>2 DEF VarintAt
<1> HIDE DEF v, last, ends
<1>7. ASSUME NEW k \in ends PROVE k \in 1 .. Varint32Bytes /\ k >= last /\ at + k <= FileLen
  <2>1. k \in 1 .. Varint32Bytes /\ at + k <= FileLen /\ (k = Varint32Bytes \/ file[at + k] < More)
    BY <1>3
  <2>2. CASE k < last
    <3>1. k \in 1 .. last /\ k # Varint32Bytes /\ k # last
      BY <1>1, <1>2, <2>1, <2>2
    <3>2. file[at + k] = v[k] /\ ~(v[k] < More)
      BY <1>1, <1>4, <2>1, <3>1
    <3> QED BY <2>1, <3>1, <3>2
  <2>3. CASE ~(k < last)
    BY <1>1, <2>1, <2>3
  <2> QED BY <2>2, <2>3
<1>8. ASSUME at + last <= FileLen PROVE TakeVarint[at] = at + last /\ VarintAt[at] = n
  <2>1. last \in 1 .. last /\ last \in Nat
    BY <1>1
  <2>2. file[at + last] = v[last] /\ v[last] < More
    BY <1>1, <1>4, <1>8, <2>1
  <2>3. last \in ends
    BY <1>1, <1>3, <1>8, <2>2
  <2>4. \A k \in ends : last <= k
    BY <1>1, <1>7
  <2>5. \A k \in ends : (\A j \in ends : k <= j) => k = last
    BY <1>7, <2>1, <2>3, <2>4
  <2>6. Min(ends) = last
    BY <2>3, <2>4, <2>5, Zenon DEF Min
  <2>7. TakeVarint[at] = at + last
    BY <1>2, <1>5, <2>3, <2>6
  <2> DEFINE digits == [k \in 1 .. last |-> file[at + k] % More]
  <2>8. Len(digits) = last
    BY <2>1
  <2>9. ASSUME NEW k \in 1 .. last PROVE digits[k] = v[k] % More
    <3>1. at + k <= FileLen
      BY <1>2, <1>8, <2>1
    <3> QED BY <1>4, <3>1
  <2>10. VarintAt[at] = Composed(digits, More) % U32
    BY <1>6, <2>6
  <2> HIDE DEF digits
  <2>11. Composed(digits, More) = n
    BY <2>8, <2>9, VarintIs DEF v, last
  <2>12. n % U32 = n
    BY <1>2
  <2> QED BY <2>7, <2>10, <2>11, <2>12
<1>9. ASSUME ~(at + last <= FileLen) PROVE TakeVarint[at] = Nowhere
  <2>1. ends = {}
    BY <1>1, <1>2, <1>7, <1>9
  <2> QED BY <1>5, <2>1
<1> QED BY <1>8, <1>9 DEF v, last

(* Where the parts of the k-th command end. *)
RawEnd(k)  == starts[k] + Len(Varint(RawOf(recorded[k])))
TickEnd(k) == RawEnd(k) + Len(Varint(Unsigned(recorded[k].tick)))
SizeEnd(k) == TickEnd(k) + Len(Varint(Len(Stored(recorded[k]))))

HeaderRecorded(k) ==
  [body |-> SizeEnd(k), cmd |-> recorded[k].cmd, tick |-> recorded[k].tick,
   compressed |-> recorded[k].compressed, size |-> Len(Stored(recorded[k]))]

LEMMA Recorded ==
  ASSUME LaidOut
  PROVE  /\ Len(recorded) \in Nat \ {0} /\ DOMAIN recorded = 1 .. Len(recorded)
         /\ DOMAIN starts = 1 .. Len(recorded) + 1
         /\ \A k \in 1 .. Len(recorded) : Writable(recorded[k])
         /\ \A k \in 1 .. Len(recorded) + 1 : starts[k] \in Nat
         /\ FileLen \in Nat /\ file \in Seq(Nat)
<1>1. Recordable(recorded)
  BY RecordingsAssumption DEF LaidOut
<1>2. starts \in [1 .. Len(recorded) + 1 -> Nat] /\ file \in Seq(Nat)
  BY DEF LaidOut
<1> QED BY <1>1, <1>2, RecordedAre, FileLenIs

LEMMA PartsWritten ==
  ASSUME LaidOut, NEW k \in 1 .. Len(recorded)
  PROVE  /\ starts[k] \in Nat /\ RawEnd(k) \in Nat /\ TickEnd(k) \in Nat /\ SizeEnd(k) \in Nat
         /\ starts[k + 1] \in Nat /\ Len(Stored(recorded[k])) \in Nat
         /\ starts[k] < RawEnd(k) /\ RawEnd(k) < TickEnd(k) /\ TickEnd(k) < SizeEnd(k)
         /\ starts[k + 1] = SizeEnd(k) + Len(Stored(recorded[k]))
         /\ WrittenAt(starts[k], Varint(RawOf(recorded[k])))
         /\ WrittenAt(RawEnd(k), Varint(Unsigned(recorded[k].tick)))
         /\ WrittenAt(TickEnd(k), Varint(Len(Stored(recorded[k]))))
         /\ WrittenAt(SizeEnd(k), Stored(recorded[k]))
<1> DEFINE c == recorded[k]
           a == Varint(RawOf(c))
           b == Varint(Unsigned(c.tick))
           d == Varint(Len(Stored(c)))
           e == Stored(c)
           s == Bytes(k)
<1>1. Writable(c) /\ starts[k] \in Nat /\ starts[k + 1] \in Nat /\ FileLen \in Nat
  BY Recorded
<1>2. a \in Seq(Nat) /\ Len(a) \in Nat \ {0}
  <2>1. a \in Seq(Nat) /\ Len(a) \in 1 .. Varint32Bytes
    BY <1>1, RawIs, VarintIs
  <2> QED BY <2>1
<1>3. b \in Seq(Nat) /\ Len(b) \in Nat \ {0}
  <2>1. b \in Seq(Nat) /\ Len(b) \in 1 .. Varint32Bytes
    BY <1>1, UnsignedIs, VarintIs
  <2> QED BY <2>1
<1>4. d \in Seq(Nat) /\ Len(d) \in Nat \ {0} /\ e \in Seq(Nat) /\ Len(e) \in Nat
  <2>1. d \in Seq(Nat) /\ Len(d) \in 1 .. Varint32Bytes /\ e \in Seq(Nat) /\ Len(e) \in Nat
    BY <1>1, StoredTyped, VarintIs
  <2> QED BY <2>1
<1>5. s = a \o b \o d \o e
  BY <1>1, CommandBytesAre DEF Bytes
<1>6. starts[k + 1] = starts[k] + Len(s) /\ \A i \in 1 .. Len(s) : starts[k] + i <= FileLen => file[starts[k] + i] = s[i]
  BY DEF LaidOut
<1>7. RawEnd(k) = starts[k] + Len(a) /\ TickEnd(k) = RawEnd(k) + Len(b) /\ SizeEnd(k) = TickEnd(k) + Len(d)
  BY DEF RawEnd, TickEnd, SizeEnd
<1> HIDE DEF a, b, d, e, s
<1>8. Parts(s, a, b, d, e)
  BY <1>2, <1>3, <1>4, <1>5, FourParts
<1>9. /\ Len(s) = Len(a) + Len(b) + Len(d) + Len(e)
      /\ \A i \in 1 .. Len(a) : s[i] = a[i]
      /\ \A i \in 1 .. Len(b) : s[Len(a) + i] = b[i]
      /\ \A i \in 1 .. Len(d) : s[Len(a) + Len(b) + i] = d[i]
      /\ \A i \in 1 .. Len(e) : s[Len(a) + Len(b) + Len(d) + i] = e[i]
  BY <1>8 DEF Parts
<1>15. /\ starts[k] \in Nat /\ Len(a) \in Nat \ {0} /\ Len(b) \in Nat \ {0}
       /\ Len(d) \in Nat \ {0} /\ Len(e) \in Nat
       /\ RawEnd(k) = starts[k] + Len(a) /\ TickEnd(k) = RawEnd(k) + Len(b) /\ SizeEnd(k) = TickEnd(k) + Len(d)
       /\ Len(s) = Len(a) + Len(b) + Len(d) + Len(e) /\ starts[k + 1] = starts[k] + Len(s)
  <2>1. Len(s) = Len(a) + Len(b) + Len(d) + Len(e)
    BY <1>9
  <2>2. starts[k + 1] = starts[k] + Len(s)
    BY <1>6
  <2> QED BY <1>1, <1>2, <1>3, <1>4, <1>7, <2>1, <2>2
<1>10. /\ RawEnd(k) \in Nat /\ TickEnd(k) \in Nat /\ SizeEnd(k) \in Nat
       /\ starts[k] < RawEnd(k) /\ RawEnd(k) < TickEnd(k) /\ TickEnd(k) < SizeEnd(k)
       /\ starts[k + 1] = SizeEnd(k) + Len(e)
  BY <1>15, SMTT(30)
<1>11. WrittenAt(starts[k], a)
  <2>1. ASSUME NEW i \in 1 .. Len(a), starts[k] + i <= FileLen PROVE file[starts[k] + i] = a[i]
    <3>1. i \in 1 .. Len(s)
      BY <1>2, <1>3, <1>4, <1>9
    <3> QED BY <1>6, <1>9, <2>1, <3>1
  <2> QED BY <2>1 DEF WrittenAt
<1>12. WrittenAt(RawEnd(k), b)
  <2>1. ASSUME NEW i \in 1 .. Len(b), RawEnd(k) + i <= FileLen PROVE file[RawEnd(k) + i] = b[i]
    <3>1. Len(a) + i \in 1 .. Len(s) /\ RawEnd(k) + i = starts[k] + (Len(a) + i)
      BY <1>15, SMTT(30)
    <3> QED BY <1>6, <1>9, <2>1, <3>1
  <2> QED BY <2>1 DEF WrittenAt
<1>13. WrittenAt(TickEnd(k), d)
  <2>1. ASSUME NEW i \in 1 .. Len(d), TickEnd(k) + i <= FileLen PROVE file[TickEnd(k) + i] = d[i]
    <3>1. Len(a) + Len(b) + i \in 1 .. Len(s) /\ TickEnd(k) + i = starts[k] + (Len(a) + Len(b) + i)
      BY <1>15, SMTT(30)
    <3> QED BY <1>6, <1>9, <2>1, <3>1
  <2> QED BY <2>1 DEF WrittenAt
<1>14. WrittenAt(SizeEnd(k), e)
  <2>1. ASSUME NEW i \in 1 .. Len(e), SizeEnd(k) + i <= FileLen PROVE file[SizeEnd(k) + i] = e[i]
    <3>1. Len(a) + Len(b) + Len(d) + i \in 1 .. Len(s)
          /\ SizeEnd(k) + i = starts[k] + (Len(a) + Len(b) + Len(d) + i)
      BY <1>15, SMTT(30)
    <3> QED BY <1>6, <1>9, <2>1, <3>1
  <2> QED BY <2>1 DEF WrittenAt
<1> QED BY <1>1, <1>4, <1>10, <1>11, <1>12, <1>13, <1>14 DEF a, b, d, e

(* The header of a command that has begun, or none when it is cut. *)
LEMMA HeaderRead ==
  ASSUME LaidOut, NEW k \in 1 .. Len(recorded), starts[k] < FileLen
  PROVE  CmdHeader[starts[k]] = IF SizeEnd(k) <= FileLen THEN HeaderRecorded(k)
                                ELSE [body |-> Nowhere]
<1> DEFINE c == recorded[k]
           at == starts[k]
           tick == TakeVarint[at]
           size == TakeVarint[tick]
           body == TakeVarint[size]
<1>1. /\ at \in Nat /\ RawEnd(k) \in Nat /\ TickEnd(k) \in Nat /\ SizeEnd(k) \in Nat
      /\ at < RawEnd(k) /\ RawEnd(k) < TickEnd(k) /\ TickEnd(k) < SizeEnd(k)
      /\ WrittenAt(at, Varint(RawOf(c))) /\ WrittenAt(RawEnd(k), Varint(Unsigned(c.tick)))
      /\ WrittenAt(TickEnd(k), Varint(Len(Stored(c))))
  BY PartsWritten
<1>2. Writable(c) /\ FileLen \in Nat /\ file \in Seq(Nat)
  BY Recorded
<1>3. /\ RawOf(c) \in Nat /\ RawOf(c) < U32
      /\ Unsigned(c.tick) \in Nat /\ Unsigned(c.tick) < U32 /\ Signed(Unsigned(c.tick)) = c.tick
      /\ Len(Stored(c)) \in Nat /\ Len(Stored(c)) < U32
  BY <1>2, RawIs, UnsignedIs, StoredTyped
<1>4. RawEnd(k) = at + Len(Varint(RawOf(c))) /\ TickEnd(k) = RawEnd(k) + Len(Varint(Unsigned(c.tick)))
      /\ SizeEnd(k) = TickEnd(k) + Len(Varint(Len(Stored(c))))
  BY DEF RawEnd, TickEnd, SizeEnd
<1>5. TakeVarint[Nowhere] = Nowhere
  BY <1>2 DEF TakeVarint, Positions, Nowhere
<1>6. CmdHeader[at] = IF body = Nowhere THEN [body |-> Nowhere] ELSE HeaderOf(at, tick, size, body)
  <2>1. at \in Positions
    BY <1>1, <1>2 DEF Positions, Nowhere
  <2> QED BY <2>1 DEF CmdHeader
<1>7. IF RawEnd(k) <= FileLen THEN tick = RawEnd(k) /\ VarintAt[at] = RawOf(c) ELSE tick = Nowhere
  <2>1. at \in 0 .. FileLen
    BY <1>1, <1>2
  <2> QED BY <1>1, <1>2, <1>3, <1>4, <2>1, VarintRead, ZenonT(30)
<1>8. ASSUME RawEnd(k) <= FileLen
      PROVE  IF TickEnd(k) <= FileLen THEN size = TickEnd(k) /\ VarintAt[tick] = Unsigned(c.tick)
             ELSE size = Nowhere
  <2>1. RawEnd(k) \in 0 .. FileLen /\ tick = RawEnd(k)
    BY <1>1, <1>2, <1>7, <1>8
  <2>2. IF TickEnd(k) <= FileLen
        THEN TakeVarint[RawEnd(k)] = TickEnd(k) /\ VarintAt[RawEnd(k)] = Unsigned(c.tick)
        ELSE TakeVarint[RawEnd(k)] = Nowhere
    BY <1>1, <1>2, <1>3, <1>4, <2>1, VarintRead, ZenonT(30)
  <2> QED BY <2>1, <2>2
<1>9. ASSUME TickEnd(k) <= FileLen
      PROVE  IF SizeEnd(k) <= FileLen THEN body = SizeEnd(k) /\ VarintAt[size] = Len(Stored(c))
             ELSE body = Nowhere
  <2>1. TickEnd(k) \in 0 .. FileLen /\ RawEnd(k) <= FileLen
    BY <1>1, <1>2, <1>9
  <2>2. size = TickEnd(k)
    BY <1>8, <1>9, <2>1
  <2>3. IF SizeEnd(k) <= FileLen
        THEN TakeVarint[TickEnd(k)] = SizeEnd(k) /\ VarintAt[TickEnd(k)] = Len(Stored(c))
        ELSE TakeVarint[TickEnd(k)] = Nowhere
    <3> DEFINE z == Len(Stored(c))
               p == TickEnd(k)
    <3>1. /\ file \in Seq(Nat) /\ z \in Nat /\ z < U32 /\ p \in 0 .. FileLen
          /\ WrittenAt(p, Varint(z)) /\ SizeEnd(k) = p + Len(Varint(z))
      BY <1>1, <1>2, <1>3, <1>4, <2>1
    <3> HIDE DEF z, p
    <3>2. /\ p + Len(Varint(z)) <= FileLen => TakeVarint[p] = p + Len(Varint(z)) /\ VarintAt[p] = z
          /\ ~(p + Len(Varint(z)) <= FileLen) => TakeVarint[p] = Nowhere
      BY <3>1, VarintRead
    <3>3. IF SizeEnd(k) <= FileLen THEN TakeVarint[p] = SizeEnd(k) /\ VarintAt[p] = z
          ELSE TakeVarint[p] = Nowhere
      BY <3>1, <3>2
    <3> QED BY <3>3 DEF z, p
  <2> QED BY <2>2, <2>3
<1> HIDE DEF tick, size, body
<1>10. CASE SizeEnd(k) <= FileLen
  <2>1. TickEnd(k) <= FileLen /\ RawEnd(k) <= FileLen
    BY <1>1, <1>2, <1>10
  <2>2. /\ body = SizeEnd(k) /\ VarintAt[size] = Len(Stored(c))
        /\ VarintAt[tick] = Unsigned(c.tick) /\ VarintAt[at] = RawOf(c)
    BY <1>7, <1>8, <1>9, <1>10, <2>1
  <2>3. body # Nowhere
    BY <1>1, <2>2 DEF Nowhere
  <2> DEFINE flag == (RawOf(c) \div CompressedFlag) % 2
  <2>4. HeaderOf(at, tick, size, body) =
          [body |-> SizeEnd(k), cmd |-> RawOf(c) - flag * CompressedFlag,
           tick |-> Signed(Unsigned(c.tick)), compressed |-> flag = 1, size |-> Len(Stored(c))]
    BY <2>2 DEF HeaderOf
  <2>5. flag = (IF c.compressed THEN 1 ELSE 0) /\ c.compressed \in BOOLEAN /\ c.cmd \in Int
    BY <1>2, RawIs
  <2>6. CompressedFlag \in Nat
    BY FramesAssumption
  <2> HIDE DEF flag
  <2>7. RawOf(c) - flag * CompressedFlag = c.cmd /\ (flag = 1) = c.compressed
    <3>1. CASE c.compressed
      <4>1. flag = 1 /\ RawOf(c) = c.cmd + CompressedFlag
        BY <2>5, <3>1 DEF RawOf
      <4>2. RawOf(c) - flag * CompressedFlag = c.cmd
        BY <2>5, <2>6, <4>1
      <4> QED BY <2>5, <3>1, <4>1, <4>2
    <3>2. CASE ~c.compressed
      BY <2>5, <2>6, <3>2 DEF RawOf
    <3> QED BY <3>1, <3>2
  <2>8. HeaderOf(at, tick, size, body) = HeaderRecorded(k)
    BY <1>3, <2>4, <2>7 DEF HeaderRecorded
  <2> QED BY <1>6, <1>10, <2>3, <2>8
<1>11. CASE ~(SizeEnd(k) <= FileLen)
  <2>1. body = Nowhere
    <3>1. CASE TickEnd(k) <= FileLen
      BY <1>9, <1>11, <3>1
    <3>2. CASE ~(TickEnd(k) <= FileLen) /\ RawEnd(k) <= FileLen
      BY <1>5, <1>8, <3>2 DEF body
    <3>3. CASE ~(RawEnd(k) <= FileLen)
      BY <1>5, <1>7, <3>3 DEF body, size
    <3> QED BY <3>1, <3>2, <3>3
  <2> QED BY <1>6, <1>11, <2>1
<1> QED BY <1>10, <1>11

(* The iterator stands before the k-th command, or behind the last. *)
Iterators == [base : Nat, position : Int, index : Nat, failed : BOOLEAN]
Before(iter, k) ==
  /\ iter \in Iterators /\ ~iter.failed
  /\ k \in 1 .. Len(recorded) + 1 /\ iter.base + iter.position = starts[k]

(* The frame of the k-th command, given as the i-th behind the offset. *)
FrameOf(k, i) ==
  [kind |-> "frame", index |-> i, offset |-> starts[k], end_offset |-> starts[k + 1],
   header |-> HeaderRecorded(k)]

LEMMA NextChosen ==
  ASSUME NEW iter
  PROVE  NextCommand(iter) =
           IF iter.failed \/ iter.base + iter.position >= FileLen THEN [iter |-> iter, item |-> NoItem]
           ELSE Framed(iter, CmdHeader[iter.base + iter.position])
<1> DEFINE framed == Framed(iter, CmdHeader[iter.base + iter.position])
<1>1. {Framed(iter, header) : header \in {CmdHeader[iter.base + iter.position]}} = {framed}
  OBVIOUS
<1> HIDE DEF framed
<1>2. (CHOOSE next \in {framed} : TRUE) = framed
  OBVIOUS
<1>3. CASE iter.failed \/ iter.base + iter.position >= FileLen
  BY <1>3 DEF NextCommand
<1>4. CASE ~(iter.failed \/ iter.base + iter.position >= FileLen)
  <2>1. NextCommand(iter) =
          CHOOSE next \in {Framed(iter, header) : header \in {CmdHeader[iter.base + iter.position]}} : TRUE
    BY <1>4 DEF NextCommand
  <2>2. NextCommand(iter) = framed
    BY <1>1, <1>2, <2>1, Zenon
  <2> QED BY <1>4, <2>2 DEF framed
<1> QED BY <1>3, <1>4

LEMMA NextAtEnd ==
  ASSUME LaidOut, NEW iter, NEW k, Before(iter, k), ~(k <= Len(recorded) /\ starts[k] < FileLen)
  PROVE  NextCommand(iter) = [iter |-> iter, item |-> NoItem]
<1>1. starts[k] \in Nat /\ FileLen \in Nat /\ Len(recorded) \in Nat /\ k \in 1 .. Len(recorded) + 1
  BY Recorded DEF Before
<1>2. FileLen <= starts[Len(recorded) + 1]
  BY DEF LaidOut
<1>3. starts[k] >= FileLen
  <2>1. CASE k = Len(recorded) + 1
    BY <1>1, <1>2, <2>1
  <2>2. CASE k # Len(recorded) + 1
    BY <1>1, <2>2
  <2> QED BY <2>1, <2>2
<1> QED BY <1>3, NextChosen DEF Before

LEMMA NextFailed ==
  ASSUME NEW iter, iter.failed
  PROVE  NextCommand(iter) = [iter |-> iter, item |-> NoItem]
  BY NextChosen

LEMMA NextFramed ==
  ASSUME LaidOut, NEW iter, NEW k, Before(iter, k), k <= Len(recorded), starts[k] < FileLen
  PROVE  NextCommand(iter) = Framed(iter, CmdHeader[starts[k]])
<1>1. starts[k] \in Nat /\ FileLen \in Nat
  BY Recorded DEF Before
<1> QED BY <1>1, NextChosen DEF Before

LEMMA NextReadable ==
  ASSUME LaidOut, NEW iter, NEW k, Before(iter, k), Readable(k)
  PROVE  /\ NextCommand(iter).item = FrameOf(k, iter.index)
         /\ Before(NextCommand(iter).iter, k + 1)
         /\ NextCommand(iter).iter.base = iter.base
         /\ NextCommand(iter).iter.index = iter.index + 1
         /\ starts[k] < FileLen /\ EncodedBody(FrameOf(k, iter.index)) = Stored(recorded[k])
<1> DEFINE header == HeaderRecorded(k)
           size == Len(Stored(recorded[k]))
<1>1. k \in 1 .. Len(recorded) /\ starts[k + 1] <= FileLen /\ size <= MaxBody
  BY Recorded DEF Readable, Whole
<1>2. /\ starts[k] \in Nat /\ SizeEnd(k) \in Nat /\ starts[k + 1] \in Nat /\ size \in Nat
      /\ starts[k] < SizeEnd(k) /\ starts[k + 1] = SizeEnd(k) + size
      /\ WrittenAt(SizeEnd(k), Stored(recorded[k]))
  <2>1. starts[k] < RawEnd(k) /\ RawEnd(k) < TickEnd(k) /\ TickEnd(k) < SizeEnd(k)
        /\ starts[k] \in Nat /\ RawEnd(k) \in Nat /\ TickEnd(k) \in Nat /\ SizeEnd(k) \in Nat
    BY <1>1, PartsWritten
  <2> QED BY <1>1, <2>1, PartsWritten
<1>3. FileLen \in Nat /\ file \in Seq(Nat) /\ MaxBody \in Nat
  BY Recorded, FramesAssumption
<1>4. SizeEnd(k) <= FileLen /\ starts[k] < FileLen
  BY <1>1, <1>2, <1>3
<1>5. CmdHeader[starts[k]] = header
  BY <1>1, <1>4, HeaderRead
<1>6. header.body = SizeEnd(k) /\ header.size = size /\ SizeEnd(k) # Nowhere
  BY <1>2 DEF HeaderRecorded, Nowhere
<1>7. Take(SizeEnd(k), size) = starts[k + 1] /\ starts[k + 1] # Nowhere
  BY <1>1, <1>2, <1>3, <1>6 DEF Take, Nowhere
<1> HIDE DEF header, size
<1>8. Framed(iter, header) =
        [iter |-> [iter EXCEPT !.position = starts[k + 1] - iter.base, !.index = @ + 1],
         item |-> CommandFrame(iter, header, starts[k + 1])]
  <2>1. ~(size > MaxBody)
    BY <1>1, <1>2, <1>3
  <2> QED BY <1>6, <1>7, <2>1 DEF Framed
<1>9. NextCommand(iter) = Framed(iter, header)
  BY <1>1, <1>4, <1>5, NextFramed
<1>10. iter \in Iterators /\ ~iter.failed /\ iter.base + iter.position = starts[k]
  BY DEF Before
<1> DEFINE moved == [iter EXCEPT !.position = starts[k + 1] - iter.base, !.index = @ + 1]
<1>11. /\ moved \in Iterators /\ ~moved.failed /\ moved.base = iter.base
       /\ moved.position = starts[k + 1] - iter.base /\ moved.index = iter.index + 1
  <2>1. starts[k + 1] - iter.base \in Int /\ iter.index + 1 \in Nat
    BY <1>2, <1>10 DEF Iterators
  <2> QED BY <1>10, <2>1 DEF Iterators
<1> HIDE DEF moved
<1>12. Before(moved, k + 1)
  <2>1. k + 1 \in 1 .. Len(recorded) + 1
    BY <1>1, Recorded
  <2>2. moved.base + moved.position = starts[k + 1]
    BY <1>2, <1>10, <1>11 DEF Iterators
  <2> QED BY <1>11, <2>1, <2>2 DEF Before
<1>13. NextCommand(iter).iter = moved /\ NextCommand(iter).item = CommandFrame(iter, header, starts[k + 1])
  BY <1>8, <1>9 DEF moved
<1>14. CommandFrame(iter, header, starts[k + 1]) = FrameOf(k, iter.index)
  BY <1>10 DEF CommandFrame, FrameOf, header
<1>15. EncodedBody(FrameOf(k, iter.index)) = Stored(recorded[k])
  <2> DEFINE e == Stored(recorded[k])
             at == SizeEnd(k)
  <2>1. EncodedBody(FrameOf(k, iter.index)) = SubSeq(file, at + 1, at + size)
    BY <1>6 DEF EncodedBody, FrameOf, Taken, header
  <2>2. e \in Seq(Nat) /\ Len(e) = size
    BY <1>1, Recorded, StoredTyped DEF size
  <2> HIDE DEF e
  <2>3. \A i \in 1 .. size : file[at + i] = e[i] /\ at + i \in 1 .. FileLen
    <3>1. \A i \in 1 .. size : at + i <= FileLen /\ at + i \in 1 .. FileLen
      BY <1>1, <1>2, <1>3
    <3> QED BY <1>2, <2>2, <3>1 DEF WrittenAt, e
  <2>4. SubSeq(file, at + 1, at + size) = e
    <3> DEFINE t == SubSeq(file, at + 1, at + size)
    <3>1. at \in Nat /\ size \in Nat /\ at + size <= FileLen /\ FileLen = Len(file)
      BY <1>1, <1>2 DEF FileLen
    <3>2. t = [i \in 1 .. size |-> file[at + i]]
      BY <1>3, <3>1, SMTT(30)
    <3>3. t = [i \in 1 .. size |-> e[i]]
      BY <2>3, <3>2
    <3> QED BY <2>2, <3>3
  <2> QED BY <2>1, <2>4 DEF e
<1> QED BY <1>4, <1>11, <1>12, <1>13, <1>14, <1>15

LEMMA NextUnreadable ==
  ASSUME LaidOut, NEW iter, NEW k, Before(iter, k), k <= Len(recorded), starts[k] < FileLen, ~Readable(k)
  PROVE  /\ NextCommand(iter).item = Broken
         /\ NextCommand(iter).iter \in Iterators /\ NextCommand(iter).iter.failed
         /\ NextCommand(iter).iter.base = iter.base
         /\ NextCommand(iter).iter.index = iter.index
<1> DEFINE header == CmdHeader[starts[k]]
           size == Len(Stored(recorded[k]))
<1>1. /\ k \in 1 .. Len(recorded) /\ FileLen \in Nat /\ MaxBody \in Nat
      /\ iter \in Iterators /\ DOMAIN recorded = 1 .. Len(recorded)
  <2>1. Len(recorded) \in Nat
    BY Recorded
  <2> QED BY <2>1, Recorded, FramesAssumption DEF Before
<1>2. /\ SizeEnd(k) \in Nat /\ starts[k + 1] \in Nat /\ size \in Nat /\ starts[k + 1] = SizeEnd(k) + size
  BY <1>1, PartsWritten
<1>3. NextCommand(iter) = Framed(iter, header)
  BY NextFramed
<1>4. header = IF SizeEnd(k) <= FileLen THEN HeaderRecorded(k) ELSE [body |-> Nowhere]
  BY <1>1, HeaderRead
<1>5. Framed(iter, header) = Fail(iter, header) /\ (header.body = Nowhere \/ header.body \in Nat)
  <2>1. CASE ~(SizeEnd(k) <= FileLen)
    <3>1. header.body = Nowhere
      BY <1>4, <2>1
    <3> QED BY <3>1 DEF Framed
  <2>2. CASE SizeEnd(k) <= FileLen
    <3>1. header.body = SizeEnd(k) /\ header.size = size
      BY <1>4, <2>2 DEF HeaderRecorded
    <3>2. size > MaxBody \/ ~(starts[k + 1] <= FileLen)
      BY <1>1, <1>2 DEF Readable, Whole
    <3>3. size > MaxBody \/ Take(SizeEnd(k), size) = Nowhere
      BY <1>1, <1>2, <2>2, <3>2 DEF Take
    <3> HIDE DEF header, size
    <3> QED BY <1>2, <3>1, <3>3 DEF Framed
  <2> QED BY <2>1, <2>2
<1> DEFINE stays == (IF header.body = Nowhere THEN FileLen ELSE header.body) - iter.base
           moved == [iter EXCEPT !.failed = TRUE, !.position = stays]
<1>6. stays \in Int
  BY <1>1, <1>5 DEF Iterators
<1>7. Fail(iter, header) = [iter |-> moved, item |-> Broken]
  BY DEF Fail
<1> HIDE DEF stays, header
<1>8. moved \in Iterators /\ moved.failed /\ moved.base = iter.base /\ moved.index = iter.index
  BY <1>1, <1>6 DEF Iterators
<1> HIDE DEF moved
<1> QED BY <1>3, <1>5, <1>7, <1>8

----------------------------------------------------------------------------
(* The commands are those written.                                         *)

LEMMA StartsIncrease ==
  ASSUME LaidOut, NEW j \in DOMAIN starts, NEW k \in DOMAIN starts, j < k
  PROVE  starts[j] < starts[k]
<1> DEFINE n == Len(recorded)
           S == {m \in 0 .. k - (j + 1) : starts[j] < starts[(j + 1) + m]}
<1>1. n \in Nat /\ j \in 1 .. n + 1 /\ k \in 1 .. n + 1 /\ k - (j + 1) \in Nat
      /\ \A i \in 1 .. n + 1 : starts[i] \in Nat
  BY Recorded
<1>2. ASSUME NEW i \in 1 .. n PROVE starts[i] < starts[i + 1]
  <2>1. starts[i] < RawEnd(i) /\ RawEnd(i) < TickEnd(i) /\ TickEnd(i) < SizeEnd(i)
        /\ starts[i + 1] = SizeEnd(i) + Len(Stored(recorded[i]))
        /\ starts[i] \in Nat /\ RawEnd(i) \in Nat /\ TickEnd(i) \in Nat /\ SizeEnd(i) \in Nat
        /\ Len(Stored(recorded[i])) \in Nat
    BY PartsWritten
  <2> QED BY <2>1
<1>3. 0 \in S
  <2>1. j \in 1 .. n
    BY <1>1
  <2> QED BY <1>1, <1>2, <2>1
<1>4. ASSUME NEW m \in 0 .. k - (j + 1) - 1, m \in S PROVE m + 1 \in S
  <2>1. (j + 1) + m \in 1 .. n /\ ((j + 1) + m) + 1 = (j + 1) + (m + 1)
    <3> HIDE DEF n, S
    <3>1. n \in Nat /\ j \in Nat /\ k \in Nat /\ m \in Nat /\ k <= n + 1 /\ m + 1 <= k - (j + 1)
      BY <1>1
    <3> QED BY <3>1
  <2>2. starts[(j + 1) + m] < starts[(j + 1) + (m + 1)]
    BY <1>2, <2>1
  <2>3. (j + 1) + m \in 1 .. n + 1 /\ (j + 1) + (m + 1) \in 1 .. n + 1
    BY <1>1, <2>1, SMTT(30)
  <2>4. starts[j] < starts[(j + 1) + (m + 1)]
    <3>1. starts[j] < starts[(j + 1) + m] /\ starts[j] \in Nat /\ starts[(j + 1) + m] \in Nat
          /\ starts[(j + 1) + (m + 1)] \in Nat
      BY <1>1, <1>4, <2>3
    <3> QED BY <2>2, <3>1
  <2> QED BY <1>1, <1>4, <2>4
<1>5. \A m \in 0 .. k - (j + 1) : m \in S
  <2> HIDE DEF S
  <2> QED BY <1>1, <1>3, <1>4, Stepwise
<1>6. k - (j + 1) \in S /\ (j + 1) + (k - (j + 1)) = k
  BY <1>1, <1>5
<1> QED BY <1>6

(* An offset is that of one command. *)
LEMMA FirstIs ==
  ASSUME LaidOut, NEW f \in DOMAIN starts, starts[f] = commands.base
  PROVE  First = f
<1>1. DOMAIN starts \subseteq Nat /\ \A i \in DOMAIN starts : starts[i] \in Nat
  BY Recorded
<1>2. ASSUME NEW g \in DOMAIN starts, starts[g] = commands.base PROVE g = f
  <2>1. ~(g < f) /\ ~(f < g)
    BY <1>1, <1>2, StartsIncrease
  <2> QED BY <1>1, <2>1
<1> QED BY <1>2 DEF First

(* The iterator stands at the command its index and its offset tell, or it *)
(* has failed there.                                                       *)
Placed ==
  /\ LaidOut
  /\ commands \in Iterators /\ First \in DOMAIN starts /\ starts[First] = commands.base
  /\ Following \in 1 .. Len(recorded) + 1
  /\ ~commands.failed => Before(commands, Following)
  /\ commands.failed => Following \in Begun /\ ~Readable(Following)

(* What it gave last. *)
Given ==
  \/ frame = NoItem
  \/ frame = Broken /\ commands.failed
  \/ /\ frame = FrameOf(Current, frame.index) /\ frame.index \in Nat
     /\ Readable(Current) /\ EncodedBody(frame) = Stored(recorded[Current])
     /\ commands.index = frame.index + 1 /\ ~commands.failed

LEMMA FirstStays ==
  UNCHANGED <<recorded, starts>> /\ commands'.base = commands.base => First' = First
<1> SUFFICES ASSUME UNCHANGED <<recorded, starts>>, commands'.base = commands.base PROVE First' = First
  OBVIOUS
<1>1. First' = CHOOSE k \in DOMAIN starts : starts[k] = commands.base
  BY Zenon DEF First
<1> QED BY <1>1 DEF First

(* A call of next. *)
Called ==
  /\ UNCHANGED written
  /\ commands' = NextCommand(commands).iter
  /\ frame' = NextCommand(commands).item

LEMMA CallReads ==
  ASSUME Placed, Called
  PROVE  /\ Placed' /\ Given' /\ (frame' = NoItem => (Following \in Begun => commands.failed)')
         /\ First' = First /\ commands'.base = commands.base
         /\ IF commands.failed THEN frame' = NoItem /\ commands' = commands
            ELSE IF Following \notin Begun THEN frame' = NoItem /\ commands' = commands
            ELSE IF Readable(Following)
            THEN frame' = FrameOf(Following, commands.index) /\ commands'.index = commands.index + 1
            ELSE frame' = Broken /\ commands'.index = commands.index
<1> DEFINE next == NextCommand(commands)
           k == Following
<1>1. /\ LaidOut /\ LaidOut' /\ UNCHANGED <<file, recorded, starts>>
      /\ commands' = next.iter /\ frame' = next.item
  BY StaysLaidOut DEF Placed, Called, written
<1>2. /\ commands \in Iterators /\ First \in DOMAIN starts /\ starts[First] = commands.base
      /\ k \in 1 .. Len(recorded) + 1
  BY DEF Placed
<1>3. Len(recorded) \in Nat /\ DOMAIN recorded = 1 .. Len(recorded) /\ First \in Nat /\ commands.index \in Nat
  BY <1>1, <1>2, Recorded DEF Iterators
<1>4. /\ (Readable(k))' <=> \/ k' \in DOMAIN recorded /\ starts[k' + 1] <= FileLen
                               /\ Len(Stored(recorded[k'])) <= MaxBody
      /\ Begun' = Begun
  BY <1>1 DEF Readable, Whole, Begun, FileLen
<1>5. k = First + commands.index /\ k' = First' + commands'.index
  BY DEF Following
<1>6. \A j : Readable(j) <=> j \in DOMAIN recorded /\ starts[j + 1] <= FileLen /\ Len(Stored(recorded[j])) <= MaxBody
  BY DEF Readable, Whole
<1>7. k \in Begun <=> k <= Len(recorded) /\ starts[k] < FileLen
  BY <1>2, <1>3 DEF Begun
<1>8. \A i, j : FrameOf(i, j)' = FrameOf(i, j) 
  BY <1>1 DEF FrameOf, HeaderRecorded, SizeEnd, TickEnd, RawEnd
<1> HIDE DEF next
<1>9. CASE commands.failed
  <2>1. next = [iter |-> commands, item |-> NoItem]
    BY <1>9, NextFailed DEF next
  <2>2. commands' = commands /\ frame' = NoItem
    BY <1>1, <2>1
  <2>3. First' = First /\ k' = k
    BY <1>1, <1>5, <2>2, FirstStays
  <2>4. Placed'
    BY <1>1, <1>4, <1>6, <1>9, <2>2, <2>3 DEF Placed
  <2> QED BY <1>9, <2>2, <2>3, <2>4 DEF Given
<1>10. CASE ~commands.failed
  <2>1. Before(commands, k)
    BY <1>10 DEF Placed
  <2>2. CASE k \notin Begun
    <3>1. next = [iter |-> commands, item |-> NoItem]
      BY <1>1, <1>7, <2>1, <2>2, NextAtEnd DEF next
    <3>2. commands' = commands /\ frame' = NoItem
      BY <1>1, <3>1
    <3>3. First' = First /\ k' = k
      BY <1>1, <1>5, <3>2, FirstStays
    <3>4. Before(commands, k)'
      BY <1>1, <2>1, <3>2, <3>3 DEF Before
    <3>5. Placed'
      BY <1>1, <1>2, <1>10, <3>2, <3>3, <3>4 DEF Placed
    <3> QED BY <1>4, <1>10, <2>2, <3>2, <3>3, <3>5 DEF Given
  <2>3. CASE k \in Begun /\ Readable(k)
    <3>1. /\ frame' = FrameOf(k, commands.index) /\ Before(commands', k + 1)
          /\ commands'.base = commands.base /\ commands'.index = commands.index + 1
          /\ EncodedBody(FrameOf(k, commands.index)) = Stored(recorded[k])
      BY <1>1, <2>1, <2>3, NextReadable DEF next
    <3>2. First' = First
      BY <1>1, <3>1, FirstStays
    <3>3. k' = k + 1
      BY <1>3, <1>5, <3>1, <3>2
    <3>4. (Before(commands, k))'
      BY <1>1, <3>1, <3>3 DEF Before
    <3>5. commands' \in Iterators /\ ~commands'.failed /\ k + 1 \in 1 .. Len(recorded) + 1
      BY <3>1 DEF Before
    <3>6. Placed'
      BY <1>1, <1>2, <3>1, <3>2, <3>3, <3>4, <3>5 DEF Placed
    <3>7. frame'.index = commands.index /\ frame' # NoItem
      BY <3>1 DEF FrameOf, NoItem
    <3>8. Current' = k
      BY <1>5, <3>2, <3>7 DEF Current
    <3>9. frame' = FrameOf(Current, frame.index)'
      BY <1>8, <3>1, <3>7, <3>8
    <3>10. Readable(Current)' /\ (EncodedBody(frame) = Stored(recorded[Current]))'
      BY <1>1, <1>6, <2>3, <3>1, <3>8 DEF Readable, Whole, FileLen, EncodedBody, Taken
    <3>11. Given'
      BY <1>3, <3>1, <3>5, <3>7, <3>9, <3>10 DEF Given
    <3> QED BY <1>10, <2>3, <3>1, <3>2, <3>6, <3>7, <3>11
  <2>4. CASE k \in Begun /\ ~Readable(k)
    <3>1. /\ frame' = Broken /\ commands' \in Iterators /\ commands'.failed
          /\ commands'.base = commands.base /\ commands'.index = commands.index
      BY <1>1, <1>7, <2>1, <2>4, NextUnreadable DEF next
    <3>2. First' = First /\ k' = k
      BY <1>1, <1>5, <3>1, FirstStays
    <3>3. Placed'
      BY <1>1, <1>2, <1>4, <1>6, <2>4, <3>1, <3>2 DEF Placed
    <3>4. Broken # NoItem
      BY DEF Broken, NoItem
    <3> QED BY <1>10, <2>4, <3>1, <3>2, <3>3, <3>4 DEF Given
  <2> QED BY <2>2, <2>3, <2>4
<1> QED BY <1>9, <1>10

(* The offsets an index holds are those of commands. *)
Offsets(idx) ==
  /\ idx.full_packets \in Seq([offset : {starts[k] : k \in DOMAIN starts}, tick : Int])
  /\ idx.stream_start \in {NoStart} \cup {starts[k] : k \in DOMAIN starts}

(* The loops stop where no command that could be read is left.             *)
ReadsInOrder ==
  /\ Placed /\ Given
  /\ phase \notin {"closed", "rejected"} => FileLen >= HEADER_SIZE
  /\ frame = NoItem /\ phase \in {"indexed", "inspected", "ended"} =>
       (Following \in Begun => commands.failed)
  /\ phase \in {"body", "messages"} => frame.kind = "frame"
  /\ DOMAIN index = DOMAIN NewIndex /\ Offsets(index)

LEMMA PlacedAt ==
  ASSUME LaidOut, NEW f \in DOMAIN starts
  PROVE  commands = CommandIter(starts[f]) => Placed
<1> SUFFICES ASSUME commands = CommandIter(starts[f]) PROVE Placed
  OBVIOUS
<1>1. /\ f \in 1 .. Len(recorded) + 1 /\ starts[f] \in Nat
      /\ commands.base = starts[f] /\ commands.position = 0 /\ commands.index = 0
      /\ commands.failed = FALSE /\ commands \in Iterators
  BY Recorded DEF CommandIter, Iterators
<1>2. First = f
  BY <1>1, FirstIs
<1>3. Following = f
  BY <1>1, <1>2 DEF Following
<1> QED BY <1>1, <1>2, <1>3 DEF Placed, Before

LEMMA FrameIs ==
  ASSUME Placed, Given, frame.kind = "frame"
  PROVE  /\ Current \in 1 .. Len(recorded) /\ Readable(Current) /\ frame.index \in Nat
         /\ frame = FrameOf(Current, frame.index) /\ EncodedBody(frame) = Stored(recorded[Current])
         /\ commands.index = frame.index + 1 /\ Following = Current + 1 /\ ~commands.failed
<1>1. frame # NoItem /\ frame # Broken
  BY DEF NoItem, Broken
<1>2. /\ frame = FrameOf(Current, frame.index) /\ frame.index \in Nat /\ Readable(Current)
      /\ EncodedBody(frame) = Stored(recorded[Current])
      /\ commands.index = frame.index + 1 /\ ~commands.failed
  BY <1>1 DEF Given
<1>3. Current \in 1 .. Len(recorded)
  BY <1>2, Recorded DEF Readable, Whole, Placed
<1>4. First \in Int
  BY Recorded DEF Placed
<1> QED BY <1>2, <1>3, <1>4 DEF Following, Current

(* What the pass over the headers does with a frame keeps its offsets. *)
LEMMA FrameIndexed ==
  ASSUME LaidOut, DOMAIN index = DOMAIN NewIndex, Offsets(index), NEW k \in 1 .. Len(recorded), NEW i
  PROVE  LET next == IndexFrame(index, FrameOf(k, i))
         IN  DOMAIN next = DOMAIN NewIndex /\ Offsets(next)
<1> DEFINE f == FrameOf(k, i)
           next == IndexFrame(index, f)
           At == {starts[j] : j \in DOMAIN starts}
           Full == [offset : At, tick : Int]
           full == [offset |-> f.offset, tick |-> f.header.tick]
           changed == index.schema_changes \/ f.header.cmd \in {SEND_TABLES, CLASS_INFO}
           packets == IF f.header.cmd = FULL_PACKET THEN Append(index.full_packets, full)
                      ELSE index.full_packets
           seen == [index EXCEPT !.schema_changes = changed, !.full_packets = packets]
<1>1. /\ f.offset = starts[k] /\ f.end_offset = starts[k + 1] /\ f.header.tick = recorded[k].tick
  BY DEF FrameOf, HeaderRecorded
<1>2. k \in DOMAIN starts /\ k + 1 \in DOMAIN starts /\ recorded[k].tick \in Int
  <2>1. Writable(recorded[k]) /\ PowerOf2[HalfBits - 1] \in Nat
    BY Recorded, BasesAre
  <2>2. recorded[k].tick \in -PowerOf2[HalfBits - 1] .. PowerOf2[HalfBits - 1] - 1
    BY <2>1 DEF Writable, RecordedCommands
  <2>3. recorded[k].tick \in Int
    BY <2>1, <2>2
  <2>4. k \in DOMAIN starts /\ k + 1 \in DOMAIN starts
    BY Recorded
  <2> QED BY <2>3, <2>4
<1>3. full \in Full
  BY <1>1, <1>2
<1>4. index.full_packets \in Seq(Full) /\ index.stream_start \in {NoStart} \cup At
  BY DEF Offsets
<1>5. next = IF f.header.cmd = SYNC_TICK THEN Synced(index, f)
             ELSE IF ~index.past_sync THEN index ELSE Ticked(seen, f.header.tick)
  BY DEF IndexFrame
<1> HIDE DEF f, full, At
<1>6. packets \in Seq(Full)
  <2> HIDE DEF Full
  <2> QED BY <1>3, <1>4
<1> HIDE DEF changed, packets, Full
<1>7. DOMAIN index = {"full_packets", "distinct_ticks", "stream_start", "schema_changes", "past_sync", "last_tick"}
  BY DEF NewIndex
<1>8. DOMAIN seen = DOMAIN index /\ seen.full_packets = packets /\ seen.stream_start = index.stream_start
  BY <1>7
<1> HIDE DEF seen
<1>9. CASE f.header.cmd = SYNC_TICK
  <2>1. /\ DOMAIN Synced(index, f) = DOMAIN index
        /\ Synced(index, f).full_packets = index.full_packets
        /\ Synced(index, f).stream_start \in {index.stream_start, f.end_offset}
    BY <1>7 DEF Synced
  <2>2. f.end_offset \in At
    BY <1>1, <1>2 DEF At
  <2>3. next = Synced(index, f)
    BY <1>5, <1>9
  <2> QED BY <1>4, <2>1, <2>2, <2>3 DEF Offsets, f, At, Full
<1>10. CASE f.header.cmd # SYNC_TICK /\ ~index.past_sync
  <2>1. next = index
    BY <1>5, <1>10
  <2> QED BY <2>1 DEF f
<1>11. CASE f.header.cmd # SYNC_TICK /\ index.past_sync
  <2>1. next = Ticked(seen, f.header.tick)
    BY <1>5, <1>11
  <2>2. DOMAIN next = DOMAIN seen /\ next.full_packets = seen.full_packets
        /\ next.stream_start = seen.stream_start
    BY <1>7, <1>8, <2>1 DEF Ticked
  <2> QED BY <1>4, <1>6, <1>8, <2>2 DEF Offsets, f, At, Full
<1> HIDE DEF next
<1> QED BY <1>9, <1>10, <1>11 DEF next, f

LEMMA InitReadsInOrder == Init => ReadsInOrder
<1> SUFFICES ASSUME Init PROVE ReadsInOrder
  OBVIOUS
<1>1. LaidOut
  BY InitLaidOut
<1>2. 1 \in DOMAIN starts /\ starts[1] = HEADER_SIZE
  BY <1>1, Recorded DEF LaidOut
<1>3. commands = CommandIter(starts[1]) /\ frame = NoItem /\ phase = "closed" /\ index = NewIndex
  BY <1>2 DEF Init
<1>4. Placed /\ Given
  BY <1>1, <1>2, <1>3, PlacedAt DEF Given
<1>5. Offsets(index)
  BY <1>3 DEF Offsets, NewIndex
<1> QED BY <1>3, <1>4, <1>5 DEF ReadsInOrder

LEMMA KnownIsStart ==
  ASSUME LaidOut, FileLen >= HEADER_SIZE, Offsets(index), NEW offset \in Known
  PROVE  \E f \in DOMAIN starts : offset = starts[f]
<1>1. 1 \in DOMAIN starts /\ Len(recorded) \in DOMAIN starts /\ starts[1] = HEADER_SIZE
  BY Recorded DEF LaidOut
<1>2. HeaderOffset(0) \in {0, starts[Len(recorded)]} /\ HeaderOffset(1) = 0
  BY DEF LaidOut
<1>3. CASE offset = HEADER_SIZE
  BY <1>1, <1>3
<1>4. CASE offset \in {HeaderOffset(0), HeaderOffset(1)} /\ offset # 0
  BY <1>1, <1>2, <1>4
<1>5. CASE offset \in {full.offset : full \in Range(index.full_packets)}
  <2>1. PICK full \in Range(index.full_packets) : offset = full.offset
    BY <1>5
  <2>2. PICK i \in DOMAIN index.full_packets : full = index.full_packets[i]
    BY <2>1 DEF Range
  <2> DEFINE At == {starts[k] : k \in DOMAIN starts}
             Full == [offset : At, tick : Int]
  <2>3. index.full_packets \in Seq(Full)
    BY DEF Offsets
  <2>4. full \in Full
    <3> HIDE DEF Full
    <3> QED BY <2>2, <2>3
  <2>5. full.offset \in At
    <3> HIDE DEF At
    <3> QED BY <2>4
  <2> QED BY <2>1, <2>5
<1>6. CASE offset = index.stream_start /\ offset # NoStart
  BY <1>6 DEF Offsets
<1> QED BY <1>3, <1>4, <1>5, <1>6 DEF Known

LEMMA NextReadsInOrder == ReadsInOrder /\ [Next]_vars => ReadsInOrder'
<1> SUFFICES ASSUME ReadsInOrder, [Next]_vars PROVE ReadsInOrder'
  OBVIOUS
<1>1. /\ Placed /\ Given /\ LaidOut
      /\ phase \notin {"closed", "rejected"} => FileLen >= HEADER_SIZE
      /\ frame = NoItem /\ phase \in {"indexed", "inspected", "ended"} =>
           (Following \in Begun => commands.failed)
      /\ phase \in {"body", "messages"} => frame.kind = "frame"
      /\ DOMAIN index = DOMAIN NewIndex /\ Offsets(index)
  BY DEF ReadsInOrder, Placed
(* Most actions leave the iterator and its frame as they are. *)
<1>2. ASSUME UNCHANGED <<written, commands, frame, index>>,
             phase' \in {"closed", "rejected"} \/ FileLen >= HEADER_SIZE,
             phase' \in {"indexed", "inspected", "ended"} => frame # NoItem \/ phase' = phase,
             phase' \in {"body", "messages"} => frame.kind = "frame"
      PROVE  ReadsInOrder'
  <2>0. UNCHANGED <<file, recorded, starts>> /\ LaidOut'
    BY <1>1, <1>2, StaysLaidOut DEF written
  <2>1. First' = First
    BY <1>2, <2>0, FirstStays
  <2>2. Following' = Following /\ Current' = Current
    BY <1>2, <2>1 DEF Following, Current
  <2>3. Begun' = Begun /\ Readable(Following)' = Readable(Following)
        /\ Readable(Current)' = Readable(Current)
    BY <2>0, <2>2 DEF Begun, Readable, Whole, FileLen
  <2>4. Placed'
    BY <1>1, <1>2, <2>0, <2>1, <2>2, <2>3 DEF Placed, Before
  <2>5. Given'
    BY <1>1, <1>2, <2>0, <2>2, <2>3
       DEF Given, FrameOf, HeaderRecorded, SizeEnd, TickEnd, RawEnd, EncodedBody, Taken
  <2>6. Offsets(index)' /\ FileLen' = FileLen
    BY <1>1, <1>2, <2>0 DEF Offsets, FileLen
  <2>7. (frame = NoItem /\ phase \in {"indexed", "inspected", "ended"} =>
           (Following \in Begun => commands.failed))'
    BY <1>1, <1>2, <2>2, <2>3
  <2> QED BY <1>1, <1>2, <2>4, <2>5, <2>6, <2>7 DEF ReadsInOrder
(* A call of next. *)
<1>3. ASSUME Called, phase \notin {"closed", "rejected"},
             phase' \in {"body", "messages"} => frame'.kind = "frame",
             DOMAIN index' = DOMAIN NewIndex /\ Offsets(index')
      PROVE  ReadsInOrder'
  <2>1. Placed' /\ Given' /\ (frame' = NoItem => (Following \in Begun => commands.failed)')
    BY <1>1, <1>3, CallReads
  <2>2. FileLen' = FileLen /\ FileLen >= HEADER_SIZE /\ UNCHANGED starts
    BY <1>1, <1>3 DEF Called, written, FileLen
  <2>3. Offsets(index)'
    BY <1>3, <2>2 DEF Offsets
  <2> QED BY <1>3, <2>1, <2>2, <2>3 DEF ReadsInOrder
(* A new iterator at an offset the library gave. *)
<1>4. ASSUME UNCHANGED <<written, index>>, FileLen >= HEADER_SIZE, frame' = NoItem,
             phase' \in {"inspecting", "reading"},
             NEW f \in DOMAIN starts, commands' = CommandIter(starts[f])
      PROVE  ReadsInOrder'
  <2>0. UNCHANGED <<file, recorded, starts>> /\ LaidOut'
    BY <1>1, <1>4, StaysLaidOut DEF written
  <2>1. /\ f \in 1 .. Len(recorded) + 1 /\ starts[f] \in Nat
        /\ commands'.base = starts[f] /\ commands'.position = 0 /\ commands'.index = 0
        /\ commands'.failed = FALSE /\ commands' \in Iterators
    BY <1>1, <1>4, Recorded DEF CommandIter, Iterators
  <2>2. First' = f
    <3>1. DOMAIN starts \subseteq Nat /\ \A i \in DOMAIN starts : starts[i] \in Nat
      BY <1>1, Recorded
    <3>2. ASSUME NEW g \in DOMAIN starts, starts[g] = starts[f] PROVE g = f
      <4>1. ~(g < f) /\ ~(f < g)
        BY <1>1, <3>1, <3>2, StartsIncrease
      <4> QED BY <3>1, <4>1
    <3>3. First' = CHOOSE k \in DOMAIN starts : starts[k] = starts[f]
      BY <2>0, <2>1, Zenon DEF First
    <3> QED BY <3>2, <3>3
  <2>3. Following' = f
    BY <2>1, <2>2 DEF Following
  <2>4. Placed'
    BY <2>0, <2>1, <2>2, <2>3 DEF Placed, Before
  <2>5. Given'
    BY <1>4 DEF Given
  <2>6. Offsets(index)' /\ FileLen' = FileLen
    BY <1>1, <1>4, <2>0 DEF Offsets, FileLen
  <2> QED BY <1>1, <1>4, <2>4, <2>5, <2>6 DEF ReadsInOrder
<1>5. CASE Open
  <2>1. FileLen >= HEADER_SIZE \/ phase' = "rejected"
    BY <1>5 DEF Open, HeaderAccepted
  <2> QED BY <1>2, <1>5, <2>1 DEF Open
<1>6. CASE IndexNext
  <2> DEFINE next == NextCommand(commands)
  <2>1. /\ Called /\ phase = "indexing" /\ phase' \in {"indexing", "indexed"}
        /\ index' = index \/ (index' = IndexFrame(index, frame') /\ frame'.kind = "frame")
    <3>1. PICK n \in {next} :
            LET goes_on == n.item.kind = "frame" /\ n.item.header.cmd # STOP
            IN  /\ commands' = n.iter /\ frame' = n.item
                /\ index' = IF goes_on THEN IndexFrame(index, n.item) ELSE index
                /\ phase' = IF goes_on THEN "indexing" ELSE "indexed"
      BY <1>6 DEF IndexNext
    <3>2. n = NextCommand(commands)
      OBVIOUS
    <3> HIDE DEF next
    <3>3. phase = "indexing" /\ UNCHANGED written
      BY <1>6 DEF IndexNext
    <3>4. Called
      BY <3>1, <3>2, <3>3 DEF Called
    <3>5. CASE n.item.kind = "frame" /\ n.item.header.cmd # STOP
      BY <3>1, <3>3, <3>4, <3>5
    <3>6. CASE ~(n.item.kind = "frame" /\ n.item.header.cmd # STOP)
      <4>1. index' = index /\ phase' = "indexed"
        BY <3>1, <3>6, Zenon
      <4> QED BY <3>3, <3>4, <4>1
    <3> QED BY <3>5, <3>6
  <2>2. DOMAIN index' = DOMAIN NewIndex /\ Offsets(index')
    <3>1. CASE index' = index
      BY <1>1, <3>1
    <3>2. CASE index' = IndexFrame(index, frame') /\ frame'.kind = "frame"
      <4>1. frame' # NoItem /\ frame' # Broken
        BY <3>2 DEF NoItem, Broken
      <4>2. frame' = FrameOf(Following, commands.index) /\ Readable(Following)
        BY <1>1, <2>1, <4>1, CallReads
      <4>3. Following \in 1 .. Len(recorded)
        BY <1>1, <4>2, Recorded DEF Readable, Whole
      <4> QED BY <1>1, <3>2, <4>2, <4>3, FrameIndexed
    <3> QED BY <2>1, <3>1, <3>2
  <2> QED BY <1>3, <2>1, <2>2
<1>7. CASE Inspect
  <2>1. 1 \in DOMAIN starts /\ HEADER_SIZE = starts[1]
    BY <1>1, Recorded DEF LaidOut
  <2>2. commands' = CommandIter(starts[1]) /\ FileLen >= HEADER_SIZE
    BY <1>1, <1>7, <2>1 DEF Inspect
  <2> QED BY <1>4, <1>7, <2>1, <2>2 DEF Inspect
<1>8. CASE InspectNext
  <2>1. /\ phase = "inspecting" /\ UNCHANGED <<index, written>>
        /\ commands' = NextCommand(commands).iter /\ frame' = NextCommand(commands).item
    BY <1>8 DEF InspectNext
  <2>2. phase' \in {"inspecting", "inspected", "ended"}
    BY <1>8 DEF InspectNext
  <2>3. Called
    BY <2>1 DEF Called
  <2> QED BY <1>1, <1>3, <2>1, <2>2, <2>3
<1>9. CASE Read
  <2>1. FileLen >= HEADER_SIZE /\ frame' = NoItem /\ phase' = "reading" /\ UNCHANGED <<written, index>>
    BY <1>1, <1>9 DEF Read
  <2>2. PICK offset \in Known : commands' = CommandIter(offset)
    BY <1>9 DEF Read
  <2>3. PICK f \in DOMAIN starts : offset = starts[f]
    BY <1>1, <2>1, <2>2, KnownIsStart
  <2> QED BY <1>4, <2>1, <2>2, <2>3
<1>10. CASE ReadNext
  <2>1. /\ phase = "reading" /\ UNCHANGED <<index, written>>
        /\ commands' = NextCommand(commands).iter /\ frame' = NextCommand(commands).item
        /\ phase' = CASE frame'.kind = "none"  -> "ended"
                      [] frame'.kind = "error" -> IF tolerant THEN "reading" ELSE "ended"
                      [] frame'.kind = "frame" -> "body"
    BY <1>10 DEF ReadNext
  <2>2. Called
    BY <2>1 DEF Called
  <2>3. frame'.kind \in {"none", "error", "frame"}
    <3>1. frame' = NoItem \/ frame' = Broken \/ frame' = FrameOf(Following, commands.index)
      BY <1>1, <2>2, CallReads
    <3> QED BY <3>1 DEF NoItem, Broken, FrameOf
  <2>4. phase' \in {"body", "messages"} => frame'.kind = "frame"
    BY <2>1, <2>3
  <2> QED BY <1>1, <1>3, <2>1, <2>2, <2>4
<1>11. CASE DecodeBody
  <2>1. /\ phase = "body" /\ UNCHANGED <<written, index, commands, frame>>
        /\ phase' \in {"reading", "ended", "messages"}
    BY <1>11 DEF DecodeBody
  <2>2. frame # NoItem
    BY <1>1, <2>1 DEF NoItem
  <2> QED BY <1>1, <1>2, <2>1, <2>2
<1>12. CASE MessageNext
  <2>1. /\ phase = "messages" /\ UNCHANGED <<written, index, commands, frame>>
    BY <1>12 DEF MessageNext
  <2>2. NextMessage(messages).item.kind \in {"none", "error", "frame"}
    BY DEF NextMessage, NoMessage, BrokenMessage
  <2>3. phase' \in {"reading", "ended", "messages"}
    <3>1. PICK n \in {NextMessage(messages)} :
            phase' = CASE n.item.kind = "none"  -> "reading"
                     [] n.item.kind = "error" -> IF tolerant THEN "messages" ELSE "ended"
                     [] n.item.kind = "frame" -> "messages"
      BY <1>12 DEF MessageNext
    <3>2. n.item.kind \in {"none", "error", "frame"}
      BY <2>2
    <3> QED BY <3>1, <3>2
  <2>4. frame # NoItem
    BY <1>1, <2>1 DEF NoItem
  <2> QED BY <1>1, <1>2, <2>1, <2>3, <2>4
<1>13. CASE UNCHANGED vars
  <2>1. UNCHANGED <<written, index, commands, frame, phase>>
    BY <1>13 DEF vars
  <2> QED BY <1>1, <1>2, <2>1
<1> QED BY <1>5, <1>6, <1>7, <1>8, <1>9, <1>10, <1>11, <1>12, <1>13 DEF Next, Step

LEMMA ReadInOrder == Spec => []ReadsInOrder
<1>1. Init => ReadsInOrder
  BY InitReadsInOrder
<1>2. ReadsInOrder /\ [Next]_vars => ReadsInOrder'
  BY NextReadsInOrder
<1> QED BY <1>1, <1>2, PTL DEF Spec

(* Whatever is recorded and wherever the file is cut, the commands are     *)
(* those written, each at the offsets that lead back to it (CommandIter).  *)
THEOREM ReadAsWritten == Spec => []CommandsAsWritten
<1>1. ReadsInOrder => CommandsAsWritten
  <2> SUFFICES ASSUME ReadsInOrder PROVE CommandsAsWritten
    OBVIOUS
  <2>1. /\ Placed /\ Given /\ LaidOut
        /\ frame = NoItem /\ phase \in {"indexed", "inspected", "ended"} =>
             (Following \in Begun => commands.failed)
    BY DEF ReadsInOrder, Placed
  <2>2. CASE frame.kind = "frame"
    <3>1. /\ Current \in 1 .. Len(recorded) /\ Readable(Current)
          /\ frame = FrameOf(Current, frame.index) /\ EncodedBody(frame) = Stored(recorded[Current])
      BY <2>1, <2>2, FrameIs
    <3>2. /\ frame.offset = starts[Current] /\ frame.end_offset = starts[Current + 1]
          /\ frame.header.cmd = recorded[Current].cmd /\ frame.header.tick = recorded[Current].tick
      BY <3>1 DEF FrameOf, HeaderRecorded
    <3> QED BY <2>2, <3>1, <3>2 DEF CommandsAsWritten
  <2>3. CASE frame.kind = "error"
    <3>1. commands.failed
      BY <2>1, <2>3 DEF Given, NoItem, FrameOf
    <3> QED BY <2>1, <2>3, <3>1 DEF CommandsAsWritten, Placed
  <2>4. CASE frame.kind = "none"
    <3>1. frame = NoItem
      BY <2>1, <2>4 DEF Given, Broken, FrameOf
    <3> QED BY <2>1, <2>4, <3>1 DEF CommandsAsWritten, Placed
  <2> QED BY <2>1, <2>2, <2>3, <2>4 DEF Given, NoItem, Broken, FrameOf
<1> QED BY <1>1, ReadInOrder, PTL

----------------------------------------------------------------------------
(* Sets of commands in ascending order.                                    *)

LEMMA SameCount == ASSUME NEW S PROVE Headers!Cardinality(S) = Cardinality(S)
  BY DEF Headers!Cardinality, Cardinality

LEMMA AtRankIs ==
  ASSUME NEW S, NEW i
  PROVE  Headers!AtRank(S, i) = {k \in S : Cardinality({j \in S : j <= k}) = i}
  BY SameCount DEF Headers!AtRank

LEMMA InOrderIs ==
  ASSUME NEW S
  PROVE  Headers!InOrder(S) =
           [i \in 1 .. Cardinality(S) |-> CHOOSE k \in Headers!AtRank(S, i) : TRUE]
  BY SameCount DEF Headers!InOrder

(* S is the lower part of T. *)
Below(S, T) == S \subseteq T /\ \A j \in S, k \in T \ S : j < k

LEMMA RankBelow ==
  ASSUME NEW T, T \subseteq Int, IsFiniteSet(T), NEW S, Below(S, T)
  PROVE  /\ IsFiniteSet(S) /\ Cardinality(S) \in Nat /\ Cardinality(T) \in Nat
         /\ Cardinality(S) <= Cardinality(T)
         /\ \A i \in 1 .. Cardinality(S) : Headers!AtRank(T, i) = Headers!AtRank(S, i)
<1>1. /\ IsFiniteSet(S) /\ Cardinality(S) \in Nat /\ Cardinality(T) \in Nat
      /\ Cardinality(S) <= Cardinality(T) /\ S \subseteq T
  BY FS_Subset, FS_CardinalityType DEF Below
<1>2. ASSUME NEW i \in 1 .. Cardinality(S)
      PROVE  Headers!AtRank(T, i) = Headers!AtRank(S, i)
  <2>1. ASSUME NEW k \in S
        PROVE  {j \in T : j <= k} = {j \in S : j <= k}
    <3>1. \A j \in T \ S : k < j /\ j \in Int /\ k \in Int
      BY <1>1 DEF Below
    <3>2. \A j \in T \ S : ~(j <= k)
      BY <3>1
    <3> QED BY <1>1, <3>2
  <2>2. ASSUME NEW k \in T \ S
        PROVE  Cardinality({j \in T : j <= k}) # i
    <3> DEFINE low == {j \in T : j <= k}
    <3>1. S \cup {k} \subseteq low /\ k \notin S
      BY <1>1 DEF Below
    <3>2. IsFiniteSet(low)
      BY FS_Subset
    <3>3. Cardinality(S \cup {k}) = Cardinality(S) + 1
      BY <1>1, <3>1, FS_AddElement
    <3>4. Cardinality(S \cup {k}) <= Cardinality(low) /\ Cardinality(low) \in Nat
      BY <3>1, <3>2, FS_Subset, FS_CardinalityType
    <3> HIDE DEF low
    <3> QED BY <1>1, <3>3, <3>4 DEF low
  <2> QED BY <1>1, <2>1, <2>2, AtRankIs
<1> QED BY <1>1, <1>2

(* The lower part of a set comes first. *)
LEMMA InOrderBelow ==
  ASSUME NEW T, T \subseteq Int, IsFiniteSet(T), NEW S, Below(S, T)
  PROVE  /\ Cardinality(S) \in Nat /\ Cardinality(T) \in Nat
         /\ Cardinality(S) <= Cardinality(T)
         /\ DOMAIN Headers!InOrder(S) = 1 .. Cardinality(S)
         /\ DOMAIN Headers!InOrder(T) = 1 .. Cardinality(T)
         /\ \A i \in 1 .. Cardinality(S) : Headers!InOrder(T)[i] = Headers!InOrder(S)[i]
<1>1. \A i \in 1 .. Cardinality(S) : Headers!AtRank(T, i) = Headers!AtRank(S, i)
  BY RankBelow
<1>2. Cardinality(S) \in Nat /\ Cardinality(T) \in Nat /\ Cardinality(S) <= Cardinality(T)
  BY RankBelow
<1>3. DOMAIN Headers!InOrder(S) = 1 .. Cardinality(S) /\ DOMAIN Headers!InOrder(T) = 1 .. Cardinality(T)
  BY InOrderIs
<1>4. ASSUME NEW i \in 1 .. Cardinality(S) PROVE Headers!InOrder(T)[i] = Headers!InOrder(S)[i]
  <2>1. i \in 1 .. Cardinality(T)
    BY <1>2
  <2>2. Headers!InOrder(T)[i] = CHOOSE k \in Headers!AtRank(T, i) : TRUE
    BY <2>1, InOrderIs
  <2>3. Headers!InOrder(S)[i] = CHOOSE k \in Headers!AtRank(S, i) : TRUE
    BY InOrderIs
  <2>4. Headers!AtRank(T, i) = Headers!AtRank(S, i)
    BY <1>1
  <2> QED BY <2>2, <2>3, <2>4, Zenon
<1> QED BY <1>2, <1>3, <1>4

(* A new greatest element comes last. *)
LEMMA InOrderAdd ==
  ASSUME NEW S, S \subseteq Int, IsFiniteSet(S), NEW m \in Int, \A j \in S : j < m
  PROVE  /\ Cardinality(S) \in Nat
         /\ IsFiniteSet(S \cup {m}) /\ Cardinality(S \cup {m}) = Cardinality(S) + 1
         /\ Below(S, S \cup {m})
         /\ Headers!InOrder(S \cup {m})[Cardinality(S) + 1] = m
<1> DEFINE T == S \cup {m}
           n == Cardinality(S)
<1>1. m \notin S /\ Below(S, T)
  BY DEF Below
<1>2. n \in Nat /\ IsFiniteSet(T) /\ Cardinality(T) = n + 1
  BY <1>1, FS_AddElement, FS_CardinalityType
<1>3. {j \in T : j <= m} = T
  <2>1. \A j \in T : j <= m
    OBVIOUS
  <2> QED BY <2>1
<1>4. ASSUME NEW k \in S
      PROVE  Cardinality({j \in T : j <= k}) # n + 1
  <2> DEFINE low == {j \in T : j <= k}
  <2>1. low \subseteq S
    OBVIOUS
  <2>2. Cardinality(low) <= n /\ Cardinality(low) \in Nat
    BY <2>1, FS_Subset, FS_CardinalityType
  <2> HIDE DEF low, T, n
  <2>3. Cardinality(low) # n + 1
    BY <1>2, <2>2
  <2> QED BY <2>3 DEF low
<1>5. Headers!AtRank(T, n + 1) = {m}
  BY <1>2, <1>3, <1>4, AtRankIs
<1>6. n + 1 \in 1 .. Cardinality(T)
  BY <1>2
<1> HIDE DEF T, n
<1>7. Headers!InOrder(T)[n + 1] = CHOOSE k \in {m} : TRUE
  BY <1>5, <1>6, InOrderIs
<1> QED BY <1>1, <1>2, <1>7 DEF T, n

(* Every element has its place. *)
LEMMA EveryRank ==
  ASSUME NEW S, S \subseteq Int, IsFiniteSet(S)
  PROVE  /\ Cardinality(S) \in Nat
         /\ \A i \in 1 .. Cardinality(S) : Headers!AtRank(S, i) # {} /\ Headers!AtRank(S, i) \subseteq S
<1> DEFINE n       == Cardinality(S)
           upto(k) == {j \in S : j <= k}
           rank    == [k \in S |-> Cardinality(upto(k))]
<1>1. n \in Nat /\ Cardinality(1 .. n) = n /\ IsFiniteSet(1 .. n)
  BY FS_CardinalityType, FS_Interval
<1>2. \A k \in S : k \in upto(k) /\ IsFiniteSet(upto(k)) /\ upto(k) \subseteq S
  BY FS_Subset
<1>3. \A k \in S : Cardinality(upto(k)) \in 1 .. n
  <2> SUFFICES ASSUME NEW k \in S PROVE Cardinality(upto(k)) \in 1 .. n
    OBVIOUS
  <2>1. /\ Cardinality(upto(k)) \in Nat /\ Cardinality(upto(k)) # 0
        /\ Cardinality(upto(k)) <= n
    BY <1>2, FS_CardinalityType, FS_EmptySet, FS_Subset
  <2> HIDE DEF upto, n
  <2> QED BY <1>1, <2>1
<1>4. ASSUME NEW k \in S, NEW l \in S, k < l
      PROVE  Cardinality(upto(k)) # Cardinality(upto(l))
  <2>1. \A j \in S : j <= k => j <= l
    BY <1>4
  <2>2. /\ upto(k) \cup {l} \subseteq upto(l) /\ l \notin upto(k)
        /\ IsFiniteSet(upto(k)) /\ IsFiniteSet(upto(l))
    <3>1. IsFiniteSet(upto(k)) /\ IsFiniteSet(upto(l))
      BY <1>2
    <3>2. \A j \in upto(k) \cup {l} : j \in upto(l)
      BY <2>1
    <3>3. l \notin upto(k)
      BY <1>4
    <3> HIDE DEF upto
    <3> QED BY <3>1, <3>2, <3>3
  <2> HIDE DEF upto, n
  <2>3. /\ Cardinality(upto(k)) \in Nat /\ Cardinality(upto(l)) \in Nat
        /\ Cardinality(upto(k) \cup {l}) = Cardinality(upto(k)) + 1
    BY <2>2, FS_AddElement, FS_CardinalityType
  <2>4. Cardinality(upto(k) \cup {l}) <= Cardinality(upto(l))
    BY <2>2, FS_Subset
  <2> QED BY <2>3, <2>4
<1>5. rank \in Injection(S, 1 .. n)
  <2>1. rank \in [S -> 1 .. n]
    BY <1>3
  <2>2. ASSUME NEW k \in S, NEW l \in S, rank[k] = rank[l]
        PROVE  k = l
    <3>1. Cardinality(upto(k)) = Cardinality(upto(l))
      BY <2>2
    <3> HIDE DEF upto, rank
    <3>2. ~(k < l) /\ ~(l < k)
      BY <1>4, <3>1
    <3> QED BY <3>2
  <2> HIDE DEF rank
  <2> QED BY <2>1, <2>2 DEF Injection, IsInjective
<1>6. rank \in Surjection(S, 1 .. n)
  <2> HIDE DEF rank
  <2> QED BY <1>1, <1>5, FS_Injection DEF n
<1>7. \A i \in 1 .. n : \E k \in S : rank[k] = i
  <2> HIDE DEF rank, n
  <2> QED BY <1>6 DEF Surjection
<1>8. \A i \in 1 .. n : Headers!AtRank(S, i) # {} /\ Headers!AtRank(S, i) \subseteq S
  BY <1>7, AtRankIs
<1> QED BY <1>1, <1>8

LEMMA InOrderType ==
  ASSUME NEW S, S \subseteq Int, IsFiniteSet(S)
  PROVE  /\ Headers!InOrder(S) \in Seq(S) /\ Len(Headers!InOrder(S)) = Cardinality(S)
         /\ Cardinality(S) \in Nat
<1> DEFINE n == Cardinality(S)
<1>1. n \in Nat /\ \A i \in 1 .. n : Headers!AtRank(S, i) # {} /\ Headers!AtRank(S, i) \subseteq S
  BY EveryRank
<1>2. \A i \in 1 .. n : (CHOOSE k \in Headers!AtRank(S, i) : TRUE) \in S
  BY <1>1
<1> HIDE DEF n
<1> QED BY <1>1, <1>2, InOrderIs DEF n

LEMMA InOrderAppend ==
  ASSUME NEW S, S \subseteq Int, IsFiniteSet(S), NEW m \in Int, \A j \in S : j < m
  PROVE  Headers!InOrder(S \cup {m}) = Append(Headers!InOrder(S), m)
<1> DEFINE T == S \cup {m}
           n == Cardinality(S)
<1>1. n \in Nat /\ Cardinality(T) = n + 1 /\ IsFiniteSet(T) /\ Headers!InOrder(T)[n + 1] = m
  BY InOrderAdd
<1>2. /\ DOMAIN Headers!InOrder(S) = 1 .. n
      /\ DOMAIN Headers!InOrder(T) = 1 .. n + 1
      /\ \A i \in 1 .. n : Headers!InOrder(T)[i] = Headers!InOrder(S)[i]
  <2>1. Below(S, T) /\ T \subseteq Int
    BY InOrderAdd
  <2> HIDE DEF T, n
  <2> QED BY <1>1, <2>1, InOrderBelow DEF n
<1>3. /\ Headers!InOrder(S) \in Seq(S) /\ Len(Headers!InOrder(S)) = n
      /\ Headers!InOrder(T) \in Seq(T) /\ Len(Headers!InOrder(T)) = n + 1
  <2>1. T \subseteq Int
    OBVIOUS
  <2> QED BY <1>1, <2>1, InOrderType
<1>4. Headers!InOrder(S) \in Seq(T)
  <2>1. S \subseteq T
    OBVIOUS
  <2> HIDE DEF T
  <2> QED BY <1>3, <2>1, SeqMonotonic
<1>5. m \in T
  OBVIOUS
<1> HIDE DEF T, n
<1>6. Headers!InOrder(T) = Append(Headers!InOrder(S), m)
  BY <1>1, <1>2, <1>3, <1>4, <1>5
<1> QED BY <1>6 DEF T

LEMMA InOrderEmpty == Headers!InOrder({}) = <<>> /\ Cardinality({}) = 0
BY FS_EmptySet, InOrderIs

----------------------------------------------------------------------------
(* The index of the first m commands.                                      *)

SyncsIn(m)    == {k \in 1 .. m : recorded[k].cmd = SYNC_TICK}
StartIn(m)    == IF SyncsIn(m) = {} THEN 0 ELSE Min(SyncsIn(m)) + 1
StreamedIn(m) == {k \in 1 .. m : StartIn(m) # 0 /\ k >= StartIn(m) /\ recorded[k].cmd # SYNC_TICK}
FullIn(m)     == {k \in StreamedIn(m) : recorded[k].cmd = FULL_PACKET}
TimedIn(m)    == {k \in StreamedIn(m) : recorded[k].tick >= 0}
Fresh(k, timed) ==
  \A j \in timed : j < k /\ (\A i \in timed : i <= j \/ i >= k) => recorded[j].tick # recorded[k].tick
FreshIn(m)    == {k \in TimedIn(m) : Fresh(k, TimedIn(m))}

MarkOf(k)  == [offset |-> starts[k], tick |-> recorded[k].tick]
MarksAt(S) == [i \in DOMAIN Headers!InOrder(S) |-> MarkOf(Headers!InOrder(S)[i])]
TicksAt(S) == [i \in DOMAIN Headers!InOrder(S) |-> recorded[Headers!InOrder(S)[i]].tick]

IndexIs(idx, m) ==
  /\ idx.past_sync \in BOOLEAN /\ (idx.past_sync <=> SyncsIn(m) # {})
  /\ idx.stream_start = IF StartIn(m) = 0 THEN NoStart ELSE starts[StartIn(m)]
  /\ idx.schema_changes \in BOOLEAN
  /\ idx.schema_changes <=> \E k \in StreamedIn(m) : recorded[k].cmd \in {SEND_TABLES, CLASS_INFO}
  /\ idx.full_packets = MarksAt(FullIn(m))
  /\ idx.distinct_ticks = TicksAt(FreshIn(m))
  /\ TimedIn(m) = {} => idx.last_tick = NoTick
  /\ \A k \in TimedIn(m) : (\A j \in TimedIn(m) : j <= k) => idx.last_tick = recorded[k].tick

(* What a new greatest element adds. *)
LEMMA MarksAdd ==
  ASSUME NEW m \in Nat, NEW S, S \subseteq 1 .. m
  PROVE  /\ MarksAt(S \cup {m + 1}) = Append(MarksAt(S), MarkOf(m + 1))
         /\ TicksAt(S \cup {m + 1}) = Append(TicksAt(S), recorded[m + 1].tick)
<1> DEFINE x == m + 1
           s == Headers!InOrder(S)
           t == Headers!InOrder(S \cup {x})
<1>1. S \subseteq Int /\ IsFiniteSet(S) /\ x \in Int /\ \A j \in S : j < x
  <2>1. IsFiniteSet(1 .. m)
    BY FS_Interval
  <2>2. IsFiniteSet(S)
    BY <2>1, FS_Subset
  <2> QED BY <2>2
<1>2. t = Append(s, x)
  BY <1>1, InOrderAppend
<1>3. s \in Seq(S)
  BY <1>1, InOrderType
<1> HIDE DEF s, t, x
<1>4. Len(s) \in Nat /\ DOMAIN s = 1 .. Len(s) /\ DOMAIN t = 1 .. Len(s) + 1
      /\ t[Len(s) + 1] = x /\ \A i \in 1 .. Len(s) : t[i] = s[i]
  BY <1>2, <1>3
<1>5. [i \in DOMAIN t |-> MarkOf(t[i])] = Append([i \in DOMAIN s |-> MarkOf(s[i])], MarkOf(x))
  <2> DEFINE a == [i \in DOMAIN t |-> MarkOf(t[i])]
             b == [i \in DOMAIN s |-> MarkOf(s[i])]
  <2>1. Len(b) = Len(s) /\ DOMAIN b = 1 .. Len(s)
    BY <1>4
  <2>2. Append(b, MarkOf(x)) = [i \in 1 .. Len(s) + 1 |-> IF i = Len(s) + 1 THEN MarkOf(x) ELSE b[i]]
    BY <1>4, <2>1
  <2>3. ASSUME NEW i \in 1 .. Len(s) + 1
        PROVE  MarkOf(t[i]) = IF i = Len(s) + 1 THEN MarkOf(x) ELSE b[i]
    <3>1. CASE i = Len(s) + 1
      BY <1>4, <3>1
    <3>2. CASE i # Len(s) + 1
      <4>1. i \in 1 .. Len(s)
        BY <1>4, <3>2
      <4> QED BY <1>4, <3>2, <4>1
    <3> QED BY <3>1, <3>2
  <2> HIDE DEF b
  <2>4. a = Append(b, MarkOf(x))
    BY <1>4, <2>2, <2>3
  <2> QED BY <2>4 DEF b
<1>6. [i \in DOMAIN t |-> recorded[t[i]].tick] = Append([i \in DOMAIN s |-> recorded[s[i]].tick], recorded[x].tick)
  <2> DEFINE a == [i \in DOMAIN t |-> recorded[t[i]].tick]
             b == [i \in DOMAIN s |-> recorded[s[i]].tick]
  <2>1. Len(b) = Len(s) /\ DOMAIN b = 1 .. Len(s)
    BY <1>4
  <2>2. Append(b, recorded[x].tick) =
          [i \in 1 .. Len(s) + 1 |-> IF i = Len(s) + 1 THEN recorded[x].tick ELSE b[i]]
    BY <1>4, <2>1
  <2>3. ASSUME NEW i \in 1 .. Len(s) + 1
        PROVE  recorded[t[i]].tick = IF i = Len(s) + 1 THEN recorded[x].tick ELSE b[i]
    <3>1. CASE i = Len(s) + 1
      BY <1>4, <3>1
    <3>2. CASE i # Len(s) + 1
      <4>1. i \in 1 .. Len(s)
        BY <1>4, <3>2
      <4> QED BY <1>4, <3>2, <4>1
    <3> QED BY <3>1, <3>2
  <2> HIDE DEF b
  <2>4. a = Append(b, recorded[x].tick)
    BY <1>4, <2>2, <2>3
  <2> QED BY <2>4 DEF b
<1> QED BY <1>5, <1>6 DEF MarksAt, TicksAt, s, t, x

(* The stream begins behind the first sync. *)
LEMMA StartIs ==
  ASSUME NEW m \in Nat
  PROVE  /\ SyncsIn(m) = {} => StartIn(m) = 0 /\ StreamedIn(m) = {}
         /\ SyncsIn(m) # {} => /\ StartIn(m) \in 2 .. m + 1 /\ StartIn(m) - 1 \in SyncsIn(m)
                               /\ \A k \in SyncsIn(m) : StartIn(m) - 1 <= k
<1>1. ASSUME SyncsIn(m) # {}
      PROVE  /\ StartIn(m) \in 2 .. m + 1 /\ StartIn(m) - 1 \in SyncsIn(m)
             /\ \A k \in SyncsIn(m) : StartIn(m) - 1 <= k
  <2> DEFINE first == Min(SyncsIn(m))
  <2>1. SyncsIn(m) \subseteq 1 .. m /\ SyncsIn(m) \subseteq Nat
    BY DEF SyncsIn
  <2>2. \E k \in SyncsIn(m) : \A j \in SyncsIn(m) : k <= j
    BY <1>1, <2>1, LeastElement
  <2>3. first \in SyncsIn(m) /\ \A j \in SyncsIn(m) : first <= j
    BY <2>2 DEF Min
  <2>4. StartIn(m) = first + 1
    BY <1>1 DEF StartIn
  <2> HIDE DEF first
  <2>5. first \in 1 .. m /\ StartIn(m) - 1 = first
    BY <2>1, <2>3, <2>4
  <2> QED BY <2>3, <2>4, <2>5
<1>2. ASSUME SyncsIn(m) = {} PROVE StartIn(m) = 0 /\ StreamedIn(m) = {}
  BY <1>2 DEF StartIn, StreamedIn
<1> QED BY <1>1, <1>2

LEMMA FirstSync ==
  ASSUME NEW m \in Nat, recorded[m + 1].cmd = SYNC_TICK, SyncsIn(m) = {}
  PROVE  StartIn(m + 1) = m + 2 /\ StreamedIn(m + 1) = {} /\ SyncsIn(m + 1) # {}
<1>1. SyncsIn(m + 1) = {m + 1}
  BY DEF SyncsIn
<1>2. StartIn(m + 1) - 1 \in {m + 1} /\ StartIn(m + 1) \in Int
  BY <1>1, StartIs
<1>3. StartIn(m + 1) = m + 2
  BY <1>2
<1> QED BY <1>1, <1>3 DEF StreamedIn

LEMMA StartStays ==
  ASSUME NEW m \in Nat, SyncsIn(m) # {} \/ recorded[m + 1].cmd # SYNC_TICK
  PROVE  /\ StartIn(m + 1) = StartIn(m) /\ (SyncsIn(m + 1) # {} <=> SyncsIn(m) # {})
         /\ StreamedIn(m + 1) = IF recorded[m + 1].cmd = SYNC_TICK \/ SyncsIn(m) = {} THEN StreamedIn(m)
                                ELSE StreamedIn(m) \cup {m + 1}
<1>1. SyncsIn(m + 1) = IF recorded[m + 1].cmd = SYNC_TICK THEN SyncsIn(m) \cup {m + 1} ELSE SyncsIn(m)
  BY DEF SyncsIn
<1>2. CASE SyncsIn(m) = {}
  <2>1. SyncsIn(m + 1) = {}
    BY <1>1, <1>2
  <2> QED BY <1>2, <2>1, StartIs
<1>3. CASE SyncsIn(m) # {}
  <2>1. SyncsIn(m + 1) # {} /\ SyncsIn(m) \subseteq SyncsIn(m + 1)
    BY <1>1, <1>3
  <2>2. /\ StartIn(m) \in 2 .. m + 1 /\ StartIn(m) - 1 \in SyncsIn(m)
        /\ \A k \in SyncsIn(m) : StartIn(m) - 1 <= k
    BY <1>3, StartIs
  <2>3. /\ StartIn(m + 1) \in 2 .. m + 2 /\ StartIn(m + 1) - 1 \in SyncsIn(m + 1)
        /\ \A k \in SyncsIn(m + 1) : StartIn(m + 1) - 1 <= k
    BY <2>1, StartIs
  <2>4. StartIn(m + 1) - 1 <= StartIn(m) - 1
    BY <2>1, <2>2, <2>3
  <2>5. StartIn(m + 1) - 1 \in SyncsIn(m)
    BY <1>1, <2>2, <2>3, <2>4
  <2>6. StartIn(m + 1) = StartIn(m)
    BY <2>2, <2>3, <2>4, <2>5
  <2>7. StreamedIn(m + 1) = IF recorded[m + 1].cmd = SYNC_TICK THEN StreamedIn(m)
                            ELSE StreamedIn(m) \cup {m + 1}
    BY <2>2, <2>6 DEF StreamedIn
  <2> QED BY <1>3, <2>1, <2>6, <2>7
<1> QED BY <1>2, <1>3

LEMMA StreamedBelow ==
  ASSUME NEW m \in Nat
  PROVE  /\ StreamedIn(m) \subseteq 1 .. m /\ FullIn(m) \subseteq 1 .. m
         /\ TimedIn(m) \subseteq 1 .. m /\ FreshIn(m) \subseteq 1 .. m
  BY DEF StreamedIn, FullIn, TimedIn, FreshIn

(* A tick is fresh if it is not the last one. *)
LEMMA FreshAdds ==
  ASSUME NEW m \in Nat, StreamedIn(m + 1) = StreamedIn(m) \cup {m + 1}, recorded[m + 1].tick >= 0,
         NEW last, TimedIn(m) = {} => last = NoTick,
         \A k \in TimedIn(m) : (\A j \in TimedIn(m) : j <= k) => last = recorded[k].tick,
         recorded[m + 1].tick # NoTick
  PROVE  /\ TimedIn(m + 1) = TimedIn(m) \cup {m + 1}
         /\ FreshIn(m + 1) = IF last # recorded[m + 1].tick THEN FreshIn(m) \cup {m + 1} ELSE FreshIn(m)
<1> DEFINE T == TimedIn(m)
           x == m + 1
<1>1. TimedIn(x) = T \cup {x}
  BY DEF TimedIn
<1>2. T \subseteq 1 .. m /\ x \notin T /\ \A k \in T : k < x
  BY StreamedBelow
<1>3. ASSUME NEW k \in T PROVE Fresh(k, T \cup {x}) <=> Fresh(k, T)
  BY <1>2 DEF Fresh
<1>4. Fresh(x, T \cup {x}) <=> last # recorded[x].tick
  <2>1. CASE T = {}
    BY <2>1 DEF Fresh
  <2>2. CASE T # {}
    <3>1. T \subseteq Int /\ IsFiniteSet(T)
      <4>1. IsFiniteSet(1 .. m)
        BY FS_Interval
      <4> QED BY <1>2, <4>1, FS_Subset
    <3>2. PICK top \in T : \A j \in T : j <= top
      <4> DEFINE U == {k \in 1 .. m : \A j \in T : j <= k}
      <4>1. m \in U
        BY <1>2, <2>2
      <4>2. PICK least \in U : \A k \in U : least <= k
        <5>1. U \subseteq Nat /\ U # {}
          BY <4>1
        <5> HIDE DEF U
        <5> QED BY <5>1, LeastElement
      <4>3. CASE least \in T
        BY <4>2, <4>3
      <4>4. CASE least \notin T
        <5>1. \A j \in T : j <= least - 1
          BY <1>2, <4>2, <4>4
        <5>2. least - 1 \in U
          BY <1>2, <2>2, <4>2, <5>1
        <5> QED BY <4>2, <5>2
      <4> QED BY <4>3, <4>4
    <3>3. last = recorded[top].tick
      BY <3>2
    <3>4. \A j \in T : (\A i \in T : i <= j \/ i >= x) <=> j = top
      BY <1>2, <3>2
    <3>5. Fresh(x, T \cup {x}) <=> recorded[top].tick # recorded[x].tick
      <4>1. \A j \in T : (\A i \in T \cup {x} : i <= j \/ i >= x) <=> j = top
        BY <1>2, <3>4
      <4>2. top < x /\ top \in T /\ ~(x < x)
        BY <1>2, <3>2
      <4> HIDE DEF T, x
      <4> QED BY <1>2, <4>1, <4>2 DEF Fresh
    <3> QED BY <3>3, <3>5
  <2> QED BY <2>1, <2>2
<1>5. FreshIn(x) = {k \in T \cup {x} : Fresh(k, T \cup {x})}
  BY <1>1 DEF FreshIn
<1>6. FreshIn(m) = {k \in T : Fresh(k, T)}
  BY DEF FreshIn
<1> HIDE DEF T, x
<1>7. FreshIn(x) = IF last # recorded[x].tick THEN FreshIn(m) \cup {x} ELSE FreshIn(m)
  BY <1>2, <1>3, <1>4, <1>5, <1>6
<1> QED BY <1>1, <1>7 DEF T, x

LEMMA NewIndexIs == IndexIs(NewIndex, 0)
<1>1. SyncsIn(0) = {} /\ StreamedIn(0) = {} /\ FullIn(0) = {} /\ TimedIn(0) = {} /\ FreshIn(0) = {}
  BY StartIs DEF SyncsIn, StreamedIn, FullIn, TimedIn, FreshIn
<1>2. StartIn(0) = 0
  BY <1>1, StartIs
<1>3. DOMAIN Headers!InOrder({}) = {} /\ MarksAt({}) = <<>> /\ TicksAt({}) = <<>>
  BY InOrderEmpty DEF MarksAt, TicksAt
<1> QED BY <1>1, <1>2, <1>3 DEF IndexIs, NewIndex

(* The tick of a command is none below every tick. *)
LEMMA TickIs ==
  ASSUME LaidOut, NEW k \in 1 .. Len(recorded)
  PROVE  recorded[k].tick \in Int /\ recorded[k].tick # NoTick
<1>1. Writable(recorded[k])
  BY Recorded
<1>2. PowerOf2[HalfBits - 1] \in Nat \ {0} /\ U32 = 2 * PowerOf2[HalfBits - 1]
  BY BasesAre
<1>3. recorded[k].tick \in -PowerOf2[HalfBits - 1] .. PowerOf2[HalfBits - 1] - 1
  BY <1>1 DEF Writable, RecordedCommands
<1>4. NoTick = -(2 * PowerOf2[HalfBits - 1])
  BY <1>2 DEF NoTick
<1> QED BY <1>2, <1>3, <1>4

(* A round of the loop takes the index of a prefix to that of the next.    *)
LEMMA IndexSteps ==
  ASSUME LaidOut, NEW m \in Nat, m + 1 \in 1 .. Len(recorded),
         DOMAIN index = DOMAIN NewIndex, IndexIs(index, m), NEW i
  PROVE  IndexIs(IndexFrame(index, FrameOf(m + 1, i)), m + 1)
<1> DEFINE x == m + 1
           f == FrameOf(x, i)
           next == IndexFrame(index, f)
           cmd == recorded[x].cmd
           tick == recorded[x].tick
           changed == index.schema_changes \/ f.header.cmd \in {SEND_TABLES, CLASS_INFO}
           full == [offset |-> f.offset, tick |-> f.header.tick]
           packets == IF f.header.cmd = FULL_PACKET THEN Append(index.full_packets, full)
                      ELSE index.full_packets
           seen == [index EXCEPT !.schema_changes = changed, !.full_packets = packets]
<1>1. /\ f.offset = starts[x] /\ f.end_offset = starts[x + 1]
      /\ f.header.tick = tick /\ f.header.cmd = cmd
  BY DEF FrameOf, HeaderRecorded
<1>2. next = IF f.header.cmd = SYNC_TICK THEN Synced(index, f)
             ELSE IF ~index.past_sync THEN index ELSE Ticked(seen, f.header.tick)
  BY DEF IndexFrame
<1>3. full = MarkOf(x)
  BY <1>1 DEF MarkOf
<1>4. DOMAIN index = {"full_packets", "distinct_ticks", "stream_start", "schema_changes", "past_sync", "last_tick"}
  BY DEF NewIndex
<1>5. /\ index.past_sync \in BOOLEAN /\ (index.past_sync <=> SyncsIn(m) # {})
      /\ index.stream_start = IF StartIn(m) = 0 THEN NoStart ELSE starts[StartIn(m)]
      /\ index.schema_changes \in BOOLEAN
      /\ index.schema_changes <=> \E k \in StreamedIn(m) : recorded[k].cmd \in {SEND_TABLES, CLASS_INFO}
      /\ index.full_packets = MarksAt(FullIn(m))
      /\ index.distinct_ticks = TicksAt(FreshIn(m))
      /\ TimedIn(m) = {} => index.last_tick = NoTick
      /\ \A k \in TimedIn(m) : (\A j \in TimedIn(m) : j <= k) => index.last_tick = recorded[k].tick
  BY DEF IndexIs
<1>6. tick \in Int /\ tick # NoTick
  BY TickIs
<1> HIDE DEF f, full, next
<1>7. ASSUME StreamedIn(x) = StreamedIn(m)
      PROVE  FullIn(x) = FullIn(m) /\ TimedIn(x) = TimedIn(m) /\ FreshIn(x) = FreshIn(m)
  <2>1. FullIn(x) = FullIn(m) /\ TimedIn(x) = TimedIn(m)
    BY <1>7 DEF FullIn, TimedIn
  <2> HIDE DEF x
  <2> QED BY <2>1 DEF FreshIn
<1>8. CASE cmd = SYNC_TICK /\ SyncsIn(m) = {}
  <2>1. next = [index EXCEPT !.past_sync = TRUE, !.stream_start = f.end_offset]
    BY <1>1, <1>2, <1>5, <1>8 DEF Synced
  <2>2. /\ next.past_sync = TRUE /\ next.stream_start = starts[x + 1]
        /\ next.schema_changes = index.schema_changes /\ next.full_packets = index.full_packets
        /\ next.distinct_ticks = index.distinct_ticks /\ next.last_tick = index.last_tick
    BY <1>1, <1>4, <2>1
  <2>3. StartIn(x) = m + 2 /\ StreamedIn(x) = {} /\ SyncsIn(x) # {} /\ StreamedIn(m) = {}
    BY <1>8, FirstSync, StartIs
  <2>4. FullIn(x) = FullIn(m) /\ TimedIn(x) = TimedIn(m) /\ FreshIn(x) = FreshIn(m)
    BY <1>7, <2>3
  <2>5. StartIn(x) # 0 /\ StartIn(x) = x + 1
    BY <2>3
  <2> HIDE DEF x, cmd, tick
  <2> QED BY <1>5, <2>2, <2>3, <2>4, <2>5 DEF IndexIs, next, f, x
<1>9. CASE cmd = SYNC_TICK /\ SyncsIn(m) # {}
  <2>1. next = [index EXCEPT !.past_sync = TRUE, !.stream_start = index.stream_start]
    BY <1>1, <1>2, <1>5, <1>9 DEF Synced
  <2>2. /\ next.past_sync = TRUE /\ next.stream_start = index.stream_start
        /\ next.schema_changes = index.schema_changes /\ next.full_packets = index.full_packets
        /\ next.distinct_ticks = index.distinct_ticks /\ next.last_tick = index.last_tick
    BY <1>4, <2>1
  <2>3. StartIn(x) = StartIn(m) /\ StreamedIn(x) = StreamedIn(m) /\ SyncsIn(x) # {}
    BY <1>9, StartStays
  <2>4. FullIn(x) = FullIn(m) /\ TimedIn(x) = TimedIn(m) /\ FreshIn(x) = FreshIn(m)
    BY <1>7, <2>3
  <2> HIDE DEF x, cmd, tick
  <2> QED BY <1>5, <2>2, <2>3, <2>4 DEF IndexIs, next, f, x
<1>10. CASE cmd # SYNC_TICK /\ SyncsIn(m) = {}
  <2>1. next = index
    BY <1>1, <1>2, <1>5, <1>10
  <2>2. StartIn(x) = StartIn(m) /\ StreamedIn(x) = StreamedIn(m) /\ SyncsIn(x) = {}
    BY <1>10, StartStays
  <2>3. FullIn(x) = FullIn(m) /\ TimedIn(x) = TimedIn(m) /\ FreshIn(x) = FreshIn(m)
    BY <1>7, <2>2
  <2> HIDE DEF x, cmd, tick
  <2> QED BY <1>5, <1>10, <2>1, <2>2, <2>3 DEF IndexIs, next, f, x
<1>11. CASE cmd # SYNC_TICK /\ SyncsIn(m) # {}
  <2>1. next = Ticked(seen, tick)
    BY <1>1, <1>2, <1>5, <1>11
  <2>2. /\ StartIn(x) = StartIn(m) /\ StreamedIn(x) = StreamedIn(m) \cup {x} /\ SyncsIn(x) # {}
        /\ FullIn(m) \subseteq 1 .. m /\ FreshIn(m) \subseteq 1 .. m
    BY <1>11, StartStays, StreamedBelow
  <2> DEFINE pushed == tick >= 0 /\ index.last_tick # tick
  <2>3. /\ DOMAIN seen = DOMAIN index /\ seen.past_sync = index.past_sync
        /\ seen.stream_start = index.stream_start /\ seen.schema_changes = changed
        /\ seen.full_packets = packets /\ seen.distinct_ticks = index.distinct_ticks
        /\ seen.last_tick = index.last_tick
    BY <1>4
  <2> HIDE DEF seen
  <2>4. /\ next.past_sync = index.past_sync /\ next.stream_start = index.stream_start
        /\ next.schema_changes = changed /\ next.full_packets = packets
    BY <1>4, <2>1, <2>3 DEF Ticked
  <2>5. /\ next.distinct_ticks = IF pushed THEN Append(index.distinct_ticks, tick) ELSE index.distinct_ticks
        /\ next.last_tick = IF pushed THEN tick ELSE index.last_tick
    BY <1>4, <2>1, <2>3 DEF Ticked
  <2>6. changed \in BOOLEAN /\ (changed <=> \E k \in StreamedIn(x) : recorded[k].cmd \in {SEND_TABLES, CLASS_INFO})
    <3>1. changed <=> index.schema_changes \/ recorded[x].cmd \in {SEND_TABLES, CLASS_INFO}
      BY <1>1
    <3>2. (\E k \in StreamedIn(x) : recorded[k].cmd \in {SEND_TABLES, CLASS_INFO})
            <=> (\E k \in StreamedIn(m) : recorded[k].cmd \in {SEND_TABLES, CLASS_INFO})
                \/ recorded[x].cmd \in {SEND_TABLES, CLASS_INFO}
      BY <2>2
    <3>3. changed \in BOOLEAN
      OBVIOUS
    <3> HIDE DEF changed
    <3> QED BY <1>5, <3>1, <3>2, <3>3
  <2>7. packets = MarksAt(FullIn(x))
    <3>1. CASE cmd = FULL_PACKET
      <4>1. FullIn(x) = FullIn(m) \cup {x}
        BY <2>2, <3>1 DEF FullIn
      <4>2. packets = Append(MarksAt(FullIn(m)), MarkOf(x))
        BY <1>1, <1>3, <1>5, <3>1
      <4>3. MarksAt(FullIn(m) \cup {x}) = Append(MarksAt(FullIn(m)), MarkOf(x))
        BY <2>2, MarksAdd
      <4> QED BY <4>1, <4>2, <4>3
    <3>2. CASE cmd # FULL_PACKET
      <4>1. FullIn(x) = FullIn(m)
        BY <2>2, <3>2 DEF FullIn
      <4> QED BY <1>1, <1>5, <3>2, <4>1
    <3> QED BY <3>1, <3>2
  <2> HIDE DEF changed, packets
  <2>8. CASE tick >= 0
    <3>1. /\ TimedIn(x) = TimedIn(m) \cup {x}
          /\ FreshIn(x) = IF index.last_tick # tick THEN FreshIn(m) \cup {x} ELSE FreshIn(m)
      BY <1>5, <1>6, <2>2, <2>8, FreshAdds
    <3>2. TicksAt(FreshIn(m) \cup {x}) = Append(TicksAt(FreshIn(m)), tick)
      BY <2>2, MarksAdd
    <3>3. next.distinct_ticks = TicksAt(FreshIn(x))
      BY <1>5, <2>5, <2>8, <3>1, <3>2
    <3>4. next.last_tick = tick
      BY <2>5, <2>8
    <3>5. \A k \in TimedIn(x) : (\A j \in TimedIn(x) : j <= k) => k = x
      <4>1. TimedIn(m) \subseteq 1 .. m
        BY StreamedBelow
      <4>2. x \in TimedIn(x) /\ \A k \in TimedIn(m) : ~(x <= k)
        BY <3>1, <4>1
      <4> HIDE DEF x
      <4> QED BY <3>1, <4>2
    <3> HIDE DEF x, cmd, tick, pushed
    <3> QED BY <1>5, <1>11, <2>2, <2>4, <2>6, <2>7, <3>1, <3>3, <3>4, <3>5 DEF IndexIs, next, f, x, tick
  <2>9. CASE ~(tick >= 0)
    <3>1. TimedIn(x) = TimedIn(m)
      BY <2>2, <2>9 DEF TimedIn
    <3>2. FreshIn(x) = FreshIn(m)
      <4> HIDE DEF x
      <4> QED BY <3>1 DEF FreshIn
    <3>3. next.distinct_ticks = TicksAt(FreshIn(x)) /\ next.last_tick = index.last_tick
      BY <1>5, <2>5, <2>9, <3>2
    <3> HIDE DEF x, cmd, tick, pushed
    <3> QED BY <1>5, <1>11, <2>2, <2>4, <2>6, <2>7, <3>1, <3>2, <3>3 DEF IndexIs, next, f, x, tick
  <2> QED BY <2>8, <2>9
<1> QED BY <1>8, <1>9, <1>10, <1>11

(* The pass has taken the first m commands, and stops behind them: at the  *)
(* end of the file or a STOP, or at a command that cannot be read.         *)
Taking(m) ==
  /\ m \in 0 .. Len(recorded) /\ IndexIs(index, m)
  /\ \A k \in 1 .. m : Readable(k) /\ recorded[k].cmd # STOP
Took(m)    == Taking(m) /\ (m + 1 \in Begun => Readable(m + 1) /\ recorded[m + 1].cmd = STOP)
Refusal(m) == Taking(m) /\ m + 1 \in Begun /\ ~Readable(m + 1)

IndexBuilt ==
  /\ ReadsInOrder
  /\ phase \in {"closed", "indexing"} =>
       commands.base = HEADER_SIZE /\ ~commands.failed /\ Taking(commands.index)
  /\ phase = "indexed" =>
       \E m \in 0 .. Len(recorded) : IF frame.kind = "error" THEN Refusal(m) ELSE Took(m)
  /\ phase \in {"inspecting", "inspected"} => \E m \in 0 .. Len(recorded) : Took(m)

LEMMA SetsStay ==
  ASSUME UNCHANGED <<recorded, starts>>
  PROVE  /\ \A m : /\ SyncsIn(m)' = SyncsIn(m) /\ StartIn(m)' = StartIn(m) /\ StreamedIn(m)' = StreamedIn(m)
                   /\ FullIn(m)' = FullIn(m) /\ TimedIn(m)' = TimedIn(m) /\ FreshIn(m)' = FreshIn(m)
         /\ \A S : MarksAt(S)' = MarksAt(S) /\ TicksAt(S)' = TicksAt(S)
<1>1. ASSUME NEW m PROVE SyncsIn(m)' = SyncsIn(m)
  BY DEF SyncsIn
<1>2. ASSUME NEW m PROVE StartIn(m)' = StartIn(m)
  BY <1>1 DEF StartIn
<1>3. ASSUME NEW m PROVE StreamedIn(m)' = StreamedIn(m)
  BY <1>2 DEF StreamedIn
<1>4. ASSUME NEW m PROVE FullIn(m)' = FullIn(m) /\ TimedIn(m)' = TimedIn(m)
  BY <1>3 DEF FullIn, TimedIn
<1>5. ASSUME NEW m PROVE FreshIn(m)' = FreshIn(m)
  BY <1>4 DEF FreshIn, Fresh
<1>6. ASSUME NEW S PROVE MarksAt(S)' = MarksAt(S) /\ TicksAt(S)' = TicksAt(S)
  BY DEF MarksAt, MarkOf, TicksAt
<1> QED BY <1>1, <1>2, <1>3, <1>4, <1>5, <1>6

LEMMA IndexStays ==
  ASSUME UNCHANGED <<recorded, starts>>, NEW m
  PROVE  IndexIs(index', m) <=> IndexIs(index, m)'
  BY SetsStay DEF IndexIs

LEMMA TakingStays ==
  ASSUME UNCHANGED <<written, index>>
  PROVE  \A m : (Took(m) => Took(m)') /\ (Refusal(m) => Refusal(m)') /\ (Taking(m) => Taking(m)')
<1>1. UNCHANGED <<recorded, starts, file, index>>
  BY DEF written
<1>2. ASSUME NEW m PROVE IndexIs(index, m)' <=> IndexIs(index, m)
  BY <1>1, IndexStays
<1>3. Begun' = Begun /\ \A m : Readable(m)' <=> Readable(m)
  BY <1>1 DEF Begun, Readable, Whole, FileLen
<1>4. ASSUME NEW m PROVE Taking(m)' <=> Taking(m)
  BY <1>1, <1>2, <1>3 DEF Taking
<1> QED BY <1>1, <1>3, <1>4 DEF Took, Refusal

LEMMA InitIndexBuilt == Init => IndexBuilt
<1> SUFFICES ASSUME Init PROVE IndexBuilt
  OBVIOUS
<1>1. ReadsInOrder /\ Len(recorded) \in Nat
  BY InitReadsInOrder, InitLaidOut, Recorded
<1>2. phase = "closed" /\ index = NewIndex /\ commands = CommandIter(HEADER_SIZE)
  BY DEF Init
<1>3. Taking(0)
  BY <1>1, <1>2, NewIndexIs DEF Taking
<1>4. commands.base = HEADER_SIZE /\ ~commands.failed /\ commands.index = 0
  BY <1>2 DEF CommandIter
<1> QED BY <1>1, <1>2, <1>3, <1>4 DEF IndexBuilt

(* A command can be read only once it has begun. *)
LEMMA ReadableBegun ==
  ASSUME LaidOut, NEW k, Readable(k)
  PROVE  k \in 1 .. Len(recorded) /\ k \in Begun
<1>1. k \in 1 .. Len(recorded) /\ starts[k + 1] <= FileLen
  BY Recorded DEF Readable, Whole
<1>2. /\ k \in DOMAIN starts /\ k + 1 \in DOMAIN starts /\ k < k + 1 /\ FileLen \in Nat
      /\ starts[k] \in Nat /\ starts[k + 1] \in Nat
  BY <1>1, Recorded
<1>3. starts[k] < starts[k + 1]
  BY <1>2, StartsIncrease
<1> QED BY <1>1, <1>2, <1>3, Recorded DEF Begun

LEMMA NextIndexBuilt == IndexBuilt /\ [Next]_vars => IndexBuilt'
<1> SUFFICES ASSUME IndexBuilt, [Next]_vars PROVE IndexBuilt'
  OBVIOUS
<1>1. /\ ReadsInOrder /\ ReadsInOrder' /\ Placed /\ LaidOut /\ DOMAIN index = DOMAIN NewIndex
      /\ Len(recorded) \in Nat
  BY NextReadsInOrder, Recorded DEF IndexBuilt, ReadsInOrder, Placed
<1>2. CASE Open
  <2>1. UNCHANGED <<written, index, commands, frame>> /\ phase = "closed" /\ phase' \in {"indexing", "rejected"}
    BY <1>2 DEF Open
  <2>2. Taking(commands.index) /\ commands.base = HEADER_SIZE /\ ~commands.failed
    BY <2>1 DEF IndexBuilt
  <2>3. Taking(commands.index)'
    BY <2>1, <2>2, TakingStays
  <2> QED BY <1>1, <2>1, <2>2, <2>3 DEF IndexBuilt
<1>3. CASE IndexNext
  <2>0. PICK m \in Nat : m = commands.index
    BY <1>1 DEF Placed, Iterators
  <2>1. phase = "indexing" /\ Called /\ UNCHANGED written /\ UNCHANGED <<recorded, starts, file>>
    BY <1>3 DEF IndexNext, Called, written
  <2>2. Taking(m) /\ commands.base = HEADER_SIZE /\ ~commands.failed
    BY <2>0, <2>1 DEF IndexBuilt
  <2>3. First = 1 /\ Following = m + 1 /\ m \in Nat /\ m + 1 \in 1 .. Len(recorded) + 1
    <3>1. First = 1
      <4>1. 1 \in DOMAIN starts /\ starts[1] = commands.base
        BY <1>1, <2>2, Recorded DEF LaidOut
      <4> QED BY <1>1, <4>1, FirstIs
    <3>2. m \in Nat /\ Following \in 1 .. Len(recorded) + 1
      BY <1>1 DEF Placed, Iterators
    <3> QED BY <2>0, <3>1, <3>2 DEF Following
  <2>4. /\ commands'.base = HEADER_SIZE /\ Placed'
        /\ IF m + 1 \notin Begun THEN frame' = NoItem /\ commands' = commands
           ELSE IF Readable(m + 1) THEN frame' = FrameOf(m + 1, m) /\ commands'.index = m + 1
           ELSE frame' = Broken /\ commands'.index = m
    BY <1>1, <2>0, <2>1, <2>2, <2>3, CallReads
  <2>5. LET goes_on == frame'.kind = "frame" /\ frame'.header.cmd # STOP
        IN  /\ index' = IF goes_on THEN IndexFrame(index, frame') ELSE index
            /\ phase' = IF goes_on THEN "indexing" ELSE "indexed"
    BY <1>3 DEF IndexNext
  <2>9. m \in 0 .. Len(recorded) /\ (index' = index => UNCHANGED <<written, index>>)
    BY <2>1, <2>2 DEF Taking
  <2>6. CASE m + 1 \notin Begun
    <3>1. frame'.kind = "none"
      BY <2>4, <2>6 DEF NoItem
    <3>2. index' = index /\ phase' = "indexed"
      BY <2>5, <3>1
    <3>3. Took(m)
      BY <2>2, <2>6 DEF Took
    <3>4. Took(m)' /\ m \in 0 .. Len(recorded')
      BY <2>1, <2>9, <3>2, <3>3, TakingStays
    <3> QED BY <1>1, <3>1, <3>2, <3>4 DEF IndexBuilt
  <2>7. CASE m + 1 \in Begun /\ ~Readable(m + 1)
    <3>1. frame'.kind = "error"
      BY <2>4, <2>7 DEF Broken
    <3>2. index' = index /\ phase' = "indexed"
      BY <2>5, <3>1
    <3>3. Refusal(m)
      BY <2>2, <2>7 DEF Refusal
    <3>4. Refusal(m)' /\ m \in 0 .. Len(recorded')
      BY <2>1, <2>9, <3>2, <3>3, TakingStays
    <3> QED BY <1>1, <3>1, <3>2, <3>4 DEF IndexBuilt
  <2>8. CASE m + 1 \in Begun /\ Readable(m + 1)
    <3>1. /\ frame' = FrameOf(m + 1, m) /\ commands'.index = m + 1 /\ frame'.kind = "frame"
          /\ frame'.header.cmd = recorded[m + 1].cmd
      BY <2>4, <2>8 DEF FrameOf, HeaderRecorded
    <3>2. CASE recorded[m + 1].cmd = STOP
      <4>1. index' = index /\ phase' = "indexed"
        BY <2>5, <3>1, <3>2
      <4>2. Took(m)
        BY <2>2, <2>8, <3>2 DEF Took
      <4>3. Took(m)' /\ m \in 0 .. Len(recorded')
        BY <2>1, <2>9, <4>1, <4>2, TakingStays
      <4> QED BY <1>1, <3>1, <4>1, <4>3 DEF IndexBuilt
    <3>3. CASE recorded[m + 1].cmd # STOP
      <4>1. index' = IndexFrame(index, FrameOf(m + 1, m)) /\ phase' = "indexing"
        BY <2>5, <3>1, <3>3
      <4>2. m + 1 \in 1 .. Len(recorded)
        BY <1>1, <2>8, ReadableBegun
      <4>3. IndexIs(index', m + 1)
        BY <1>1, <2>2, <2>3, <4>1, <4>2, IndexSteps DEF Taking
      <4>4. \A k \in 1 .. m + 1 : Readable(k) /\ recorded[k].cmd # STOP
        BY <2>2, <2>3, <2>8, <3>3 DEF Taking
      <4>5. \A k : Readable(k)' <=> Readable(k)
        BY <2>1 DEF Readable, Whole, FileLen
      <4>6. IndexIs(index, m + 1)'
        BY <2>1, <4>3, IndexStays
      <4>7. ~commands'.failed
        <5>1. (~Readable(Following) <=> ~Readable(First + commands.index))'
          BY DEF Following
        <5>2. Given' /\ frame' # NoItem /\ frame' # Broken
          BY <1>1, <2>1, <3>1, CallReads DEF NoItem, Broken
        <5> QED BY <5>2 DEF Given
      <4>8. Taking(commands.index)'
        BY <2>0, <2>1, <3>1, <4>2, <4>4, <4>5, <4>6 DEF Taking
      <4> QED BY <1>1, <2>4, <4>1, <4>7, <4>8 DEF IndexBuilt
    <3> QED BY <3>2, <3>3
  <2> QED BY <2>6, <2>7, <2>8
<1>4. CASE Inspect
  <2>1. UNCHANGED <<written, index>> /\ phase = "indexed" /\ frame.kind # "error" /\ phase' = "inspecting"
    BY <1>4 DEF Inspect, IndexFailed
  <2>2. PICK m \in 0 .. Len(recorded) : Took(m)
    BY <2>1 DEF IndexBuilt
  <2>3. Took(m)' /\ recorded' = recorded
    BY <2>1, <2>2, TakingStays DEF written
  <2> QED BY <1>1, <2>1, <2>3 DEF IndexBuilt
<1>5. CASE InspectNext
  <2>1. UNCHANGED <<written, index>> /\ phase = "inspecting" /\ phase' \in {"inspecting", "inspected", "ended"}
    BY <1>5 DEF InspectNext
  <2>2. PICK m \in 0 .. Len(recorded) : Took(m)
    BY <2>1 DEF IndexBuilt
  <2>3. Took(m)' /\ recorded' = recorded
    BY <2>1, <2>2, TakingStays DEF written
  <2> QED BY <1>1, <2>1, <2>3 DEF IndexBuilt
<1>6. CASE phase' \in {"reading", "ended", "body", "messages"}
  BY <1>1, <1>6 DEF IndexBuilt
<1>7. CASE Read \/ ReadNext \/ DecodeBody \/ MessageNext
  <2>1. CASE Read
    BY <1>6, <2>1 DEF Read
  <2>2. CASE DecodeBody
    BY <1>6, <2>2 DEF DecodeBody
  <2>3. CASE ReadNext
    <3>1. /\ phase' = CASE frame'.kind = "none"  -> "ended"
                      [] frame'.kind = "error" -> IF tolerant THEN "reading" ELSE "ended"
                      [] frame'.kind = "frame" -> "body"
          /\ Called
      BY <2>3 DEF ReadNext, Called
    <3>2. frame' = NoItem \/ frame' = Broken \/ frame' = FrameOf(Following, commands.index)
      BY <1>1, <3>1, CallReads
    <3>3. frame'.kind \in {"none", "error", "frame"}
      BY <3>2 DEF NoItem, Broken, FrameOf
    <3> QED BY <1>6, <3>1, <3>3
  <2>4. CASE MessageNext
    <3>1. NextMessage(messages).item.kind \in {"none", "error", "frame"}
      BY DEF NextMessage, NoMessage, BrokenMessage
    <3>2. PICK n \in {NextMessage(messages)} :
            phase' = CASE n.item.kind = "none"  -> "reading"
                     [] n.item.kind = "error" -> IF tolerant THEN "messages" ELSE "ended"
                     [] n.item.kind = "frame" -> "messages"
      BY <2>4 DEF MessageNext
    <3>3. n.item.kind \in {"none", "error", "frame"}
      BY <3>1
    <3> QED BY <1>6, <3>2, <3>3
  <2> QED BY <1>7, <2>1, <2>2, <2>3, <2>4
<1>8. CASE UNCHANGED vars
  <2>1. UNCHANGED <<written, index, commands, frame, phase>> /\ recorded' = recorded
    BY <1>8 DEF vars, written
  <2>2. \A m : (Took(m) => Took(m)') /\ (Refusal(m) => Refusal(m)') /\ (Taking(m) => Taking(m)')
    BY <2>1, TakingStays
  <2>3. phase \in {"closed", "indexing"} =>
          commands.base = HEADER_SIZE /\ ~commands.failed /\ Taking(commands.index)
    BY DEF IndexBuilt
  <2>4. (phase \in {"closed", "indexing"} =>
          commands.base = HEADER_SIZE /\ ~commands.failed /\ Taking(commands.index))'
    BY <2>1, <2>2, <2>3
  <2>5. (phase = "indexed" =>
           \E m \in 0 .. Len(recorded) : IF frame.kind = "error" THEN Refusal(m) ELSE Took(m))'
    <3> SUFFICES ASSUME phase = "indexed"
                 PROVE  \E m \in 0 .. Len(recorded) : IF frame.kind = "error" THEN Refusal(m)' ELSE Took(m)'
      BY <2>1
    <3>1. PICK m \in 0 .. Len(recorded) : IF frame.kind = "error" THEN Refusal(m) ELSE Took(m)
      BY DEF IndexBuilt
    <3> QED BY <2>2, <3>1
  <2>6. (phase \in {"inspecting", "inspected"} => \E m \in 0 .. Len(recorded) : Took(m))'
    <3> SUFFICES ASSUME phase \in {"inspecting", "inspected"}
                 PROVE  \E m \in 0 .. Len(recorded) : Took(m)'
      BY <2>1
    <3>1. PICK m \in 0 .. Len(recorded) : Took(m)
      BY DEF IndexBuilt
    <3> QED BY <2>2, <3>1
  <2> QED BY <1>1, <2>4, <2>5, <2>6 DEF IndexBuilt
<1> QED BY <1>2, <1>3, <1>4, <1>5, <1>7, <1>8 DEF Next, Step

LEMMA BuildsIndex == Spec => []IndexBuilt
<1>1. Init => IndexBuilt
  BY InitIndexBuilt
<1>2. IndexBuilt /\ [Next]_vars => IndexBuilt'
  BY NextIndexBuilt
<1> QED BY <1>1, <1>2, PTL DEF Spec

----------------------------------------------------------------------------
(* The index against the headers.                                          *)

(* The commands that have begun are the first ones. *)
LEMMA BegunAre ==
  ASSUME LaidOut
  PROVE  \E b \in 0 .. Len(recorded) : Begun = 1 .. b /\ Cardinality(Begun) = b
<1> DEFINE n == Len(recorded)
           T == {k \in 1 .. n + 1 : k = n + 1 \/ starts[k] >= FileLen}
<1>1. n \in Nat /\ DOMAIN recorded = 1 .. n /\ DOMAIN starts = 1 .. n + 1 /\ FileLen \in Nat
      /\ \A k \in 1 .. n + 1 : starts[k] \in Nat
  BY Recorded
<1>2. T \subseteq Nat /\ n + 1 \in T
  BY <1>1
<1>3. PICK t \in T : \A k \in T : t <= k
  <2> HIDE DEF T
  <2> QED BY <1>2, LeastElement
<1>4. t \in 1 .. n + 1 /\ t - 1 \in 0 .. n /\ (t = n + 1 \/ starts[t] >= FileLen)
  BY <1>1
<1>5. ASSUME NEW k \in 1 .. n
      PROVE  k \in Begun <=> k <= t - 1
  <2>1. CASE k < t
    <3>1. k \notin T
      BY <1>1, <1>3, <1>4, <2>1
    <3> QED BY <1>1, <1>4, <2>1, <3>1 DEF Begun
  <2>2. CASE k = t
    BY <1>1, <1>4, <2>2 DEF Begun
  <2>3. CASE t < k
    <3>1. starts[t] < starts[k]
      BY <1>1, <1>4, <2>3, StartsIncrease
    <3> QED BY <1>1, <1>4, <2>3, <3>1 DEF Begun
  <2> QED BY <1>1, <1>4, <2>1, <2>2, <2>3
<1>6. Begun = 1 .. t - 1
  <2>1. \A k \in Begun : k \in DOMAIN recorded
    BY DEF Begun
  <2>2. \A k : k \in Begun => k \in 1 .. n
    BY <1>1, <2>1
  <2>3. \A k : k \in Begun <=> k \in 1 .. t - 1
    <3> SUFFICES ASSUME NEW k PROVE k \in Begun <=> k \in 1 .. t - 1
      OBVIOUS
    <3>1. k \in 1 .. t - 1 => k \in 1 .. n
      BY <1>1, <1>4
    <3>2. k \in 1 .. n => (k <= t - 1 <=> k \in 1 .. t - 1)
      BY <1>1, <1>4
    <3> HIDE DEF T
    <3> QED BY <1>5, <2>2, <3>1, <3>2
  <2> QED BY <2>3
<1> DEFINE b == t - 1
<1>7. b \in 0 .. n /\ Begun = 1 .. b
  BY <1>4, <1>6
<1> HIDE DEF b, n
<1>8. Cardinality(1 .. b) = b
  <2>1. n \in Nat
    BY <1>1 DEF n
  <2>2. b \in Nat /\ 1 \in Int /\ b \in Int
    BY <1>7, <2>1
  <2>3. Cardinality(1 .. b) = IF 1 > b THEN 0 ELSE b - 1 + 1
    BY <2>2, FS_Interval
  <2> QED BY <2>2, <2>3
<1> QED BY <1>7, <1>8 DEF n

Seen(b) == HeadersOf(SubSeq(recorded, 1, b))

LEMMA SeenIs ==
  ASSUME LaidOut, NEW b \in 0 .. Len(recorded)
  PROVE  /\ DOMAIN Seen(b) = 1 .. b
         /\ \A k \in 1 .. b :
              /\ Seen(b)[k].tick = recorded[k].tick
              /\ Seen(b)[k].cmd = "STOP" <=> recorded[k].cmd = STOP
              /\ Seen(b)[k].cmd = "SYNC" <=> recorded[k].cmd = SYNC_TICK
              /\ Seen(b)[k].cmd = "FULL" <=> recorded[k].cmd = FULL_PACKET
              /\ Seen(b)[k].cmd = "SCHEMA" <=> recorded[k].cmd \in {SEND_TABLES, CLASS_INFO}
<1> DEFINE r == SubSeq(recorded, 1, b)
<1>1. /\ Len(recorded) \in Nat /\ recorded \in Seq(RecordedCommands)
  <2>1. recorded \in Seq(RecordedCommands)
    BY RecordingsAssumption, RecordedAre DEF LaidOut, Recordable
  <2> QED BY <2>1, Recorded
<1>2. DOMAIN r = 1 .. b /\ \A k \in 1 .. b : r[k] = recorded[k]
  BY <1>1
<1> HIDE DEF r
<1>3. /\ DOMAIN Seen(b) = 1 .. b
      /\ \A k \in 1 .. b : Seen(b)[k] = [cmd |-> CommandName(recorded[k].cmd), tick |-> recorded[k].tick]
  BY <1>2 DEF Seen, HeadersOf, r
<1>4. \A cmd : /\ CommandName(cmd) = "STOP" <=> cmd = STOP
               /\ CommandName(cmd) = "SYNC" <=> cmd = SYNC_TICK
               /\ CommandName(cmd) = "FULL" <=> cmd = FULL_PACKET
               /\ CommandName(cmd) = "SCHEMA" <=> cmd \in {SEND_TABLES, CLASS_INFO}
  BY CommandsAssumption DEF CommandName
<1> QED BY <1>3, <1>4

(* What the pass took is what the headers say it looks at. *)
LEMMA TookIs ==
  ASSUME LaidOut, NEW b \in 0 .. Len(recorded), Begun = 1 .. b, NEW m \in 0 .. Len(recorded), Took(m)
  PROVE  /\ m <= b /\ Headers!Indexed(Seen(b)) = 1 .. m
         /\ \A k \in 1 .. b : (\A j \in 1 .. k - 1 : Seen(b)[j].cmd # "STOP") => Readable(k)
<1>1. Len(recorded) \in Nat /\ m \in Nat /\ b \in Nat /\ \A k \in 1 .. m : Readable(k) /\ recorded[k].cmd # STOP
  BY Recorded DEF Took, Taking
<1>2. m <= b
  <2>1. CASE m = 0
    BY <1>1, <2>1
  <2>2. CASE m # 0
    <3>1. m \in Begun
      BY <1>1, <2>2, ReadableBegun
    <3> QED BY <3>1
  <2> QED BY <2>1, <2>2
<1>3. CASE m = b
  <2>1. Headers!Indexed(Seen(b)) = 1 .. m
    BY <1>1, <1>3, SeenIs DEF Headers!Indexed
  <2> QED BY <1>1, <1>2, <1>3, <2>1
<1>4. CASE m # b
  <2>1. m + 1 \in 1 .. b /\ Readable(m + 1) /\ recorded[m + 1].cmd = STOP
    BY <1>1, <1>2, <1>4 DEF Took
  <2>2. Seen(b)[m + 1].cmd = "STOP" /\ \A k \in 1 .. m : Seen(b)[k].cmd # "STOP"
    <3>1. \A k \in 1 .. b : Seen(b)[k].cmd = "STOP" <=> recorded[k].cmd = STOP
      BY SeenIs
    <3>2. 1 .. m \subseteq 1 .. b
      BY <1>1, <1>2
    <3> QED BY <1>1, <2>1, <3>1, <3>2
  <2>3. Headers!Indexed(Seen(b)) = 1 .. m
    <3>1. ASSUME NEW k \in 1 .. b
          PROVE  (\A j \in 1 .. k : Seen(b)[j].cmd # "STOP") <=> k <= m
      <4>1. k <= m => \A j \in 1 .. k : j \in 1 .. m
        BY <1>1
      <4>2. ~(k <= m) => m + 1 \in 1 .. k
        BY <1>1
      <4> QED BY <2>2, <4>1, <4>2
    <3>2. Headers!Indexed(Seen(b)) = {k \in 1 .. b : \A j \in 1 .. k : Seen(b)[j].cmd # "STOP"}
      <4>1. DOMAIN Seen(b) = 1 .. b
        BY SeenIs
      <4> QED BY <4>1 DEF Headers!Indexed
    <3>3. {k \in 1 .. b : \A j \in 1 .. k : Seen(b)[j].cmd # "STOP"} = {k \in 1 .. b : k <= m}
      BY <3>1
    <3>4. {k \in 1 .. b : k <= m} = 1 .. m
      BY <1>1, <1>2
    <3> QED BY <3>2, <3>3, <3>4
  <2>4. ASSUME NEW k \in 1 .. b, \A j \in 1 .. k - 1 : Seen(b)[j].cmd # "STOP"
        PROVE  Readable(k)
    <3>1. ~(m + 1 \in 1 .. k - 1)
      BY <2>2, <2>4
    <3>2. k <= m + 1
      BY <1>1, <3>1
    <3>3. k \in 1 .. m \/ k = m + 1
      BY <1>1, <3>2
    <3> QED BY <1>1, <2>1, <3>3
  <2> QED BY <1>2, <2>3, <2>4
<1> QED BY <1>3, <1>4

LEMMA HeadersAre ==
  ASSUME LaidOut, NEW b \in 0 .. Len(recorded), Begun = 1 .. b, NEW m \in 0 .. Len(recorded), Took(m)
  PROVE  /\ Headers!StreamStart(Seen(b)) = StartIn(m)
         /\ Headers!FullPackets(Seen(b)) = Headers!InOrder(FullIn(m))
         /\ Headers!HasSchemaChanges(Seen(b)) <=> \E k \in StreamedIn(m) : recorded[k].cmd \in {SEND_TABLES, CLASS_INFO}
         /\ Headers!DistinctTicks(Seen(b)) = TicksAt(FreshIn(m))
<1> DEFINE d == Seen(b)
<1>1. /\ m <= b /\ Headers!Indexed(d) = 1 .. m /\ m \in Nat /\ b \in Nat /\ 1 .. m \subseteq 1 .. b
  BY TookIs, Recorded
<1>2. \A k \in 1 .. m :
        /\ d[k].tick = recorded[k].tick
        /\ d[k].cmd = "SYNC" <=> recorded[k].cmd = SYNC_TICK
        /\ d[k].cmd = "FULL" <=> recorded[k].cmd = FULL_PACKET
        /\ d[k].cmd = "SCHEMA" <=> recorded[k].cmd \in {SEND_TABLES, CLASS_INFO}
  BY <1>1, SeenIs
<1> HIDE DEF d
<1>3. {k \in Headers!Indexed(d) : d[k].cmd = "SYNC"} = SyncsIn(m)
  BY <1>1, <1>2 DEF SyncsIn
<1>4. Headers!StreamStart(d) = StartIn(m)
  <2>1. CASE SyncsIn(m) = {}
    BY <1>3, <2>1 DEF Headers!StreamStart, Headers!NoOffset, StartIn
  <2>2. CASE SyncsIn(m) # {}
    <3>1. Headers!StreamStart(d) = (CHOOSE k \in SyncsIn(m) : \A j \in SyncsIn(m) : k <= j) + 1
      BY <1>3, <2>2 DEF Headers!StreamStart
    <3>2. StartIn(m) = (CHOOSE k \in SyncsIn(m) : \A j \in SyncsIn(m) : k <= j) + 1
      BY <2>2, Zenon DEF StartIn, Min
    <3> QED BY <3>1, <3>2
  <2> QED BY <2>1, <2>2
<1>5. Headers!Streamed(d) = StreamedIn(m)
  BY <1>1, <1>2, <1>4 DEF Headers!Streamed, Headers!NoOffset, StreamedIn
<1>6. StreamedIn(m) \subseteq 1 .. m /\ FreshIn(m) \subseteq 1 .. m /\ TimedIn(m) \subseteq 1 .. m
  BY <1>1, StreamedBelow
<1>7. {k \in Headers!Streamed(d) : d[k].cmd = "FULL"} = FullIn(m)
  BY <1>2, <1>5, <1>6 DEF FullIn
<1>8. Headers!FullPackets(d) = Headers!InOrder(FullIn(m))
  BY <1>7 DEF Headers!FullPackets
<1>9. Headers!HasSchemaChanges(d) <=> \E k \in StreamedIn(m) : recorded[k].cmd \in {SEND_TABLES, CLASS_INFO}
  BY <1>2, <1>5, <1>6 DEF Headers!HasSchemaChanges
<1>10. {k \in Headers!Streamed(d) : d[k].tick >= 0} = TimedIn(m)
  BY <1>2, <1>5, <1>6 DEF TimedIn
<1> DEFINE timed    == {k \in Headers!Streamed(d) : d[k].tick >= 0}
           fresh(k) == \A j \in timed : j < k /\ (\A i \in timed : i <= j \/ i >= k) => d[j].tick # d[k].tick
           sorted   == Headers!InOrder({k \in timed : fresh(k)})
<1>11. {k \in timed : fresh(k)} = FreshIn(m)
  <2>1. timed = TimedIn(m)
    BY <1>10
  <2> HIDE DEF timed
  <2>2. \A k \in timed : fresh(k) <=> Fresh(k, TimedIn(m))
    BY <1>2, <1>6, <2>1 DEF Fresh
  <2> QED BY <2>1, <2>2 DEF FreshIn
<1>12. Headers!DistinctTicks(d) = [i \in DOMAIN sorted |-> d[sorted[i]].tick]
  BY DEF Headers!DistinctTicks
<1>13. sorted = Headers!InOrder(FreshIn(m))
  BY <1>11
<1> HIDE DEF sorted
<1>14. \A i \in DOMAIN sorted : sorted[i] \in 1 .. m
  <2>1. IsFiniteSet(FreshIn(m)) /\ FreshIn(m) \subseteq Int
    <3>1. IsFiniteSet(1 .. m)
      BY <1>1, FS_Interval
    <3> QED BY <1>6, <3>1, FS_Subset
  <2>2. sorted \in Seq(FreshIn(m))
    BY <1>13, <2>1, InOrderType
  <2> QED BY <1>6, <2>2
<1>15. [i \in DOMAIN sorted |-> d[sorted[i]].tick] = [i \in DOMAIN sorted |-> recorded[sorted[i]].tick]
  BY <1>2, <1>14
<1>16. Headers!DistinctTicks(d) = TicksAt(FreshIn(m))
  BY <1>12, <1>13, <1>15 DEF TicksAt
<1> QED BY <1>4, <1>8, <1>9, <1>16 DEF d

(* The pass over the bytes of a file, cut anywhere, finds what the headers *)
(* of its commands say, and fails exactly when one before the first STOP   *)
(* cannot be read (Demo::index).                                           *)
THEOREM IndexedAsWritten == Spec => []IndexMatchesHeaders
<1>1. IndexBuilt => IndexMatchesHeaders
  <2> SUFFICES ASSUME IndexBuilt, phase = "indexed" PROVE IndexMatchesHeaders
    BY DEF IndexMatchesHeaders
  <2>1. LaidOut
    BY DEF IndexBuilt, ReadsInOrder, Placed
  <2>2. PICK b \in 0 .. Len(recorded) : Begun = 1 .. b /\ Cardinality(Begun) = b
    BY <2>1, BegunAre
  <2>3. PICK m \in 0 .. Len(recorded) : IF frame.kind = "error" THEN Refusal(m) ELSE Took(m)
    BY DEF IndexBuilt
  <2> DEFINE d       == Seen(b)
             visited == {k \in DOMAIN d : \A j \in 1 .. k - 1 : d[j].cmd # "STOP"}
             full    == Headers!FullPackets(d)
             start   == Headers!StreamStart(d)
  <2>4. d = HeadersOf(SubSeq(recorded, 1, Cardinality(Begun)))
    BY <2>2 DEF Seen
  <2>5. DOMAIN d = 1 .. b
    BY <2>1, SeenIs
  <2>6. IndexFailed <=> frame.kind = "error"
    BY DEF IndexFailed
  <2>7. CASE frame.kind = "error"
    <3>1. /\ m + 1 \in Begun /\ ~Readable(m + 1) /\ \A k \in 1 .. m : recorded[k].cmd # STOP
      BY <2>3, <2>7 DEF Refusal, Taking
    <3>2. m + 1 \in 1 .. b /\ m \in Nat
      BY <2>1, <2>2, <3>1, Recorded
    <3>3. \A j \in 1 .. (m + 1) - 1 : d[j].cmd # "STOP"
      BY <2>1, <3>1, <3>2, SeenIs
    <3>4. m + 1 \in visited
      <4> HIDE DEF d
      <4> QED BY <2>5, <3>2, <3>3
    <3> HIDE DEF visited, d
    <3> QED BY <2>4, <2>6, <2>7, <3>1, <3>4 DEF IndexMatchesHeaders, visited
  <2>8. CASE frame.kind # "error"
    <3>1. Took(m) /\ IndexIs(index, m)
      BY <2>3, <2>8 DEF Took, Taking
    <3>2. \A k \in visited : Readable(k)
      BY <2>1, <2>2, <2>5, <3>1, TookIs
    <3>3. /\ start = StartIn(m) /\ full = Headers!InOrder(FullIn(m))
          /\ Headers!HasSchemaChanges(d) <=>
               \E k \in StreamedIn(m) : recorded[k].cmd \in {SEND_TABLES, CLASS_INFO}
          /\ Headers!DistinctTicks(d) = TicksAt(FreshIn(m))
      BY <2>1, <2>2, <3>1, HeadersAre
    <3>4. index.full_packets =
            [i \in DOMAIN full |-> [offset |-> starts[full[i]], tick |-> recorded[full[i]].tick]]
      BY <3>1, <3>3 DEF IndexIs, MarksAt, MarkOf
    <3>5. /\ index.distinct_ticks = Headers!DistinctTicks(d)
          /\ index.stream_start = IF start = Headers!NoOffset THEN NoStart ELSE starts[start]
      BY <3>1, <3>3 DEF IndexIs, Headers!NoOffset
    <3>6. index.schema_changes = Headers!HasSchemaChanges(d)
      <4>1. Headers!HasSchemaChanges(d) \in BOOLEAN
        BY DEF Headers!HasSchemaChanges
      <4> QED BY <3>1, <3>3, <4>1 DEF IndexIs
    <3> HIDE DEF d
    <3> QED BY <2>4, <2>6, <2>8, <3>2, <3>4, <3>5, <3>6 DEF IndexMatchesHeaders
  <2> QED BY <2>7, <2>8
<1> QED BY <1>1, BuildsIndex, PTL

----------------------------------------------------------------------------
(* The inspection.                                                         *)

(* The report of the first n commands. *)
ReportIs(r, n) ==
  /\ DOMAIN r = DOMAIN NewReport
  /\ r.commands = [k \in 1 .. n |-> FrameOf(k, k - 1)]
  /\ \A k \in 1 .. n : recorded[k].tick >= 0 => recorded[k].tick \in r.ticks
  /\ r.header_bytes \in Int /\ r.encoded \in Int
  /\ HEADER_SIZE + r.header_bytes + r.encoded = starts[n + 1]
  /\ r.first_stop \in 0 .. n /\ (r.first_stop # 0 => recorded[r.first_stop].cmd = STOP)
  /\ r.after_stop = IF r.first_stop = 0 THEN 0 ELSE n - r.first_stop
  /\ r.syncs \in Seq(Int)
  /\ IF SyncsIn(n) = {} THEN r.syncs = <<>> ELSE r.syncs # <<>> /\ Head(r.syncs) = starts[StartIn(n)]

LEMMA NewReportIs == ASSUME LaidOut PROVE ReportIs(NewReport, 0)
<1>1. SyncsIn(0) = {}
  BY DEF SyncsIn
<1>2. starts[1] = HEADER_SIZE /\ starts[1] \in Nat
  BY Recorded DEF LaidOut
<1>3. [k \in 1 .. 0 |-> FrameOf(k, k - 1)] = <<>>
  OBVIOUS
<1> QED BY <1>1, <1>2, <1>3 DEF ReportIs, NewReport

LEMMA Telescopes ==
  ASSUME NEW h \in Int, NEW a \in Int, NEW e \in Int, NEW s \in Int, NEW t \in Int, NEW z \in Int,
         h + a + e = s
  PROVE  h + (a + t - s - z) + (e + z) = t
  OBVIOUS

(* A round of the loop takes the report of a prefix to that of the next.   *)
LEMMA ReportSteps ==
  ASSUME LaidOut, NEW n \in Nat, n + 1 \in 1 .. Len(recorded), NEW r, ReportIs(r, n), NEW body
  PROVE  ReportIs(Reported(r, FrameOf(n + 1, n), body), n + 1)
<1> DEFINE x == n + 1
           f == FrameOf(x, n)
           next == Reported(r, f, body)
           cmd == recorded[x].cmd
           tick == recorded[x].tick
           size == f.header.size
<1>1. /\ f.index = n /\ f.offset = starts[x] /\ f.end_offset = starts[x + 1]
      /\ f.header.tick = tick /\ f.header.cmd = cmd /\ size \in Int
      /\ starts[x] \in Nat /\ starts[x + 1] \in Nat
  BY PartsWritten DEF FrameOf, HeaderRecorded
<1>2. DOMAIN r = {"commands", "ticks", "syncs", "first_stop", "after_stop", "header_bytes", "encoded", "decoded"}
  BY DEF ReportIs, NewReport
<1>3. /\ r.commands = [k \in 1 .. n |-> FrameOf(k, k - 1)]
      /\ \A k \in 1 .. n : recorded[k].tick >= 0 => recorded[k].tick \in r.ticks
      /\ r.header_bytes \in Int /\ r.encoded \in Int
      /\ HEADER_SIZE + r.header_bytes + r.encoded = starts[x]
      /\ r.first_stop \in 0 .. n /\ (r.first_stop # 0 => recorded[r.first_stop].cmd = STOP)
      /\ r.after_stop = IF r.first_stop = 0 THEN 0 ELSE n - r.first_stop
      /\ r.syncs \in Seq(Int)
      /\ IF SyncsIn(n) = {} THEN r.syncs = <<>> ELSE r.syncs # <<>> /\ Head(r.syncs) = starts[StartIn(n)]
  BY DEF ReportIs
<1> HIDE DEF f
<1>4. /\ DOMAIN next = DOMAIN r
      /\ next.commands = Append(r.commands, f)
      /\ next.ticks = IF tick >= 0 THEN r.ticks \cup {tick} ELSE r.ticks
      /\ next.syncs = IF cmd = SYNC_TICK THEN Append(r.syncs, f.end_offset) ELSE r.syncs
      /\ next.first_stop = IF cmd = STOP /\ r.first_stop = 0 THEN n + 1 ELSE r.first_stop
      /\ next.after_stop = IF r.first_stop # 0 THEN r.after_stop + 1 ELSE r.after_stop
      /\ next.header_bytes = r.header_bytes + f.end_offset - f.offset - size
      /\ next.encoded = r.encoded + size
  BY <1>1, <1>2 DEF Reported
<1> HIDE DEF next, size
<1>5. next.commands = [k \in 1 .. x |-> FrameOf(k, k - 1)]
  <2> DEFINE a == [k \in 1 .. x |-> FrameOf(k, k - 1)]
             b == [k \in 1 .. n |-> FrameOf(k, k - 1)]
  <2>1. Len(b) = n /\ DOMAIN b = 1 .. n
    OBVIOUS
  <2>2. Append(b, f) = [k \in 1 .. n + 1 |-> IF k = n + 1 THEN f ELSE b[k]]
    BY <2>1
  <2>3. ASSUME NEW k \in 1 .. n + 1
        PROVE  FrameOf(k, k - 1) = IF k = n + 1 THEN f ELSE b[k]
    <3>1. CASE k = n + 1
      <4>1. k - 1 = n
        BY <3>1
      <4> QED BY <3>1, <4>1 DEF f
    <3>2. CASE k # n + 1
      <4>1. k \in 1 .. n
        BY <3>2
      <4> QED BY <3>2, <4>1
    <3> QED BY <3>1, <3>2
  <2> HIDE DEF b
  <2>4. a = Append(b, f)
    BY <2>2, <2>3
  <2> QED BY <1>3, <1>4, <2>4 DEF b
<1>6. \A k \in 1 .. x : recorded[k].tick >= 0 => recorded[k].tick \in next.ticks
  <2>1. \A k \in 1 .. x : k \in 1 .. n \/ k = x
    OBVIOUS
  <2> HIDE DEF x
  <2> QED BY <1>3, <1>4, <2>1
<1>7. /\ next.header_bytes \in Int /\ next.encoded \in Int
      /\ HEADER_SIZE + next.header_bytes + next.encoded = starts[x + 1]
  <2>1. HEADER_SIZE \in Nat
    <3>1. HEADER_SIZE = starts[1] /\ starts[1] \in Nat
      BY Recorded DEF LaidOut
    <3> QED BY <3>1
  <2>2. /\ next.header_bytes = r.header_bytes + starts[x + 1] - starts[x] - size
        /\ next.encoded = r.encoded + size
    BY <1>1, <1>4
  <2>3. /\ starts[x] \in Nat /\ starts[x + 1] \in Nat /\ size \in Int
        /\ r.header_bytes \in Int /\ r.encoded \in Int
        /\ HEADER_SIZE + r.header_bytes + r.encoded = starts[x]
    BY <1>1, <1>3
  <2>4. next.header_bytes \in Int /\ next.encoded \in Int
    BY <2>2, <2>3, SMTT(30)
  <2>5. HEADER_SIZE + next.header_bytes + next.encoded = starts[x + 1]
    <3>1. PICK h \in Int : h = HEADER_SIZE
      BY <2>1
    <3>2. PICK a \in Int : a = r.header_bytes
      BY <2>3
    <3>3. PICK e \in Int : e = r.encoded
      BY <2>3
    <3>4. PICK s \in Int : s = starts[x]
      BY <2>3
    <3>5. PICK t \in Int : t = starts[x + 1]
      BY <2>3
    <3>6. PICK z \in Int : z = size
      BY <2>3
    <3>7. h + a + e = s
      BY <2>3, <3>1, <3>2, <3>3, <3>4
    <3>8. h + (a + t - s - z) + (e + z) = t
      BY <3>7, Telescopes
    <3>9. next.header_bytes = a + t - s - z /\ next.encoded = e + z
      BY <2>2, <3>2, <3>3, <3>4, <3>5, <3>6
    <3> QED BY <3>1, <3>5, <3>8, <3>9
  <2> QED BY <2>4, <2>5
<1>8. /\ next.first_stop \in 0 .. x /\ (next.first_stop # 0 => recorded[next.first_stop].cmd = STOP)
      /\ next.after_stop = IF next.first_stop = 0 THEN 0 ELSE x - next.first_stop
  <2>1. CASE r.first_stop # 0
    <3>1. /\ next.first_stop = r.first_stop /\ next.after_stop = r.after_stop + 1
          /\ r.after_stop = n - r.first_stop /\ r.first_stop \in 0 .. n
      BY <1>3, <1>4, <2>1
    <3>2. next.first_stop \in 0 .. x /\ next.after_stop = x - next.first_stop
      BY <3>1
    <3> QED BY <1>3, <2>1, <3>1, <3>2
  <2>2. CASE r.first_stop = 0 /\ cmd = STOP
    BY <1>3, <1>4, <2>2
  <2>3. CASE r.first_stop = 0 /\ cmd # STOP
    BY <1>3, <1>4, <2>3
  <2> QED BY <2>1, <2>2, <2>3
<1>9. next.syncs \in Seq(Int)
  <2>1. f.end_offset \in Int /\ r.syncs \in Seq(Int)
    BY <1>1, <1>3
  <2>2. next.syncs = r.syncs \/ next.syncs = Append(r.syncs, f.end_offset)
    BY <1>4
  <2>3. Append(r.syncs, f.end_offset) \in Seq(Int)
    BY <2>1
  <2> QED BY <2>1, <2>2, <2>3
<1>10. IF SyncsIn(x) = {} THEN next.syncs = <<>>
       ELSE next.syncs # <<>> /\ Head(next.syncs) = starts[StartIn(x)]
  <2>1. CASE cmd = SYNC_TICK /\ SyncsIn(n) = {}
    <3>1. StartIn(x) = x + 1 /\ SyncsIn(x) # {}
      BY <2>1, FirstSync
    <3>2. next.syncs = Append(<<>>, starts[x + 1])
      BY <1>1, <1>3, <1>4, <2>1
    <3> QED BY <3>1, <3>2
  <2>2. CASE cmd = SYNC_TICK /\ SyncsIn(n) # {}
    <3>1. StartIn(x) = StartIn(n) /\ SyncsIn(x) # {}
      BY <2>2, StartStays
    <3>2. r.syncs # <<>> /\ Head(r.syncs) = starts[StartIn(n)] /\ next.syncs = Append(r.syncs, f.end_offset)
      BY <1>3, <1>4, <2>2
    <3>3. next.syncs # <<>> /\ Head(next.syncs) = Head(r.syncs)
      BY <1>3, <3>2
    <3> QED BY <3>1, <3>2, <3>3
  <2>3. CASE cmd # SYNC_TICK
    <3>1. StartIn(x) = StartIn(n) /\ (SyncsIn(x) # {} <=> SyncsIn(n) # {})
      BY <2>3, StartStays
    <3> QED BY <1>3, <1>4, <2>3, <3>1
  <2> QED BY <2>1, <2>2, <2>3
<1>11. DOMAIN next = DOMAIN NewReport
  BY <1>2, <1>4 DEF NewReport
<1> HIDE DEF x, cmd, tick
<1>12. ReportIs(next, x)
  BY <1>5, <1>6, <1>7, <1>8, <1>9, <1>10, <1>11 DEF ReportIs
<1> QED BY <1>12 DEF next, f, x

LEMMA ReportStays ==
  ASSUME UNCHANGED <<recorded, starts>>, NEW n
  PROVE  ReportIs(report', n) <=> ReportIs(report, n)'
<1>1. \A i, j : FrameOf(i, j)' = FrameOf(i, j)
  BY DEF FrameOf, HeaderRecorded, SizeEnd, TickEnd, RawEnd
<1>2. SyncsIn(n)' = SyncsIn(n) /\ StartIn(n)' = StartIn(n)
  BY SetsStay
<1> QED BY <1>1, <1>2 DEF ReportIs

(* The inspection has seen the first n commands, and all of them once it   *)
(* ends.                                                                   *)
SeenAll(n) ==
  /\ n \in 0 .. Len(recorded) /\ commands.base = HEADER_SIZE /\ ~commands.failed
  /\ commands.index = n /\ \A k \in 1 .. n : Readable(k)
  /\ ReportIs(report, n)

Inspected ==
  /\ IndexBuilt
  /\ phase \in {"closed", "indexing", "indexed"} => report = NewReport
  /\ phase \in {"inspecting", "inspected"} => SeenAll(commands.index)
  /\ phase = "inspected" => frame = NoItem

LEMMA InitInspected == Init => Inspected
  BY InitIndexBuilt DEF Init, Inspected

LEMMA NextInspected == Inspected /\ [Next]_vars => Inspected'
<1> SUFFICES ASSUME Inspected, [Next]_vars PROVE Inspected'
  OBVIOUS
<1>1. /\ IndexBuilt' /\ IndexBuilt /\ ReadsInOrder /\ ReadsInOrder' /\ Placed /\ LaidOut /\ LaidOut'
      /\ Len(recorded) \in Nat
  BY NextIndexBuilt, Recorded DEF Inspected, IndexBuilt, ReadsInOrder, Placed
<1>2. CASE Open
  BY <1>1, <1>2 DEF Open, Inspected
<1>3. CASE IndexNext
  <2>1. phase = "indexing" /\ phase' \in {"indexing", "indexed"} /\ report' = report
    BY <1>3 DEF IndexNext
  <2> QED BY <1>1, <2>1 DEF Inspected
<1>4. CASE Inspect
  <2>1. /\ phase = "indexed" /\ phase' = "inspecting" /\ report' = report /\ UNCHANGED <<recorded, starts>>
        /\ commands' = CommandIter(HEADER_SIZE)
    BY <1>4 DEF Inspect, written
  <2>2. report' = NewReport
    BY <2>1 DEF Inspected
  <2>3. ReportIs(report, 0)'
    BY <1>1, <2>1, <2>2, NewReportIs, ReportStays
  <2>4. commands'.base = HEADER_SIZE /\ ~commands'.failed /\ commands'.index = 0
    BY <2>1 DEF CommandIter
  <2>5. SeenAll(0)'
    BY <1>1, <2>1, <2>3, <2>4 DEF SeenAll
  <2> QED BY <1>1, <2>1, <2>4, <2>5 DEF Inspected
<1>5. CASE InspectNext
  <2>0. PICK n \in Nat : n = commands.index
    BY <1>1 DEF Placed, Iterators
  <2>1. /\ phase = "inspecting" /\ UNCHANGED written /\ UNCHANGED <<recorded, starts, file>>
        /\ commands' = NextCommand(commands).iter /\ frame' = NextCommand(commands).item
    BY <1>5 DEF InspectNext, written
  <2>2. SeenAll(n)
    BY <2>0, <2>1 DEF Inspected
  <2>3. Called
    BY <2>1 DEF Called
  <2>4. First = 1 /\ Following = n + 1 /\ n \in 0 .. Len(recorded)
    <3>1. 1 \in DOMAIN starts /\ starts[1] = commands.base
      BY <1>1, <2>2, Recorded DEF LaidOut, SeenAll
    <3>2. First = 1
      BY <1>1, <3>1, FirstIs
    <3> QED BY <2>0, <2>2, <3>2 DEF Following, SeenAll
  <2>5. /\ commands'.base = HEADER_SIZE
        /\ IF n + 1 \notin Begun THEN frame' = NoItem /\ commands' = commands
           ELSE IF Readable(n + 1) THEN frame' = FrameOf(n + 1, n) /\ commands'.index = n + 1
           ELSE frame' = Broken /\ commands'.index = n
    BY <1>1, <2>0, <2>2, <2>3, <2>4, CallReads DEF SeenAll
  <2>6. \A k : Readable(k)' <=> Readable(k)
    BY <2>1 DEF Readable, Whole, FileLen
  <2>7. CASE n + 1 \notin Begun
    <3>1. frame'.kind = "none" /\ frame' = NoItem /\ commands' = commands
      BY <2>5, <2>7 DEF NoItem
    <3>2. phase' = "inspected" /\ report' = report
      BY <1>5, <2>1, <3>1 DEF InspectNext
    <3>3. ReportIs(report, n)'
      BY <2>1, <2>2, <3>2, ReportStays DEF SeenAll
    <3>4. SeenAll(n)'
      BY <2>1, <2>2, <2>6, <3>1, <3>3 DEF SeenAll
    <3> QED BY <1>1, <2>0, <3>1, <3>2, <3>4 DEF Inspected
  <2>8. CASE n + 1 \in Begun /\ ~Readable(n + 1)
    <3>1. frame'.kind = "error"
      BY <2>5, <2>8 DEF Broken
    <3>2. phase' = "ended"
      BY <1>5, <2>1, <3>1 DEF InspectNext
    <3> QED BY <1>1, <3>2 DEF Inspected
  <2>9. CASE n + 1 \in Begun /\ Readable(n + 1)
    <3>1. /\ frame' = FrameOf(n + 1, n) /\ commands'.index = n + 1 /\ frame'.kind = "frame"
      BY <2>5, <2>9 DEF FrameOf
    <3>2. phase' = "ended" \/ (phase' = "inspecting" /\ \E body : report' = Reported(report, frame', body))
      BY <1>5, <2>1, <3>1 DEF InspectNext
    <3>3. CASE phase' = "ended"
      BY <1>1, <3>3 DEF Inspected
    <3>4. CASE phase' = "inspecting" /\ \E body : report' = Reported(report, frame', body)
      <4>1. PICK body : report' = Reported(report, FrameOf(n + 1, n), body)
        BY <3>1, <3>4
      <4>2. n + 1 \in 1 .. Len(recorded)
        BY <1>1, <2>9, ReadableBegun
      <4>3. ReportIs(report', n + 1)
        BY <1>1, <2>2, <4>1, <4>2, ReportSteps DEF SeenAll
      <4>4. ReportIs(report, n + 1)'
        BY <2>1, <4>3, ReportStays
      <4>5. \A k \in 1 .. n + 1 : Readable(k)
        <5>1. \A k \in 1 .. n + 1 : k \in 1 .. n \/ k = n + 1
          OBVIOUS
        <5> QED BY <2>2, <2>9, <5>1 DEF SeenAll
      <4>6. ~commands'.failed
        <5>1. Given' /\ frame' # NoItem /\ frame' # Broken
          BY <1>1, <2>3, <3>1, CallReads DEF NoItem, Broken
        <5> QED BY <5>1 DEF Given
      <4>7. SeenAll(n + 1)'
        BY <2>1, <2>5, <2>6, <3>1, <4>2, <4>4, <4>5, <4>6 DEF SeenAll
      <4> QED BY <1>1, <3>1, <3>4, <4>7 DEF Inspected
    <3> QED BY <3>2, <3>3, <3>4
  <2> QED BY <2>7, <2>8, <2>9
<1>6. CASE phase' \in {"reading", "ended", "body", "messages"}
  BY <1>1, <1>6 DEF Inspected
<1>7. CASE Read
  BY <1>6, <1>7 DEF Read
<1>8. CASE ReadNext
  <2>1. /\ phase' = CASE frame'.kind = "none"  -> "ended"
                      [] frame'.kind = "error" -> IF tolerant THEN "reading" ELSE "ended"
                      [] frame'.kind = "frame" -> "body"
        /\ Called
    BY <1>8 DEF ReadNext, Called
  <2>2. frame' = NoItem \/ frame' = Broken \/ frame' = FrameOf(Following, commands.index)
    BY <1>1, <2>1, CallReads
  <2>3. frame'.kind \in {"none", "error", "frame"}
    BY <2>2 DEF NoItem, Broken, FrameOf
  <2> QED BY <1>6, <2>1, <2>3
<1>9. CASE DecodeBody
  BY <1>6, <1>9 DEF DecodeBody
<1>10. CASE MessageNext
  <2>1. NextMessage(messages).item.kind \in {"none", "error", "frame"}
    BY DEF NextMessage, NoMessage, BrokenMessage
  <2>2. PICK n \in {NextMessage(messages)} :
          phase' = CASE n.item.kind = "none"  -> "reading"
                   [] n.item.kind = "error" -> IF tolerant THEN "messages" ELSE "ended"
                   [] n.item.kind = "frame" -> "messages"
    BY <1>10 DEF MessageNext
  <2>3. n.item.kind \in {"none", "error", "frame"}
    BY <2>1
  <2> QED BY <1>6, <2>2, <2>3
<1>11. CASE UNCHANGED vars
  <2>1. UNCHANGED <<written, recorded, starts, file, commands, frame, phase, report>>
    BY <1>11 DEF vars, written
  <2>2. \A k : Readable(k)' <=> Readable(k)
    BY <2>1 DEF Readable, Whole, FileLen
  <2>3. SeenAll(commands.index) => SeenAll(commands.index)'
    BY <2>1, <2>2, ReportStays DEF SeenAll
  <2> QED BY <1>1, <2>1, <2>3 DEF Inspected
<1> QED BY <1>2, <1>3, <1>4, <1>5, <1>7, <1>8, <1>9, <1>10, <1>11 DEF Next, Step

LEMMA Inspects == Spec => []Inspected
<1>1. Init => Inspected
  BY InitInspected
<1>2. Inspected /\ [Next]_vars => Inspected'
  BY NextInspected
<1> QED BY <1>1, <1>2, PTL DEF Spec

(* What is at the commands of a set. *)
LEMMA MarksRange ==
  ASSUME NEW m \in Nat, NEW S, S \subseteq 1 .. m
  PROVE  /\ \A mark \in Range(MarksAt(S)) : \E k \in S : mark = MarkOf(k)
         /\ \A tick \in Range(TicksAt(S)) : \E k \in S : tick = recorded[k].tick
<1>1. S \subseteq Int /\ IsFiniteSet(S)
  <2>1. IsFiniteSet(1 .. m) /\ S \subseteq Int
    BY FS_Interval
  <2>2. IsFiniteSet(S)
    BY <2>1, FS_Subset
  <2> QED BY <2>1, <2>2
<1> DEFINE s == Headers!InOrder(S)
<1>2. \A i \in DOMAIN s : s[i] \in S
  <2>1. s \in Seq(S)
    BY <1>1, InOrderType
  <2> HIDE DEF s
  <2> QED BY <2>1
<1> QED BY <1>2 DEF MarksAt, TicksAt, Range

(* A completed inspection accounts for every byte of the file and every    *)
(* command, and agrees with the index of the first pass (inspect_demo).    *)
THEOREM InspectedAsWritten == Spec => []InspectionAccounts
<1>1. Inspected => InspectionAccounts
  <2> SUFFICES ASSUME Inspected, phase = "inspected" PROVE InspectionAccounts
    BY DEF InspectionAccounts
  <2> DEFINE n     == commands.index
             first == report.first_stop
             all   == Range(report.commands)
  <2>1. /\ LaidOut /\ Placed /\ SeenAll(n) /\ ReportIs(report, n) /\ n \in 0 .. Len(recorded)
        /\ Len(recorded) \in Nat /\ FileLen \in Nat /\ FileLen >= HEADER_SIZE
    BY Recorded DEF Inspected, IndexBuilt, ReadsInOrder, Placed, SeenAll
  <2>2. /\ report.commands = [k \in 1 .. n |-> FrameOf(k, k - 1)]
        /\ \A k \in 1 .. n : recorded[k].tick >= 0 => recorded[k].tick \in report.ticks
        /\ HEADER_SIZE + report.header_bytes + report.encoded = starts[n + 1]
        /\ first \in 0 .. n /\ (first # 0 => recorded[first].cmd = STOP)
        /\ report.after_stop = IF first = 0 THEN 0 ELSE n - first
        /\ SyncsIn(n) # {} => Head(report.syncs) = starts[StartIn(n)]
    BY <2>1 DEF ReportIs
  <2>3. n + 1 \notin Begun
    <3>1. First = 1
      <4>1. 1 \in DOMAIN starts /\ starts[1] = commands.base
        BY <2>1, Recorded DEF LaidOut, SeenAll
      <4> QED BY <2>1, <4>1, FirstIs
    <3>2. Following = n + 1
      BY <2>1, <3>1 DEF Following
    <3>3. frame = NoItem /\ ~commands.failed
      BY <2>1 DEF Inspected, SeenAll
    <3> QED BY <3>2, <3>3 DEF Inspected, IndexBuilt, ReadsInOrder
  <2>4. PICK m \in 0 .. Len(recorded) : Took(m)
    BY DEF Inspected, IndexBuilt
  <2> HIDE DEF n
  <2>5. m \in Nat /\ n \in Nat /\ m <= n
    <3>1. PICK b \in 0 .. Len(recorded) : Begun = 1 .. b
      BY <2>1, BegunAre
    <3>2. m <= b
      BY <2>1, <2>4, <3>1, TookIs
    <3> QED BY <2>1, <2>3, <3>1, <3>2
  <2>6. IndexIs(index, m) /\ \A k \in 1 .. m : recorded[k].cmd # STOP
    BY <2>4 DEF Took, Taking
  <2>7. starts[n + 1] = FileLen
    <3>1. n + 1 \in 1 .. Len(recorded) + 1 /\ starts[n + 1] \in Nat
      BY <2>1, Recorded
    <3>2. starts[n + 1] >= FileLen
      <4>1. CASE n = Len(recorded)
        BY <2>1, <3>1, <4>1 DEF LaidOut
      <4>2. CASE n # Len(recorded)
        <5>1. n + 1 \in DOMAIN recorded
          <6>1. n + 1 \in 1 .. Len(recorded)
            BY <2>1, <2>5, <4>2
          <6>2. DOMAIN recorded = 1 .. Len(recorded)
            BY <2>1, Recorded
          <6> QED BY <6>1, <6>2
        <5>2. ~(starts[n + 1] < FileLen)
          BY <2>3, <5>1 DEF Begun
        <5> QED BY <2>1, <3>1, <5>2
      <4> QED BY <4>1, <4>2
    <3>3. starts[n + 1] <= FileLen
      <4>1. CASE n = 0
        BY <2>1, <4>1 DEF LaidOut
      <4>2. CASE n # 0
        <5>1. n \in 1 .. n
          BY <2>5, <4>2
        <5> QED BY <2>1, <5>1 DEF SeenAll, Readable, Whole, n
      <4> QED BY <4>1, <4>2
    <3> QED BY <2>1, <3>1, <3>2, <3>3
  <2>8. HEADER_SIZE + report.header_bytes + report.encoded = FileLen
    BY <2>2, <2>7 DEF n
  <2>9. Len(report.commands) = n
    BY <2>2, <2>5 DEF n
  <2>10. (first # 0 => first + report.after_stop = Len(report.commands)) /\ (first = 0 => report.after_stop = 0)
    <3>1. first \in 0 .. n /\ report.after_stop = IF first = 0 THEN 0 ELSE n - first
      BY <2>2 DEF n
    <3> QED BY <2>5, <2>9, <3>1
  <2>11. FullIn(m) \subseteq 1 .. m /\ FreshIn(m) \subseteq 1 .. m /\ 1 .. m \subseteq 1 .. n
    BY <2>5, StreamedBelow
  <2>12. Range(index.distinct_ticks) \subseteq report.ticks
    <3>1. index.distinct_ticks = TicksAt(FreshIn(m))
      BY <2>6 DEF IndexIs
    <3>2. ASSUME NEW tick \in Range(index.distinct_ticks) PROVE tick \in report.ticks
      <4>1. PICK k \in FreshIn(m) : tick = recorded[k].tick
        BY <2>5, <2>11, <3>1, MarksRange
      <4>2. k \in 1 .. n /\ recorded[k].tick >= 0
        BY <2>11 DEF FreshIn, TimedIn
      <4> QED BY <2>2, <4>1, <4>2 DEF n
    <3> QED BY <3>2
  <2>13. index.stream_start = IF StartIn(m) = 0 THEN NoStart ELSE starts[StartIn(m)]
    BY <2>6 DEF IndexIs
  <2>14. ASSUME NEW full \in Range(index.full_packets)
         PROVE  \E f \in all : /\ f.header.cmd = FULL_PACKET
                               /\ f.offset = full.offset /\ f.header.tick = full.tick
                               /\ f.offset >= index.stream_start /\ (first # 0 => f.index + 1 < first)
    <3>1. index.full_packets = MarksAt(FullIn(m))
      BY <2>6 DEF IndexIs
    <3>2. PICK k \in FullIn(m) : full = MarkOf(k)
      BY <2>5, <2>11, <3>1, MarksRange
    <3>3. k \in 1 .. n /\ k \in 1 .. m /\ recorded[k].cmd = FULL_PACKET /\ StartIn(m) # 0 /\ k >= StartIn(m)
      BY <2>11 DEF FullIn, StreamedIn
    <3> DEFINE f == FrameOf(k, k - 1)
    <3>4. /\ f.index = k - 1 /\ f.offset = starts[k]
          /\ f.header.tick = recorded[k].tick /\ f.header.cmd = recorded[k].cmd
      BY DEF FrameOf, HeaderRecorded
    <3>5. f \in all
      <4> HIDE DEF f
      <4>1. DOMAIN report.commands = 1 .. n /\ report.commands[k] = f
        BY <2>2, <3>3 DEF n, f
      <4> QED BY <3>3, <4>1 DEF Range
    <3> HIDE DEF f
    <3>6. f.offset >= index.stream_start
      <4>1. StartIn(m) \in 2 .. m + 1
        BY <2>5, <3>3, StartIs
      <4>2. StartIn(m) \in DOMAIN starts /\ k \in DOMAIN starts /\ DOMAIN starts = 1 .. Len(recorded) + 1
        BY <2>1, <2>4, <3>3, <4>1, Recorded
      <4>3. StartIn(m) = k \/ StartIn(m) < k
        BY <3>3, <4>1
      <4>4. StartIn(m) < k => starts[StartIn(m)] < starts[k]
        BY <2>1, <4>2, StartsIncrease
      <4>5. starts[StartIn(m)] \in Nat /\ starts[k] \in Nat
        BY <2>1, <4>2, Recorded
      <4>6. starts[k] >= starts[StartIn(m)]
        BY <4>3, <4>4, <4>5
      <4> QED BY <2>13, <3>3, <3>4, <4>6
    <3>7. first # 0 => f.index + 1 < first
      <4> SUFFICES ASSUME first # 0 PROVE k < first
        BY <3>3, <3>4
      <4>1. first \in 1 .. n /\ first \notin 1 .. m
        <5>1. first \in 0 .. n /\ recorded[first].cmd = STOP
          BY <2>2 DEF n
        <5> QED BY <2>6, <5>1
      <4> HIDE DEF first
      <4> QED BY <2>5, <3>3, <4>1
    <3>8. f.offset = full.offset /\ f.header.tick = full.tick /\ f.header.cmd = FULL_PACKET
      BY <3>2, <3>3, <3>4 DEF MarkOf
    <3> HIDE DEF all, first
    <3> QED BY <3>5, <3>6, <3>7, <3>8
  <2>15. index.stream_start # NoStart => index.stream_start = Head(report.syncs)
    <3> SUFFICES ASSUME index.stream_start # NoStart PROVE index.stream_start = Head(report.syncs)
      OBVIOUS
    <3>1. StartIn(m) # 0 /\ index.stream_start = starts[StartIn(m)] /\ SyncsIn(m) # {}
      BY <2>5, <2>13, StartIs
    <3>2. SyncsIn(m) \subseteq SyncsIn(n)
      BY <2>11 DEF SyncsIn
    <3>3. /\ StartIn(m) \in 2 .. m + 1 /\ StartIn(m) - 1 \in SyncsIn(m)
          /\ \A k \in SyncsIn(m) : StartIn(m) - 1 <= k
      BY <2>5, <3>1, StartIs
    <3>4. /\ SyncsIn(n) # {} /\ StartIn(n) \in 2 .. n + 1 /\ StartIn(n) - 1 \in SyncsIn(n)
          /\ \A k \in SyncsIn(n) : StartIn(n) - 1 <= k
      BY <2>5, <3>1, <3>2, StartIs
    <3>5. StartIn(n) - 1 <= StartIn(m) - 1
      BY <3>2, <3>3, <3>4
    <3>6. StartIn(n) - 1 \in SyncsIn(m)
      <4>1. StartIn(n) - 1 \in 1 .. m
        BY <2>5, <3>3, <3>4, <3>5
      <4> QED BY <3>4, <4>1 DEF SyncsIn
    <3>7. StartIn(n) = StartIn(m)
      BY <3>3, <3>4, <3>5, <3>6
    <3> QED BY <2>2, <3>1, <3>4, <3>7 DEF n
  <2> HIDE DEF first, all
  <2> QED BY <2>8, <2>10, <2>12, <2>14, <2>15 DEF InspectionAccounts, first, all
<1> QED BY <1>1, Inspects, PTL

----------------------------------------------------------------------------
(* Bits.                                                                   *)

(* Equal bits say equal numbers. *)
SameFrom(f, at, g, bt, n) == \A i \in 1 .. n : f[at + i - 1] = g[bt + i - 1]

LEMMA SameBits ==
  ASSUME NEW f, NEW g, NEW at, NEW bt, NEW n \in Nat, SameFrom(f, at, g, bt, n)
  PROVE  Value(f, at, n) = Value(g, bt, n)
<1> DEFINE d == [i \in 1 .. n |-> f[at + i - 1]]
           e == [i \in 1 .. n |-> g[bt + i - 1]]
<1>1. d = e
  BY DEF SameFrom
<1> QED BY <1>1 DEF Value, ValueIn

(* The bits s are in the buffer behind `at`, or what is left of it is. *)
BitsAt(at, s) == \A i \in 1 .. Len(s) : at + i <= TotalBits => BitAt[at + i - 1] = s[i]

LEMMA TotalIs == ASSUME BufferTyped PROVE TotalBits \in Nat /\ Len(data) \in Nat
<1>1. Len(data) \in Nat
  BY DEF BufferTyped
<1> QED BY <1>1, ByteIs, ProductIn DEF TotalBits

(* The bits of a number are those of its digits.                           *)
LEMMA BitsAre ==
  ASSUME NEW n \in Nat, NEW w \in Nat
  PROVE  /\ BitsOf(n, w) \in Seq(Bits) /\ Len(BitsOf(n, w)) = w
<1> DEFINE d == BitsOf(n, w)
           q == Quotients(n, 2, w)
<1>1. d \in Seq(Nat) /\ Len(d) = w /\ \A k \in 1 .. w : d[k] = q[k - 1] % 2
  BY DigitsAre DEF BitsOf
<1>2. q \in [0 .. w -> Nat]
  BY QuotientsAre
<1> HIDE DEF q, d
<1>3. ASSUME NEW k \in 1 .. w PROVE d[k] \in Bits
  <2>1. q[k - 1] \in Nat
    BY <1>2
  <2> QED BY <1>1, <2>1 DEF Bits
<1>4. d \in Seq(Bits)
  BY <1>1, <1>3
<1> QED BY <1>1, <1>4 DEF d

(* A sequence of bits as a stream, with zeros behind it. *)
Stream(s) == [i \in Nat |-> IF i < Len(s) THEN s[i + 1] ELSE 0]

LEMMA StreamIs ==
  ASSUME NEW s \in Seq(Bits)
  PROVE  /\ Stream(s) \in [Nat -> Bits] /\ Stream(s) \in [Nat -> Nat]
         /\ \A i \in 1 .. Len(s) : Stream(s)[i - 1] = s[i]
<1>1. Len(s) \in Nat /\ \A i \in 1 .. Len(s) : s[i] \in Bits
  OBVIOUS
<1>2. ASSUME NEW i \in Nat PROVE Stream(s)[i] \in Bits
  <2>1. CASE i < Len(s)
    BY <1>1, <2>1 DEF Stream
  <2>2. CASE ~(i < Len(s))
    BY <2>2 DEF Stream, Bits
  <2> QED BY <2>1, <2>2
<1>3. Stream(s) \in [Nat -> Bits]
  BY <1>2 DEF Stream
<1>4. ASSUME NEW i \in 1 .. Len(s) PROVE Stream(s)[i - 1] = s[i]
  BY <1>1 DEF Stream
<1>5. Stream(s) \in [Nat -> Nat]
  BY <1>3 DEF Bits
<1> QED BY <1>3, <1>4, <1>5

(* The bits of a number make the number. *)
LEMMA NumberOfBits ==
  ASSUME NEW w \in 0 .. WordBits, NEW n \in Nat, n < PowerOf2[w]
  PROVE  Value(Stream(BitsOf(n, w)), 0, w) = n
<1> DEFINE s == BitsOf(n, w)
           f == Stream(s)
           d == [i \in 1 .. w |-> f[0 + i - 1]]
<1>1. w \in Nat /\ s \in Seq(Bits) /\ Len(s) = w
  BY WordIs, BitsAre
<1>2. f \in [Nat -> Nat] /\ \A i \in 1 .. w : f[i - 1] = s[i]
  BY <1>1, StreamIs
<1>3. Value(f, 0, w) = Composed(d, 2)
  BY DEF Value, ValueIn
<1>4. CASE w = 0
  <2>1. n = 0
    <3>1. PowerOf2[w] = 1
      BY <1>4, ByteIs
    <3> QED BY <3>1
  <2>2. Value(f, 0, 0) = 0
    BY <1>2, BitValue
  <2> QED BY <1>4, <2>1, <2>2
<1>5. CASE w # 0
  <2>1. Len(d) = w
    BY <1>1
  <2>2. \A k \in 1 .. w : d[k] = s[k]
    BY <1>1, <1>2
  <2>3. PowerOf2[1] = 2
    <3>1. 0 \in 0 .. WordBits - 1 /\ 0 + 1 = 1 /\ 1 \in 0 .. WordBits
      BY <1>5, WordIs
    <3>2. PowerOf2[0 + 1] = 2 * PowerOf2[0] /\ PowerOf2[0] = 1
      BY <3>1, PowersAre
    <3> QED BY <3>1, <3>2
  <2>4. w * 1 = w /\ w <= WordBits /\ w \in Nat \ {0} /\ 1 \in Nat
    BY <1>1, <1>5, WordIs
  <2>5. s = Digits(n, 2, w)
    BY DEF BitsOf
  <2> HIDE DEF d, s, f
  <2>6. DigitsOf(d, n, PowerOf2[1], w)
    BY <2>1, <2>2, <2>3, <2>5 DEF DigitsOf
  <2>7. Composed(d, PowerOf2[1]) = n
    BY <2>4, <2>6, DigitsRoundTrip
  <2> QED BY <1>3, <2>3, <2>7 DEF s, f
<1> QED BY <1>4, <1>5

(* A number is read where its bits are. *)
LEMMA NumberRead ==
  ASSUME BufferTyped, NEW w \in 0 .. WordBits, NEW n \in Nat, n < PowerOf2[w],
         NEW at \in Nat, at + w <= TotalBits, BitsAt(at, BitsOf(n, w))
  PROVE  Value(BitAt, at, w) = n
<1> DEFINE s == BitsOf(n, w)
           f == Stream(s)
<1>1. w \in Nat /\ s \in Seq(Bits) /\ Len(s) = w /\ TotalBits \in Nat
  BY WordIs, BitsAre, TotalIs
<1>2. \A i \in 1 .. w : f[i - 1] = s[i]
  BY <1>1, StreamIs
<1>3. ASSUME NEW i \in 1 .. w PROVE BitAt[at + i - 1] = f[0 + i - 1]
  <2>1. at + i <= TotalBits /\ 0 + i - 1 = i - 1
    BY <1>1
  <2>2. BitAt[at + i - 1] = s[i]
    BY <1>1, <2>1 DEF BitsAt
  <2> QED BY <1>2, <2>1, <2>2
<1>4. Value(f, 0, w) = n
  BY NumberOfBits
<1> HIDE DEF f
<1>5. SameFrom(BitAt, at, f, 0, w)
  BY <1>3 DEF SameFrom
<1>6. Value(BitAt, at, w) = Value(f, 0, w)
  BY <1>1, <1>5, SameBits
<1> QED BY <1>4, <1>6

(* A piece is found behind those before it. *)
PiecesOf(p, V) == Len(p) \in Nat /\ \A k \in 1 .. Len(p) : p[k] \in Seq(V)

LEMMA PieceKept ==
  ASSUME NEW pieces, Pieces(pieces), NEW k \in 1 .. Len(pieces), NEW n \in k .. Len(pieces)
  PROVE  /\ Len(Joined(pieces)[k - 1]) \in Nat /\ Len(pieces[k]) \in Nat
         /\ Len(Joined(pieces)[k]) = Len(Joined(pieces)[k - 1]) + Len(pieces[k])
         /\ Len(Joined(pieces)[k]) <= Len(Joined(pieces)[n])
         /\ \A i \in 1 .. Len(pieces[k]) :
              Joined(pieces)[n][Len(Joined(pieces)[k - 1]) + i] = pieces[k][i]
<1> DEFINE J == Joined(pieces)
           a == J[k - 1]
           b == pieces[k]
           c == J[k]
<1>1. /\ Len(pieces) \in Nat /\ k - 1 \in 0 .. Len(pieces) /\ k \in 0 .. Len(pieces)
      /\ b \in Seq(Nat)
  BY DEF Pieces
<1>2. a \in Seq(Nat) /\ c = a \o b
  BY <1>1, JoinedIs
<1>3. /\ Len(c) <= Len(J[n])
      /\ \A i \in 1 .. Len(c) : J[n][i] = c[i]
  BY <1>1, JoinedKeeps
<1> HIDE DEF a, b, c, J
<1>4. Len(a) \in Nat /\ Len(b) \in Nat /\ Len(c) = Len(a) + Len(b)
      /\ \A i \in 1 .. Len(b) : c[Len(a) + i] = b[i]
  BY <1>1, <1>2
<1>5. ASSUME NEW i \in 1 .. Len(b) PROVE J[n][Len(a) + i] = b[i]
  <2>1. Len(a) + i \in 1 .. Len(c)
    BY <1>4
  <2> QED BY <1>3, <1>4, <2>1
<1> QED BY <1>3, <1>4, <1>5 DEF a, b, c, J

LEMMA JoinedIn ==
  ASSUME NEW V, V \subseteq Nat, NEW pieces, PiecesOf(pieces, V)
  PROVE  Pieces(pieces) /\ \A k \in 0 .. Len(pieces) : Joined(pieces)[k] \in Seq(V)
<1> DEFINE J == Joined(pieces)
           n == Len(pieces)
           S == {k \in 0 .. n : J[k] \in Seq(V)}
<1>1. n \in Nat /\ \A k \in 1 .. n : pieces[k] \in Seq(V)
  BY DEF PiecesOf
<1>2. Pieces(pieces)
  <2>1. ASSUME NEW k \in 1 .. n PROVE pieces[k] \in Seq(Nat)
    BY <1>1, SeqMonotonic
  <2> QED BY <1>1, <2>1 DEF Pieces
<1>3. J[0] = <<>> /\ \A k \in 1 .. n : J[k] = J[k - 1] \o pieces[k]
  BY <1>2, JoinedIs
<1> HIDE DEF J, n
<1>4. 0 \in S
  <2>1. <<>> \in Seq(V)
    OBVIOUS
  <2>2. J[0] \in Seq(V)
    BY <1>3, <2>1, Zenon
  <2> QED BY <1>1, <2>2
<1>5. ASSUME NEW k \in 0 .. n - 1, k \in S PROVE k + 1 \in S
  <2>1. k + 1 \in 1 .. n /\ (k + 1) - 1 = k /\ k + 1 \in 0 .. n
    BY <1>1
  <2>2. J[k + 1] = J[k] \o pieces[k + 1]
    BY <1>3, <2>1
  <2>3. J[k] \in Seq(V) /\ pieces[k + 1] \in Seq(V)
    BY <1>1, <1>5, <2>1
  <2>4. J[k] \o pieces[k + 1] \in Seq(V)
    BY <2>3
  <2> QED BY <2>1, <2>2, <2>4
<1>6. \A k \in 0 .. n : k \in S
  <2> HIDE DEF S
  <2> QED BY <1>1, <1>4, <1>5, Stepwise
<1> QED BY <1>2, <1>6 DEF J, n

(* Bytes as bits: each byte in its place. *)
LEMMA BitsOfBytesAre ==
  ASSUME NEW bytes \in Seq(Nat)
  PROVE  /\ BitsOfBytes(bytes) \in Seq(Bits)
         /\ Len(BitsOfBytes(bytes)) = Len(bytes) * ByteBits
         /\ \A k \in 1 .. Len(bytes) :
              \A i \in 1 .. ByteBits :
                BitsOfBytes(bytes)[(k - 1) * ByteBits + i] = BitsOf(bytes[k], ByteBits)[i]
<1> DEFINE pieces == [k \in DOMAIN bytes |-> BitsOf(bytes[k], ByteBits)]
           J == Joined(pieces)
           n == Len(bytes)
           S == {k \in 0 .. n : Len(J[k]) = k * ByteBits}
<1>1. Len(pieces) = n /\ n \in Nat /\ DOMAIN bytes = 1 .. n /\ ByteBits \in Nat /\ Bits \subseteq Nat
  BY ByteIs DEF Bits
<1>2. ASSUME NEW k \in 1 .. n
      PROVE  /\ pieces[k] = BitsOf(bytes[k], ByteBits)
             /\ pieces[k] \in Seq(Bits) /\ Len(pieces[k]) = ByteBits
  <2>1. bytes[k] \in Nat /\ pieces[k] = BitsOf(bytes[k], ByteBits)
    BY <1>1
  <2> QED BY <1>1, <2>1, BitsAre
<1> HIDE DEF pieces
<1>3. PiecesOf(pieces, Bits)
  BY <1>1, <1>2 DEF PiecesOf
<1>4. Pieces(pieces) /\ \A k \in 0 .. n : J[k] \in Seq(Bits)
  BY <1>1, <1>3, JoinedIn
<1>5. ASSUME NEW k \in 1 .. n
      PROVE  /\ Len(J[k]) = Len(J[k - 1]) + ByteBits
             /\ \A i \in 1 .. ByteBits : J[n][Len(J[k - 1]) + i] = pieces[k][i]
  <2>1. k \in 1 .. Len(pieces) /\ n \in k .. Len(pieces)
    BY <1>1
  <2>2. /\ Len(J[k]) = Len(J[k - 1]) + Len(pieces[k])
        /\ \A i \in 1 .. Len(pieces[k]) : J[n][Len(J[k - 1]) + i] = pieces[k][i]
    BY <1>4, <2>1, PieceKept
  <2>3. Len(pieces[k]) = ByteBits
    BY <1>2
  <2> HIDE DEF J
  <2> QED BY <2>2, <2>3
<1>6. J[0] = <<>>
  BY <1>4, JoinedIs
<1> HIDE DEF J, n
<1>7. 0 \in S
  BY <1>1, <1>6
<1>8. ASSUME NEW k \in 0 .. n - 1, k \in S PROVE k + 1 \in S
  <2>1. k + 1 \in 1 .. n /\ (k + 1) - 1 = k /\ k + 1 \in 0 .. n /\ k \in Nat
    BY <1>1
  <2>2. Len(J[k + 1]) = Len(J[k]) + ByteBits
    BY <1>5, <2>1
  <2>3. k * ByteBits + ByteBits = (k + 1) * ByteBits
    BY <1>1, <2>1
  <2> QED BY <1>8, <2>1, <2>2, <2>3
<1>9. \A k \in 0 .. n : k \in S
  <2> HIDE DEF S
  <2> QED BY <1>1, <1>7, <1>8, Stepwise
<1>10. ASSUME NEW k \in 1 .. n, NEW i \in 1 .. ByteBits
       PROVE  J[n][(k - 1) * ByteBits + i] = pieces[k][i]
  <2>1. Len(J[k - 1]) = (k - 1) * ByteBits
    BY <1>1, <1>9
  <2>2. J[n][Len(J[k - 1]) + i] = pieces[k][i]
    BY <1>5
  <2> QED BY <2>1, <2>2
<1>11. BitsOfBytes(bytes) = J[n]
  BY DEF BitsOfBytes, J, n, pieces
<1>12. J[n] \in Seq(Bits) /\ Len(J[n]) = n * ByteBits
  <2>1. n \in 0 .. n
    BY <1>1
  <2> QED BY <1>4, <1>9, <2>1
<1> QED BY <1>2, <1>10, <1>11, <1>12 DEF n

(* Bytes are read where their bits are. *)
BytesIn(at, bytes) ==
  \A k \in 1 .. Len(bytes) :
    at + k * ByteBits <= TotalBits => Value(BitAt, at + (k - 1) * ByteBits, ByteBits) = bytes[k]

LEMMA BytesRead ==
  ASSUME BufferTyped, NEW at \in Nat, NEW bytes \in Seq(0 .. Byte - 1),
         BitsAt(at, BitsOfBytes(bytes))
  PROVE  BytesIn(at, bytes)
<1>1. bytes \in Seq(Nat) /\ Len(bytes) \in Nat /\ \A k \in 1 .. Len(bytes) : bytes[k] \in 0 .. Byte - 1
  <2>1. 0 .. Byte - 1 \subseteq Nat
    OBVIOUS
  <2>2. bytes \in Seq(Nat)
    BY <2>1, SeqMonotonic
  <2> DEFINE V == 0 .. Byte - 1
  <2>3. Len(bytes) \in Nat /\ \A k \in 1 .. Len(bytes) : bytes[k] \in V
    <3>1. bytes \in Seq(V)
      OBVIOUS
    <3> HIDE DEF V
    <3> QED BY <3>1
  <2> QED BY <2>2, <2>3
<1> SUFFICES ASSUME NEW k \in 1 .. Len(bytes), at + k * ByteBits <= TotalBits
             PROVE  Value(BitAt, at + (k - 1) * ByteBits, ByteBits) = bytes[k]
  BY DEF BytesIn
<1> DEFINE n == bytes[k]
           before == (k - 1) * ByteBits
           from == at + before
           s == BitsOf(n, ByteBits)
<1>2. /\ n \in Nat /\ n < PowerOf2[ByteBits] /\ ByteBits \in 0 .. WordBits /\ ByteBits \in Nat
      /\ TotalBits \in Nat /\ before \in Nat /\ k * ByteBits = before + ByteBits
  <2>1. n \in 0 .. Byte - 1 /\ PowerOf2[ByteBits] \in Nat
    BY <1>1, ByteIs
  <2>2. n \in Nat /\ n < PowerOf2[ByteBits]
    BY <2>1 DEF Byte
  <2>3. k \in Nat /\ k - 1 \in Nat /\ ByteBits \in Nat
    BY <1>1, ByteIs
  <2>4. before \in Nat
    BY <2>3, ProductIn
  <2>5. k * ByteBits = (k - 1) * ByteBits + ByteBits
    BY <2>3
  <2> QED BY <2>2, <2>4, <2>5, ByteIs, TotalIs
<1>3. Len(s) = ByteBits
  BY <1>2, BitsAre
<1>4. Len(BitsOfBytes(bytes)) = Len(bytes) * ByteBits
      /\ \A i \in 1 .. ByteBits : BitsOfBytes(bytes)[before + i] = s[i]
  BY <1>1, BitsOfBytesAre
<1>5. before + ByteBits <= Len(bytes) * ByteBits
  <2>1. k <= Len(bytes) /\ k \in Nat
    BY <1>1
  <2>2. k * ByteBits <= Len(bytes) * ByteBits
    <3> DEFINE count == Len(bytes)
    <3>1. k \in Int /\ count \in Int /\ k <= count /\ ByteBits \in Nat
      BY <1>1, <1>2, <2>1
    <3> HIDE DEF count
    <3>2. k * ByteBits <= count * ByteBits
      BY <3>1, ProductOrder
    <3> QED BY <3>2 DEF count
  <2> QED BY <1>2, <2>2
<1> HIDE DEF n, before, s
<1>6. ASSUME NEW i \in 1 .. ByteBits, from + i <= TotalBits PROVE BitAt[from + i - 1] = s[i]
  <2>1. before + i \in 1 .. Len(BitsOfBytes(bytes)) /\ at + (before + i) <= TotalBits
        /\ at + (before + i) - 1 = from + i - 1
    BY <1>1, <1>2, <1>4, <1>5, <1>6
  <2>2. BitAt[at + (before + i) - 1] = BitsOfBytes(bytes)[before + i]
    BY <2>1 DEF BitsAt
  <2> QED BY <1>4, <2>1, <2>2
<1>7. BitsAt(from, s)
  BY <1>3, <1>6 DEF BitsAt
<1>8. from \in Nat /\ from + ByteBits <= TotalBits
  BY <1>2
<1> HIDE DEF from
<1>9. Value(BitAt, from, ByteBits) = n
  BY <1>2, <1>7, <1>8, NumberRead DEF s
<1> QED BY <1>9 DEF n, from, before

----------------------------------------------------------------------------
(* The messages of a packet.                                               *)

FormOf(n) == Min(Forms(n))
MoreOf(n) == UBitVarMore[FormOf(n)]

LEMMA FormIs ==
  ASSUME NEW n \in Nat, Forms(n) # {}
  PROVE  /\ FormOf(n) \in 0 .. 3 /\ n < PowerOf2[LowBits + MoreOf(n)]
         /\ LowBits \in Nat /\ LowBits \in 0 .. WordBits /\ UBitVarBits = LowBits + 2
         /\ UBitVarBits \in Nat /\ UBitVarBits <= WordBits
         /\ MoreOf(n) \in Nat /\ MoreOf(n) \in 0 .. WordBits /\ MoreOf(n) <= WordBits
         /\ LowBits + MoreOf(n) \in 0 .. WordBits
<1>1. Forms(n) \subseteq Nat /\ Forms(n) \subseteq 0 .. 3
  BY DEF Forms
<1>2. FormOf(n) \in Forms(n)
  BY <1>1, MinIsLeast DEF FormOf
<1>3. FormOf(n) \in 0 .. 3 /\ n < PowerOf2[LowBits + MoreOf(n)]
  BY <1>2 DEF Forms, MoreOf
<1>4. MoreOf(n) \in 0 .. WordBits /\ UBitVarBits \in 2 .. WordBits
  BY <1>3, OperandAssumption DEF MoreOf
<1>5. UBitVarBits - 2 + MoreOf(n) <= HalfBits
  BY <1>3, TypeAssumption DEF MoreOf
<1> QED BY <1>3, <1>4, <1>5, WordIs DEF LowBits

(* Two pieces, one behind the other. *)
Joins(ab, a, b) ==
  /\ Len(a) \in Nat /\ Len(b) \in Nat /\ Len(ab) = Len(a) + Len(b)
  /\ \A i \in 1 .. Len(a) : ab[i] = a[i]
  /\ \A i \in 1 .. Len(b) : ab[Len(a) + i] = b[i]

LEMMA TwoPieces ==
  ASSUME NEW V, NEW a \in Seq(V), NEW b \in Seq(V), NEW ab, ab = a \o b
  PROVE  ab \in Seq(V) /\ Joins(ab, a, b)
BY DEF Joins

LEMMA TwoBits ==
  ASSUME NEW n \in Nat
  PROVE  BitsOf(n, 2)[1] = n % 2 /\ BitsOf(n, 2)[2] = (n \div 2) % 2
<1> DEFINE two == 2
           q == Quotients(n, two, two)
           b == Digits(n, two, two)
<1>1. two \in Nat /\ two \in Nat \ {0} /\ 1 \in 1 .. two /\ two \in 1 .. two
      /\ 1 - 1 = 0 /\ two - 1 = 1
  OBVIOUS
<1> HIDE DEF two
<1>2. q[0] = n /\ \A k \in 1 .. two : q[k] = q[k - 1] \div two
  BY <1>1, QuotientsAre
<1>3. \A k \in 1 .. two : b[k] = q[k - 1] % two
  BY <1>1, DigitsAre
<1>4. BitsOf(n, two) = b
  BY DEF BitsOf, two
<1> HIDE DEF q, b
<1>5. BitsOf(n, two)[1] = n % two /\ BitsOf(n, two)[two] = (n \div two) % two
  BY <1>1, <1>2, <1>3, <1>4
<1> QED BY <1>5 DEF two

(* A number in its form: the low bits, the form, and the other bits. *)
LEMMA UBitVarBitsAre ==
  ASSUME NEW n \in Nat, Forms(n) # {}
  PROVE  /\ UBitVarBitsOf(n) \in Seq(Bits) /\ Len(UBitVarBitsOf(n)) = UBitVarBits + MoreOf(n)
         /\ \A i \in 1 .. LowBits : UBitVarBitsOf(n)[i] = BitsOf(n, LowBits + MoreOf(n))[i]
         /\ UBitVarBitsOf(n)[LowBits + 1] = FormOf(n) % 2
         /\ UBitVarBitsOf(n)[LowBits + 2] = (FormOf(n) \div 2) % 2
         /\ \A i \in 1 .. MoreOf(n) :
              UBitVarBitsOf(n)[UBitVarBits + i] = BitsOf(n, LowBits + MoreOf(n))[LowBits + i]
<1> DEFINE form == FormOf(n)
           more == MoreOf(n)
           bits == BitsOf(n, LowBits + more)
           a == SubSeq(bits, 1, LowBits)
           b == BitsOf(form, 2)
           c == SubSeq(bits, LowBits + 1, Len(bits))
<1>1. /\ form \in 0 .. 3 /\ LowBits \in Nat /\ UBitVarBits = LowBits + 2 /\ more \in Nat
      /\ form \in Nat /\ LowBits + more \in Nat
  BY FormIs
<1>2. bits \in Seq(Bits) /\ Len(bits) = LowBits + more
  BY <1>1, BitsAre
<1>3. b \in Seq(Bits) /\ Len(b) = 2
  BY <1>1, BitsAre
<1>4. b[1] = form % 2 /\ b[2] = (form \div 2) % 2
  BY <1>1, TwoBits
<1> HIDE DEF form, more, bits
<1>5. /\ a \in Seq(Bits) /\ Len(a) = LowBits
      /\ \A i \in 1 .. LowBits : a[i] = bits[i]
  <2>1. 1 \in Nat /\ LowBits \in Nat /\ \A i \in 1 .. LowBits : bits[i] \in Bits
    BY <1>1, <1>2
  <2> QED BY <1>1, <1>2, <2>1, SubSeqProperties
<1>6. /\ c \in Seq(Bits) /\ Len(c) = more
      /\ \A i \in 1 .. more : c[i] = bits[LowBits + i]
  <2>1. /\ LowBits + 1 \in Nat /\ Len(bits) \in Nat /\ Len(bits) = LowBits + more
        /\ \A i \in LowBits + 1 .. Len(bits) : bits[i] \in Bits
    BY <1>1, <1>2
  <2>2. c \in Seq(Bits)
    BY <1>1, <1>2, <2>1, SubSeqProperties
  <2>3. Len(c) = more
    BY <1>1, <1>2, <2>1
  <2>4. \A i \in 1 .. more : c[i] = bits[LowBits + i]
    <3>1. \A i \in 1 .. Len(bits) - (LowBits + 1) + 1 : c[i] = bits[(LowBits + 1) + i - 1]
      BY <1>1, <1>2, <2>1, SubSeqProperties
    <3>2. Len(bits) - (LowBits + 1) + 1 = more
      BY <1>1, <1>2
    <3>3. \A i \in 1 .. more : (LowBits + 1) + i - 1 = LowBits + i
      BY <1>1
    <3> QED BY <3>1, <3>2, <3>3
  <2> QED BY <2>2, <2>3, <2>4
<1>7. UBitVarBitsOf(n) = (a \o b) \o c
  BY DEF UBitVarBitsOf, FormOf, MoreOf, form, more, bits
<1> HIDE DEF a, b, c
<1> DEFINE ab == a \o b
           u == ab \o c
<1>8. ab \in Seq(Bits) /\ Joins(ab, a, b)
  BY <1>3, <1>5, TwoPieces
<1> HIDE DEF ab
<1>9. u \in Seq(Bits) /\ Joins(u, ab, c)
  BY <1>6, <1>8, TwoPieces
<1>10. UBitVarBitsOf(n) = u
  BY <1>7 DEF ab
<1> HIDE DEF u
<1>11. /\ Len(ab) = LowBits + 2 /\ Len(u) = (LowBits + 2) + more
       /\ \A i \in 1 .. LowBits : ab[i] = a[i]
       /\ ab[LowBits + 1] = b[1] /\ ab[LowBits + 2] = b[2]
       /\ \A i \in 1 .. LowBits + 2 : u[i] = ab[i]
       /\ \A i \in 1 .. more : u[(LowBits + 2) + i] = c[i]
  <2>1. 1 \in 1 .. Len(b) /\ 2 \in 1 .. Len(b)
    BY <1>3
  <2> QED BY <1>3, <1>5, <1>6, <1>8, <1>9, <2>1 DEF Joins
<1>12. \A i \in 1 .. LowBits : u[i] = bits[i]
  <2>1. \A i \in 1 .. LowBits : i \in 1 .. LowBits + 2
    BY <1>1
  <2> QED BY <1>5, <1>11, <2>1
<1>13. u[LowBits + 1] = form % 2 /\ u[LowBits + 2] = (form \div 2) % 2
  <2>1. LowBits + 1 \in 1 .. LowBits + 2 /\ LowBits + 2 \in 1 .. LowBits + 2
    BY <1>1
  <2> QED BY <1>4, <1>11, <2>1
<1>14. \A i \in 1 .. more : u[UBitVarBits + i] = bits[LowBits + i]
  BY <1>1, <1>6, <1>11
<1>15. u \in Seq(Bits) /\ Len(u) = UBitVarBits + more
  BY <1>1, <1>9, <1>11
<1> QED BY <1>10, <1>12, <1>13, <1>14, <1>15 DEF form, more, bits

(* A type is read back, unless it is cut. *)
LEMMA UBitVarRead ==
  ASSUME BufferTyped, NEW n \in Nat, Forms(n) # {}, NEW at \in 0 .. TotalBits,
         BitsAt(at, UBitVarBitsOf(n))
  PROVE  LET end == at + Len(UBitVarBitsOf(n))
         IN  /\ end <= TotalBits => ReadUBitVar(at) = end /\ UBitVar(at) = n
             /\ ~(end <= TotalBits) => ReadUBitVar(at) = Failed
<1> DEFINE form == FormOf(n)
           more == MoreOf(n)
           low == LowBits
           bits == BitsOf(n, low + more)
           u == UBitVarBitsOf(n)
           end == at + Len(u)
<1>1. /\ form \in 0 .. 3 /\ n < PowerOf2[low + more]
      /\ low \in Nat /\ low \in 0 .. WordBits /\ UBitVarBits = low + 2
      /\ UBitVarBits \in Nat /\ UBitVarBits <= WordBits
      /\ more \in Nat /\ more \in 0 .. WordBits /\ more <= WordBits
      /\ low + more \in 0 .. WordBits
  BY FormIs
<1>2. /\ Len(u) = UBitVarBits + more
      /\ \A i \in 1 .. low : u[i] = bits[i]
      /\ u[low + 1] = form % 2 /\ u[low + 2] = (form \div 2) % 2
      /\ \A i \in 1 .. more : u[UBitVarBits + i] = bits[low + i]
  BY UBitVarBitsAre
<1>3. at \in Nat /\ at # Failed /\ TotalBits \in Nat /\ at <= TotalBits
  BY TotalIs DEF Failed
<1>4. \A i \in 1 .. Len(u) : at + i <= TotalBits => BitAt[at + i - 1] = u[i]
  BY DEF BitsAt
<1>5. ASSUME at + UBitVarBits <= TotalBits PROVE UBitVarSelector(at) = form
  <2>1. /\ at + UBitVarBits - 2 = at + low /\ at + UBitVarBits - 1 = at + (low + 1)
        /\ low + 1 \in 1 .. UBitVarBits + more /\ low + 2 \in 1 .. UBitVarBits + more
        /\ at + (low + 1) <= TotalBits /\ at + (low + 2) <= TotalBits
        /\ at + (low + 1) - 1 = at + low /\ at + (low + 2) - 1 = at + (low + 1)
        /\ at + low \in Nat /\ at + low < TotalBits
        /\ at + (low + 1) \in Nat /\ at + (low + 1) < TotalBits
    BY <1>1, <1>3, <1>5
  <2>2. BitAt[at + low] = u[low + 1] /\ BitAt[at + (low + 1)] = u[low + 2]
    <3> HIDE DEF u, low
    <3> QED BY <1>2, <1>4, <2>1
  <2>3. Bit(at + low) = form % 2 /\ Bit(at + (low + 1)) = (form \div 2) % 2
    BY <1>2, <2>1, <2>2 DEF BitAt
  <2>4. UBitVarSelector(at) = (IF Bit(at + low) = 1 THEN 1 ELSE 0) + (IF Bit(at + (low + 1)) = 1 THEN 2 ELSE 0)
    BY <2>1 DEF UBitVarSelector
  <2> HIDE DEF form
  <2>5. form = (IF form % 2 = 1 THEN 1 ELSE 0) + (IF (form \div 2) % 2 = 1 THEN 2 ELSE 0)
    <3>1. form = 0 \/ form = 1 \/ form = 2 \/ form = 3
      BY <1>1
    <3> QED BY <3>1
  <2> QED BY <2>3, <2>4, <2>5
<1>6. ASSUME at + UBitVarBits <= TotalBits
      PROVE  ReadUBitVar(at) = ReadBits(at + UBitVarBits, more) /\ at + UBitVarBits # Failed
  <2>1. ReadBits(at, UBitVarBits) = at + UBitVarBits
    <3>1. UBitVarBits <= TotalBits - at /\ UBitVarBits <= WordBits
      BY <1>1, <1>3, <1>6
    <3>2. Advance(at, UBitVarBits) = at + UBitVarBits
      BY <1>3, <3>1 DEF Advance
    <3> QED BY <3>1, <3>2 DEF ReadBits
  <2>2. at + UBitVarBits # Failed
    BY <1>1, <1>3 DEF Failed
  <2>3. UBitVarMore[UBitVarSelector(at)] = more
    BY <1>5, <1>6 DEF MoreOf
  <2> QED BY <2>1, <2>2, <2>3 DEF ReadUBitVar
<1>7. ASSUME ~(at + UBitVarBits <= TotalBits) PROVE ReadUBitVar(at) = Failed
  <2>1. ReadBits(at, UBitVarBits) = Failed
    BY <1>1, <1>3, <1>7 DEF ReadBits, Advance
  <2> QED BY <2>1 DEF ReadUBitVar
<1>8. end = (at + UBitVarBits) + more
  BY <1>1, <1>2, <1>3
<1>9. ASSUME ~(end <= TotalBits) PROVE ReadUBitVar(at) = Failed
  <2>1. CASE at + UBitVarBits <= TotalBits
    BY <1>1, <1>3, <1>6, <1>8, <1>9, <2>1 DEF ReadBits, Advance
  <2> QED BY <1>7, <2>1
<1>10. ASSUME end <= TotalBits PROVE ReadUBitVar(at) = end /\ UBitVar(at) = n
  <2>1. at + UBitVarBits <= TotalBits /\ at + low <= TotalBits
    BY <1>1, <1>3, <1>8, <1>10
  <2>2. ReadUBitVar(at) = end
    BY <1>1, <1>3, <1>6, <1>8, <1>10, <2>1 DEF ReadBits, Advance
  <2> DEFINE f == Stream(bits)
             rest == at + UBitVarBits
  <2>3. bits \in Seq(Bits) /\ Len(bits) = low + more
    BY <1>1, BitsAre
  <2>4. f \in [Nat -> Nat] /\ f \in [Nat -> Bits] /\ \A i \in 1 .. low + more : f[i - 1] = bits[i]
    BY <2>3, StreamIs
  <2>5. Value(f, 0, low + more) = n
    BY <1>1, NumberOfBits
  <2>6. Splits(f, 0, low, more)
    BY <1>1, <2>4, SplitsAlways
  <2> HIDE DEF f, bits, u, low, more, rest, end
  <2>7. n = Value(f, 0, low) + PowerOf2[low] * Value(f, low, more)
    <3>1. 0 + low = low
      BY <1>1
    <3> QED BY <2>5, <2>6, <3>1 DEF Splits
  <2>8. SameFrom(BitAt, at, f, 0, low)
    <3> SUFFICES ASSUME NEW i \in 1 .. low PROVE BitAt[at + i - 1] = f[0 + i - 1]
      BY DEF SameFrom
    <3>1. i \in 1 .. Len(u) /\ i \in 1 .. low + more /\ at + i <= TotalBits /\ 0 + i - 1 = i - 1
      BY <1>1, <1>2, <1>3, <2>1
    <3>2. BitAt[at + i - 1] = u[i] /\ u[i] = bits[i] /\ f[i - 1] = bits[i]
      BY <1>2, <1>4, <2>4, <3>1
    <3> QED BY <3>1, <3>2
  <2>9. SameFrom(BitAt, rest, f, low, more)
    <3> SUFFICES ASSUME NEW i \in 1 .. more PROVE BitAt[rest + i - 1] = f[low + i - 1]
      BY DEF SameFrom
    <3>1. /\ UBitVarBits + i \in 1 .. Len(u) /\ low + i \in 1 .. low + more
          /\ at + (UBitVarBits + i) <= TotalBits
          /\ at + (UBitVarBits + i) - 1 = rest + i - 1 /\ (low + i) - 1 = low + i - 1
      BY <1>1, <1>2, <1>3, <1>8, <1>10 DEF rest
    <3>2. BitAt[at + (UBitVarBits + i) - 1] = u[UBitVarBits + i]
      BY <1>4, <3>1
    <3>3. u[UBitVarBits + i] = bits[low + i]
      BY <1>2
    <3>4. f[(low + i) - 1] = bits[low + i]
      BY <2>4, <3>1
    <3> QED BY <3>1, <3>2, <3>3, <3>4
  <2>10. Value(BitAt, at, low) = Value(f, 0, low) /\ Value(BitAt, rest, more) = Value(f, low, more)
    BY <1>1, <2>8, <2>9, SameBits
  <2>11. Number(at, low) = Value(BitAt, at, low) /\ Number(rest, more) = Value(BitAt, rest, more)
    <3>1. rest \in Nat /\ rest + more <= TotalBits
      BY <1>1, <1>3, <1>8, <1>10 DEF rest
    <3> QED BY <1>1, <1>3, <2>1, <3>1, NumberIsBits
  <2>12. UBitVar(at) = Number(at, low) + Number(rest, more) * PowerOf2[low]
    <3>1. UBitVarMore[UBitVarSelector(at)] = more
      BY <1>5, <2>1 DEF MoreOf, more
    <3> QED BY <3>1 DEF UBitVar, low, LowBits, rest
  <2> DEFINE p == PowerOf2[low]
             x == Value(f, low, more)
             y == Value(f, 0, low)
  <2>13. p \in Nat /\ x \in Nat /\ y \in Nat
    BY <1>1, <2>4, PowersAre, BitValue
  <2>14. UBitVar(at) = y + x * p /\ n = y + p * x
    BY <2>7, <2>10, <2>11, <2>12
  <2> HIDE DEF p, x, y
  <2>15. x * p = p * x
    BY <2>13
  <2> QED BY <2>2, <2>14, <2>15
<1> QED BY <1>9, <1>10

(* The groups of a u32 are bytes. *)
LEMMA VarintBytes ==
  ASSUME NEW n \in Nat, n < U32
  PROVE  Varint(n) \in Seq(0 .. Byte - 1)
<1> DEFINE count == Varint32Bytes
           rest == Quotients(n, More, count)
           v == Varint(n)
           V == 0 .. Byte - 1
<1>1. v \in Seq(Nat) /\ Len(v) \in 1 .. count
  BY VarintIs
<1>2. count \in Nat \ {0} /\ More \in Nat \ {0} /\ Byte = 2 * More
  BY VarintAssumption, BasesAre
<1>3. rest \in [0 .. count -> Nat]
  BY <1>2, QuotientsAre
<1>4. \E rounds : v = [k \in 1 .. rounds |-> (rest[k - 1] % More) + IF k < rounds THEN More ELSE 0]
  BY DEF Varint
<1> HIDE DEF v, rest
<1>5. ASSUME NEW k \in 1 .. Len(v) PROVE v[k] \in V
  <2>1. k - 1 \in 0 .. count /\ k \in DOMAIN v
    BY <1>1, <1>2
  <2>2. rest[k - 1] \in Nat
    BY <1>3, <2>1
  <2> DEFINE d == rest[k - 1] % More
  <2>3. d \in 0 .. More - 1
    BY <1>2, <2>2, DivisionIs
  <2>4. v[k] = d \/ v[k] = d + More
    <3>1. v[k] = d + 0 \/ v[k] = d + More
      <4> HIDE DEF d
      <4> QED BY <1>4, <2>1 DEF d
    <3> HIDE DEF d
    <3> QED BY <2>3, <3>1
  <2> HIDE DEF d
  <2> QED BY <1>2, <2>3, <2>4
<1>6. v \in Seq(V)
  <2>1. Len(v) \in Nat /\ DOMAIN v = 1 .. Len(v) /\ v = [k \in 1 .. Len(v) |-> v[k]]
    BY <1>1
  <2> HIDE DEF V
  <2> QED BY <1>5, <2>1
<1> QED BY <1>6 DEF v

(* Two rows of bytes, one behind the other. *)
LEMMA BytesInParts ==
  ASSUME BufferTyped, NEW at \in Nat, NEW ab, NEW a, NEW b, Joins(ab, a, b), BytesIn(at, ab)
  PROVE  /\ Len(a) * ByteBits \in Nat
         /\ BytesIn(at, a) /\ BytesIn(at + Len(a) * ByteBits, b)
<1> DEFINE m == Len(a)
           n == Len(b)
           mid == at + m * ByteBits
<1>1. /\ m \in Nat /\ n \in Nat /\ Len(ab) = m + n
      /\ \A i \in 1 .. m : ab[i] = a[i]
      /\ \A i \in 1 .. n : ab[m + i] = b[i]
  BY DEF Joins
<1>2. \A k \in 1 .. Len(ab) :
        at + k * ByteBits <= TotalBits => Value(BitAt, at + (k - 1) * ByteBits, ByteBits) = ab[k]
  BY DEF BytesIn
<1>3. ByteBits \in Nat /\ m * ByteBits \in Nat
  BY <1>1, ByteIs, ProductIn
<1> HIDE DEF m, n
<1>4. ASSUME NEW k \in 1 .. m, at + k * ByteBits <= TotalBits
      PROVE  Value(BitAt, at + (k - 1) * ByteBits, ByteBits) = a[k]
  <2>1. k \in 1 .. Len(ab)
    BY <1>1
  <2> QED BY <1>1, <1>2, <1>4, <2>1
<1>5. ASSUME NEW k \in 1 .. n, mid + k * ByteBits <= TotalBits
      PROVE  Value(BitAt, mid + (k - 1) * ByteBits, ByteBits) = b[k]
  <2> DEFINE j == m + k
  <2>1. j \in 1 .. Len(ab) /\ ab[j] = b[k]
    BY <1>1
  <2>2. at + j * ByteBits = mid + k * ByteBits /\ at + (j - 1) * ByteBits = mid + (k - 1) * ByteBits
    <3>1. k \in Nat
      BY <1>1
    <3>2. (m + k) * ByteBits = m * ByteBits + k * ByteBits
          /\ ((m + k) - 1) * ByteBits = m * ByteBits + (k - 1) * ByteBits
      BY <1>1, <1>3, <3>1, SMTT(30)
    <3> DEFINE x == k * ByteBits
               y == (k - 1) * ByteBits
               z == m * ByteBits
    <3>3. x \in Int /\ y \in Int /\ z \in Nat
      BY <1>3, <3>1
    <3> HIDE DEF x, y, z
    <3>4. at + (z + x) = (at + z) + x /\ at + (z + y) = (at + z) + y
      BY <3>3
    <3> QED BY <3>2, <3>4 DEF x, y, z
  <2> HIDE DEF j, mid
  <2>3. Value(BitAt, at + (j - 1) * ByteBits, ByteBits) = ab[j]
    BY <1>2, <1>5, <2>1, <2>2
  <2> QED BY <2>1, <2>2, <2>3
<1> QED BY <1>3, <1>4, <1>5 DEF BytesIn, m, n

(* A varint is read back, unless it is cut. *)
LEMMA VarintBitsRead ==
  ASSUME BufferTyped, NEW n \in Nat, n < U32, NEW at \in 0 .. TotalBits, BytesIn(at, Varint(n))
  PROVE  LET end == at + Len(Varint(n)) * ByteBits
         IN  /\ end <= TotalBits => ReadVarint(at, Varint32Bytes) = end /\ Varint32(at) = n
             /\ ~(end <= TotalBits) => ReadVarint(at, Varint32Bytes) = Failed
<1> DEFINE v == Varint(n)
           last == Len(v)
           most == Varint32Bytes
           end == at + last * ByteBits
           ends == LastBytes(at, most)
           left == TotalBits - at
<1>1. /\ v \in Seq(Nat) /\ last \in 1 .. most /\ last \in Nat
      /\ \A k \in 1 .. last : v[k] < More <=> k = last
  BY VarintIs
<1>2. /\ at \in Nat /\ at # Failed /\ TotalBits \in Nat /\ left \in Nat
      /\ most \in Nat /\ More \in Nat /\ U32 \in Nat /\ ByteBits \in Nat /\ More = PowerOf2[ByteBits - 1]
  <2>1. TotalBits \in Nat /\ More \in Nat /\ U32 \in Nat /\ ByteBits \in Nat /\ most \in Nat
    BY TotalIs, ByteIs, BasesAre, VarintAssumption
  <2>2. at \in Nat /\ left \in Nat
    BY <2>1
  <2>3. at # Failed
    BY <2>2 DEF Failed
  <2> QED BY <2>1, <2>2, <2>3 DEF More
<1>3. \A k \in 1 .. last : at + k * ByteBits <= TotalBits => Value(BitAt, at + (k - 1) * ByteBits, ByteBits) = v[k]
  BY DEF BytesIn
<1>4. ends = {k \in 1 .. left \div ByteBits : k = most \/ ByteNo(at, k) < More}
  BY <1>2 DEF LastBytes, BytesLeft
<1>5. ReadVarint(at, most) = IF at = Failed \/ ends = {} THEN Failed ELSE at + Min(ends) * ByteBits
  BY DEF ReadVarint, EndOfByte
<1>6. Varint32(at) = Composed([k \in 1 .. Min(ends) |-> ByteNo(at, k) % More], More) % U32
  BY <1>2 DEF Varint32, U32
<1>7. ASSUME NEW k \in Nat, k >= 1
      PROVE  /\ k \in 1 .. left \div ByteBits <=> at + k * ByteBits <= TotalBits
             /\ ByteNo(at, k) = Value(BitAt, at + (k - 1) * ByteBits, ByteBits)
  <2>1. k * ByteBits \in Nat /\ (k - 1) * ByteBits \in Nat /\ left \div ByteBits \in Int
    <3>1. k - 1 \in Nat
      BY <1>7
    <3>2. left \div ByteBits \in Nat
      BY <1>2, BitOffsetIs
    <3> QED BY <1>2, <3>1, <3>2, ProductIn
  <2>2. k <= left \div ByteBits <=> k * ByteBits <= left
    BY <1>2, BytesFit
  <2>3. k * ByteBits <= left <=> at + k * ByteBits <= TotalBits
    <3> DEFINE x == k * ByteBits
    <3>1. x \in Nat
      BY <2>1
    <3> HIDE DEF x
    <3>2. x <= left <=> at + x <= TotalBits
      BY <1>2, <3>1
    <3> QED BY <3>2 DEF x
  <2>4. k \in 1 .. left \div ByteBits <=> k <= left \div ByteBits
    BY <1>7, <2>1
  <2> DEFINE from == at + (k - 1) * ByteBits
  <2>5. from \in Nat
    BY <1>2, <2>1
  <2>6. ByteNo(at, k) = PeekU8(from)
    BY DEF ByteNo
  <2> HIDE DEF from
  <2>7. PeekU8(from) = Value(BitAt, from, ByteBits)
    BY <2>5, PeekU8IsBits
  <2> QED BY <2>2, <2>3, <2>4, <2>6, <2>7 DEF from
<1> HIDE DEF v, last, ends, left, most
<1>8. ASSUME NEW k \in 1 .. last, at + k * ByteBits <= TotalBits
      PROVE  k \in 1 .. left \div ByteBits /\ ByteNo(at, k) = v[k]
  <2>1. k \in Nat /\ k >= 1
    BY <1>1
  <2> QED BY <1>3, <1>7, <1>8, <2>1
<1>9. ASSUME NEW k \in ends PROVE k \in Nat /\ k >= last /\ at + k * ByteBits <= TotalBits
  <2>1. k \in 1 .. left \div ByteBits /\ (k = most \/ ByteNo(at, k) < More)
    BY <1>4
  <2>2. k \in Nat /\ k >= 1
    BY <2>1
  <2>3. at + k * ByteBits <= TotalBits
    BY <1>7, <2>1, <2>2
  <2>4. CASE k < last
    <3>1. k \in 1 .. last /\ k # most /\ k # last
      BY <1>1, <1>2, <2>2, <2>4
    <3>2. ByteNo(at, k) = v[k] /\ ~(v[k] < More)
      BY <1>1, <1>8, <2>3, <3>1
    <3> QED BY <2>1, <3>1, <3>2
  <2> QED BY <1>1, <2>2, <2>3, <2>4
<1>10. ASSUME end <= TotalBits PROVE ReadVarint(at, most) = end /\ Varint32(at) = n
  <2>1. last \in 1 .. last /\ last \in Nat
    BY <1>1
  <2>2. ByteNo(at, last) = v[last] /\ v[last] < More /\ last \in 1 .. left \div ByteBits
    BY <1>1, <1>8, <1>10, <2>1
  <2>3. last \in ends
    BY <1>4, <2>2
  <2>4. \A k \in ends : last <= k
    BY <1>1, <1>9
  <2>5. \A k \in ends : (\A j \in ends : k <= j) => k = last
    BY <1>9, <2>1, <2>3, <2>4
  <2>6. Min(ends) = last
    BY <2>3, <2>4, <2>5, Zenon DEF Min
  <2>7. ReadVarint(at, most) = end
    BY <1>2, <1>5, <2>3, <2>6
  <2> DEFINE digits == [k \in 1 .. last |-> ByteNo(at, k) % More]
  <2>8. Len(digits) = last
    BY <2>1
  <2>9. ASSUME NEW k \in 1 .. last PROVE digits[k] = v[k] % More
    <3>1. k * ByteBits <= last * ByteBits /\ k * ByteBits \in Nat /\ last * ByteBits \in Nat
      <4>1. k \in Int /\ last \in Int /\ k \in Nat /\ k <= last
        BY <2>1
      <4> QED BY <1>2, <2>1, <4>1, ProductOrder, ProductIn
    <3>2. at + k * ByteBits <= TotalBits
      <4> DEFINE x == k * ByteBits
                 y == last * ByteBits
      <4>1. x <= y /\ x \in Nat /\ y \in Nat /\ at + y <= TotalBits
        BY <1>10, <3>1
      <4> HIDE DEF x, y
      <4>2. at + x <= TotalBits
        BY <1>2, <4>1
      <4> QED BY <4>2 DEF x
    <3>3. ByteNo(at, k) = v[k]
      BY <1>8, <3>2
    <3> QED BY <3>3
  <2>10. Varint32(at) = Composed(digits, More) % U32
    BY <1>6, <2>6
  <2> HIDE DEF digits
  <2>11. Composed(digits, More) = n
    BY <2>8, <2>9, VarintIs DEF v, last
  <2>12. n % U32 = n
    BY <1>2
  <2> QED BY <2>7, <2>10, <2>11, <2>12
<1>11. ASSUME ~(end <= TotalBits) PROVE ReadVarint(at, most) = Failed
  <2>1. ASSUME NEW k \in ends PROVE FALSE
    <3>1. k \in Nat /\ last <= k /\ at + k * ByteBits <= TotalBits
      BY <1>9
    <3>2. last * ByteBits <= k * ByteBits /\ k * ByteBits \in Nat /\ last * ByteBits \in Nat
      <4>1. k \in Int /\ last \in Int /\ last \in Nat
        BY <1>1, <3>1
      <4> QED BY <1>2, <3>1, <4>1, ProductOrder, ProductIn
    <3> DEFINE x == k * ByteBits
               y == last * ByteBits
    <3>3. y <= x /\ x \in Nat /\ y \in Nat /\ at + x <= TotalBits /\ ~(at + y <= TotalBits)
      BY <1>11, <3>1, <3>2
    <3> HIDE DEF x, y
    <3> QED BY <1>2, <3>3
  <2>2. ends = {}
    BY <2>1
  <2> QED BY <1>5, <2>2
<1> QED BY <1>10, <1>11 DEF v, last, most

LEMMA BitsInParts ==
  ASSUME BufferTyped, NEW at \in Nat, NEW ab, NEW a, NEW b, Joins(ab, a, b), BitsAt(at, ab)
  PROVE  BitsAt(at, a) /\ BitsAt(at + Len(a), b)
<1> DEFINE m == Len(a)
           n == Len(b)
<1>1. /\ m \in Nat /\ n \in Nat /\ Len(ab) = m + n
      /\ \A i \in 1 .. m : ab[i] = a[i]
      /\ \A i \in 1 .. n : ab[m + i] = b[i]
  BY DEF Joins
<1>2. \A i \in 1 .. Len(ab) : at + i <= TotalBits => BitAt[at + i - 1] = ab[i]
  BY DEF BitsAt
<1> HIDE DEF m, n
<1>3. ASSUME NEW i \in 1 .. m, at + i <= TotalBits PROVE BitAt[at + i - 1] = a[i]
  <2>1. i \in 1 .. Len(ab)
    BY <1>1
  <2> QED BY <1>1, <1>2, <1>3, <2>1
<1>4. ASSUME NEW i \in 1 .. n, at + m + i <= TotalBits PROVE BitAt[at + m + i - 1] = b[i]
  <2>1. m + i \in 1 .. Len(ab) /\ at + (m + i) = at + m + i
    BY <1>1
  <2>2. BitAt[at + (m + i) - 1] = ab[m + i]
    BY <1>2, <1>4, <2>1
  <2> QED BY <1>1, <2>1, <2>2
<1> QED BY <1>3, <1>4 DEF BitsAt, m, n

(* A message: its type, and the bytes of the size and of the payload. *)
Message(m) == m \in RecordedMessages /\ Forms(m.type) # {} /\ Len(m.payload) < U32
SizedPayload(m) == Varint(Len(m.payload)) \o m.payload

LEMMA MessageBitsAre ==
  ASSUME NEW m, Message(m)
  PROVE  /\ m.type \in Nat /\ m.payload \in Seq(0 .. Byte - 1) /\ Len(m.payload) \in Nat
         /\ SizedPayload(m) \in Seq(0 .. Byte - 1)
         /\ Joins(SizedPayload(m), Varint(Len(m.payload)), m.payload)
         /\ MessageBits(m) \in Seq(Bits)
         /\ Joins(MessageBits(m), UBitVarBitsOf(m.type), BitsOfBytes(SizedPayload(m)))
         /\ Len(BitsOfBytes(SizedPayload(m))) = Len(SizedPayload(m)) * ByteBits
<1> DEFINE V == 0 .. Byte - 1
           v == Varint(Len(m.payload))
           p == m.payload
           vp == SizedPayload(m)
           u == UBitVarBitsOf(m.type)
           b == BitsOfBytes(vp)
<1>1. m.type \in Nat /\ p \in Seq(V)
  BY DEF Message, RecordedMessages
<1>2. Len(p) \in Nat
  <2> HIDE DEF V
  <2> QED BY <1>1
<1>3. v \in Seq(V)
  <2>1. Len(p) < U32
    BY DEF Message
  <2> QED BY <1>2, <2>1, VarintBytes
<1>4. vp = v \o p
  BY DEF SizedPayload
<1> HIDE DEF V, v, p, vp
<1>5. vp \in Seq(V) /\ Joins(vp, v, p)
  BY <1>1, <1>3, <1>4, TwoPieces
<1>6. vp \in Seq(Nat)
  <2>1. V \subseteq Nat
    BY DEF V
  <2> QED BY <1>5, <2>1, SeqMonotonic
<1>7. b \in Seq(Bits) /\ Len(b) = Len(vp) * ByteBits
  BY <1>6, BitsOfBytesAre
<1>8. u \in Seq(Bits)
  <2>1. Forms(m.type) # {}
    BY DEF Message
  <2> QED BY <1>1, <2>1, UBitVarBitsAre
<1>9. MessageBits(m) = u \o b
  BY DEF MessageBits, vp, SizedPayload
<1> HIDE DEF u, b
<1>10. MessageBits(m) \in Seq(Bits) /\ Joins(MessageBits(m), u, b)
  BY <1>7, <1>8, <1>9, TwoPieces
<1> QED BY <1>1, <1>2, <1>5, <1>7, <1>10 DEF V, v, p, vp, u, b

(* A payload is what was sent, borrowed or copied. *)
LEMMA PayloadIs ==
  ASSUME BufferTyped, NEW f, f.payload \in Nat, NEW p \in Seq(0 .. Byte - 1),
         f.size = Len(p), f.payload + Len(p) * ByteBits <= TotalBits,
         BytesIn(f.payload, p)
  PROVE  Payload(f) = p
<1> DEFINE at == f.payload
           n == Len(p)
           j == at \div ByteBits
           V == 0 .. Byte - 1
<1>1. n \in Nat /\ p = [k \in 1 .. n |-> p[k]]
  <2>1. p \in Seq(V)
    OBVIOUS
  <2> HIDE DEF V
  <2> QED BY <2>1
<1>0. /\ at \in Nat /\ j \in Nat /\ ByteBits \in Nat \ {0} /\ Len(data) \in Nat
  BY ByteIs, TotalIs, BitOffsetIs
<1>2. at = j * ByteBits + (at % ByteBits) /\ at % ByteBits \in 0 .. ByteBits - 1
  BY BitOffsetIs
<1>7. TotalBits = Len(data) * ByteBits
  BY DEF TotalBits
<1>3. ASSUME NEW k \in 1 .. n PROVE Value(BitAt, at + (k - 1) * ByteBits, ByteBits) = p[k]
  <2>1. k * ByteBits <= n * ByteBits /\ k * ByteBits \in Nat /\ n * ByteBits \in Nat
    <3> HIDE DEF n
    <3>1. k \in Int /\ n \in Int /\ k \in Nat /\ k <= n /\ ByteBits \in Nat
      BY <1>0, <1>1
    <3> QED BY <1>1, <3>1, ProductOrder, ProductIn
  <2>2. at + k * ByteBits <= TotalBits
    <3> DEFINE x == k * ByteBits
               y == n * ByteBits
    <3>1. x <= y /\ x \in Nat /\ y \in Nat /\ at + y <= TotalBits /\ TotalBits \in Nat
      BY <2>1, TotalIs
    <3> HIDE DEF x, y, at
    <3>2. at + x <= TotalBits
      BY <1>0, <3>1
    <3> QED BY <3>2 DEF x
  <2> QED BY <2>2 DEF BytesIn
<1>4. Copied(f) = p
  <2>1. ASSUME NEW k \in 1 .. n PROVE PeekBytes(at, k - 1) = p[k]
    <3>1. k - 1 \in Nat
      BY <1>1
    <3>2. PeekBytes(at, k - 1) = Value(BitAt, at + (k - 1) * ByteBits, ByteBits)
      BY <1>0, <3>1, PeekBytesIsBits
    <3> QED BY <1>3, <3>2
  <2>2. Copied(f) = [k \in 1 .. n |-> PeekBytes(at, k - 1)]
    BY DEF Copied
  <2> HIDE DEF n, at
  <2> QED BY <1>1, <2>1, <2>2
<1>5. CASE at % ByteBits # 0
  BY <1>4, <1>5 DEF Payload
<1>6. CASE at % ByteBits = 0
  <2>1. Payload(f) = SubSeq(data, j + 1, j + n)
    BY <1>6 DEF Payload, Borrowed
  <2>2. at = j * ByteBits
    <3>1. j * ByteBits \in Nat
      BY <1>0, ProductIn
    <3> DEFINE x == j * ByteBits
    <3> HIDE DEF x
    <3> QED BY <1>2, <1>6, <3>1 DEF x
  <2>9. j * ByteBits + n * ByteBits <= Len(data) * ByteBits
    BY <1>7, <2>2
  <2> HIDE DEF j, n, at
  <2>3. j + n <= Len(data)
    <3> DEFINE count == Len(data)
    <3>1. j * ByteBits + n * ByteBits <= count * ByteBits
      BY <2>9
    <3>2. count \in Nat /\ j \in Nat /\ n \in Nat /\ ByteBits \in Nat \ {0}
      BY <1>0, <1>1
    <3> HIDE DEF count
    <3>3. (j + n) * ByteBits = j * ByteBits + n * ByteBits
      BY <3>2
    <3>4. ASSUME count + 1 <= j + n PROVE FALSE
      <4>1. (count + 1) * ByteBits <= (j + n) * ByteBits
        <5>1. count + 1 \in Int /\ j + n \in Int /\ ByteBits \in Nat
          BY <3>2
        <5> QED BY <3>4, <5>1, ProductOrder
      <4>2. (count + 1) * ByteBits = count * ByteBits + ByteBits /\ count * ByteBits \in Nat
        BY <3>2
      <4>3. (j + n) * ByteBits <= count * ByteBits
        BY <3>1, <3>3
      <4>4. (j + n) * ByteBits \in Nat
        <5>1. j + n \in Nat /\ ByteBits \in Nat
          BY <3>2
        <5> QED BY <5>1, ProductIn
      <4> DEFINE x == (j + n) * ByteBits
                 y == count * ByteBits
                 z == (count + 1) * ByteBits
      <4>5. z <= x /\ z = y + ByteBits /\ x <= y /\ x \in Nat /\ y \in Nat
        BY <4>1, <4>2, <4>3, <4>4
      <4> HIDE DEF x, y, z
      <4> QED BY <3>2, <4>5
    <3> QED BY <3>2, <3>4 DEF count
  <2>4. ASSUME NEW k \in 1 .. n PROVE data[(j + 1) + k - 1] = p[k]
    <3> DEFINE l == j + (k - 1)
    <3>1. l \in Nat /\ l < Len(data) /\ l + 1 = (j + 1) + k - 1
      <4> DEFINE count == Len(data)
      <4>1. count \in Nat /\ j \in Nat /\ n \in Nat /\ j + n <= count
        BY <1>0, <1>1, <2>3
      <4>2. k \in Nat /\ 1 <= k /\ k <= n
        BY <4>1
      <4> HIDE DEF count
      <4>3. l \in Nat /\ l < count /\ l + 1 = (j + 1) + k - 1
        BY <4>1, <4>2
      <4> QED BY <4>3 DEF count
    <3>2. l * ByteBits = at + (k - 1) * ByteBits
      <4>1. k - 1 \in Nat
        BY <1>1
      <4> QED BY <1>0, <2>2, <4>1
    <3> HIDE DEF l
    <3>3. ByteAt[l] = Value(BitAt, l * ByteBits, ByteBits)
      BY <3>1, BytesAreBits
    <3>4. ByteAt[l] = data[l + 1]
      BY <3>1 DEF ByteAt
    <3> QED BY <1>3, <3>1, <3>2, <3>3, <3>4
  <2> DEFINE q == SubSeq(data, j + 1, j + n)
  <2>5. q \in Seq(Nat) /\ Len(q) = n /\ \A k \in 1 .. n : q[k] = data[(j + 1) + k - 1]
    <3>1. j + 1 \in Int /\ j + n \in Int /\ (j + n) - (j + 1) + 1 = n
      BY <1>0, <1>1
    <3>2. \A k \in j + 1 .. j + n : data[k] \in Nat
      <4>1. \A k \in 1 .. Len(data) : data[k] \in Nat
        <5> DEFINE W == 0 .. PowerOf2[ByteBits] - 1
        <5>1. data \in Seq(W)
          BY DEF BufferTyped
        <5>2. W \subseteq Nat
          OBVIOUS
        <5> HIDE DEF W
        <5>3. data \in Seq(Nat)
          BY <5>1, <5>2, SeqMonotonic
        <5> QED BY <5>3
      <4>2. \A k \in j + 1 .. j + n : k \in 1 .. Len(data)
        BY <1>0, <1>1, <2>3
      <4> QED BY <4>1, <4>2
    <3>3. /\ q \in Seq(Nat) /\ Len(q) = IF j + 1 <= j + n THEN (j + n) - (j + 1) + 1 ELSE 0
          /\ \A k \in 1 .. (j + n) - (j + 1) + 1 : q[k] = data[(j + 1) + k - 1]
      BY <3>1, <3>2, SubSeqProperties
    <3> HIDE DEF q
    <3>4. j + 1 <= j + n \/ n = 0
      BY <1>0, <1>1
    <3>5. Len(q) = n
      BY <1>1, <3>1, <3>3, <3>4
    <3> QED BY <3>1, <3>3, <3>5
  <2>6. Payload(f) = q
    BY <2>1
  <2> HIDE DEF q
  <2>7. q = [k \in 1 .. n |-> q[k]]
    BY <2>5
  <2>8. \A k \in 1 .. n : q[k] = p[k]
    BY <2>4, <2>5
  <2> QED BY <1>1, <2>6, <2>7, <2>8
<1> QED BY <1>5, <1>6

(* Where the payload of a message at `at` begins. *)
PayloadBit(at, m) == at + Len(UBitVarBitsOf(m.type)) + Len(Varint(Len(m.payload))) * ByteBits
EndBit(at, m) == at + Len(MessageBits(m))
HeaderEnd(at) ==
  IF PayloadAt[SizeAt[at]] = Failed THEN Failed
  ELSE Advance(PayloadAt[SizeAt[at]], BytesAt[SizeAt[at]] * ByteBits)

LEMMA MessageHeaderRead ==
  ASSUME BufferTyped, NEW m, Message(m), NEW at \in 0 .. TotalBits, BitsAt(at, MessageBits(m))
  PROVE  /\ EndBit(at, m) \in Nat
         /\ ~(EndBit(at, m) <= TotalBits) => HeaderEnd(at) = Failed
         /\ EndBit(at, m) <= TotalBits =>
              /\ HeaderEnd(at) = EndBit(at, m) /\ EndBit(at, m) # Failed
              /\ UBitVar(at) = m.type /\ BytesAt[SizeAt[at]] = Len(m.payload)
              /\ PayloadAt[SizeAt[at]] = PayloadBit(at, m) /\ PayloadBit(at, m) \in Nat
              /\ PayloadBit(at, m) + Len(m.payload) * ByteBits <= TotalBits
              /\ BytesIn(PayloadBit(at, m), m.payload)
<1> DEFINE n == Len(m.payload)
           v == Varint(n)
           u == UBitVarBitsOf(m.type)
           vp == SizedPayload(m)
           size == at + Len(u)
           sizes == Len(v) * ByteBits
           payloads == n * ByteBits
           body == size + sizes
           end == EndBit(at, m)
<1>1. /\ m.type \in Nat /\ Forms(m.type) # {} /\ n \in Nat /\ n < U32
      /\ vp \in Seq(0 .. Byte - 1) /\ Joins(vp, v, m.payload)
      /\ Joins(MessageBits(m), u, BitsOfBytes(vp))
      /\ Len(BitsOfBytes(vp)) = Len(vp) * ByteBits
  BY MessageBitsAre DEF Message
<1>2. at \in Nat /\ TotalBits \in Nat /\ at <= TotalBits /\ ByteBits \in Nat
  BY TotalIs, ByteIs
<1>3. BitsAt(at, u) /\ BitsAt(at + Len(u), BitsOfBytes(vp))
  BY <1>1, <1>2, BitsInParts
<1>4. Len(u) \in Nat /\ Len(v) \in Nat /\ Len(vp) = Len(v) + n
      /\ Len(MessageBits(m)) = Len(u) + Len(BitsOfBytes(vp))
  BY <1>1 DEF Joins
<1>5. sizes \in Nat /\ payloads \in Nat /\ Len(vp) * ByteBits = sizes + payloads
  <2> DEFINE x == Len(v)
  <2>1. x \in Nat /\ n \in Nat /\ Len(vp) = x + n
    BY <1>1, <1>4
  <2> HIDE DEF x, n
  <2>2. (x + n) * ByteBits = x * ByteBits + n * ByteBits
    BY <1>2, <2>1
  <2>3. x * ByteBits \in Nat /\ n * ByteBits \in Nat
    BY <1>2, <2>1, ProductIn
  <2> QED BY <2>1, <2>2, <2>3 DEF x
<1>6. end = body + payloads
  <2> DEFINE l == Len(u)
  <2>1. EndBit(at, m) = at + (l + (sizes + payloads))
    BY <1>1, <1>4, <1>5 DEF EndBit
  <2>2. l \in Nat
    BY <1>4
  <2> HIDE DEF l, sizes, payloads
  <2>3. at + (l + (sizes + payloads)) = ((at + l) + sizes) + payloads
    BY <1>2, <1>5, <2>2
  <2> QED BY <2>1, <2>3 DEF l
<1>7. PayloadBit(at, m) = body
  BY DEF PayloadBit
<1>8. /\ size <= TotalBits => ReadUBitVar(at) = size /\ UBitVar(at) = m.type
      /\ ~(size <= TotalBits) => ReadUBitVar(at) = Failed
  BY <1>1, <1>3, UBitVarRead
<1>9. size \in Nat
  BY <1>2, <1>4
<1>20. SizeAt[at] = ReadUBitVar(at)
  <2>1. at \in Cursors
    BY <1>2 DEF Cursors, Failed
  <2> QED BY <2>1 DEF SizeAt
<1> HIDE DEF u, v, vp, n, sizes, payloads, end
<1>10. body \in Nat /\ body + payloads \in Nat
  <2> HIDE DEF size
  <2> QED BY <1>5, <1>9
<1>11. CASE ~(size <= TotalBits)
  <2>1. SizeAt[at] = Failed
    BY <1>8, <1>11, <1>20
  <2>2. PayloadAt[Failed] = Failed
    <3>1. Failed \in Cursors
      BY <1>2 DEF Cursors, Failed
    <3> QED BY <3>1 DEF PayloadAt, ReadVarint
  <2>3. HeaderEnd(at) = Failed
    BY <2>1, <2>2 DEF HeaderEnd
  <2>4. ~(end <= TotalBits)
    <3> HIDE DEF size
    <3> QED BY <1>2, <1>5, <1>6, <1>9, <1>11
  <2> QED BY <1>6, <1>10, <2>3, <2>4 DEF end
<1>12. CASE size <= TotalBits
  <2>1. SizeAt[at] = size /\ UBitVar(at) = m.type
    BY <1>8, <1>12, <1>20
  <2>2. BytesIn(size, vp)
    BY <1>1, <1>3, <1>9, BytesRead DEF u
  <2>3. BytesIn(size, v) /\ BytesIn(body, m.payload)
    <3> HIDE DEF size
    <3> QED BY <1>1, <1>9, <2>2, BytesInParts DEF sizes
  <2>4. size \in 0 .. TotalBits /\ size \in Cursors
    BY <1>2, <1>9, <1>12 DEF Cursors, Failed
  <2> HIDE DEF size
  <2>5. /\ body <= TotalBits => ReadVarint(size, Varint32Bytes) = body /\ Varint32(size) = n
        /\ ~(body <= TotalBits) => ReadVarint(size, Varint32Bytes) = Failed
    BY <1>1, <2>3, <2>4, VarintBitsRead DEF v, sizes
  <2>6. PayloadAt[size] = ReadVarint(size, Varint32Bytes) /\ BytesAt[size] = Varint32(size)
    BY <2>4 DEF PayloadAt, BytesAt
  <2> HIDE DEF body
  <2>7. CASE ~(body <= TotalBits)
    <3>1. HeaderEnd(at) = Failed
      BY <2>1, <2>5, <2>6, <2>7 DEF HeaderEnd
    <3>2. ~(end <= TotalBits)
      BY <1>2, <1>5, <1>6, <1>10, <2>7
    <3> QED BY <1>6, <1>10, <3>1, <3>2 DEF end
  <2>8. CASE body <= TotalBits
    <3>1. PayloadAt[size] = body /\ BytesAt[size] = n
      BY <2>5, <2>6, <2>8
    <3>2. body # Failed /\ end \in Nat /\ end # Failed
      BY <1>6, <1>10 DEF Failed
    <3>3. HeaderEnd(at) = Advance(body, payloads)
      BY <2>1, <3>1, <3>2 DEF HeaderEnd, payloads
    <3>4. payloads <= TotalBits - body <=> end <= TotalBits
      BY <1>2, <1>5, <1>6, <1>10
    <3>5. Advance(body, payloads) = IF end <= TotalBits THEN end ELSE Failed
      BY <1>6, <3>2, <3>4 DEF Advance
    <3> QED BY <1>6, <1>7, <1>10, <2>1, <2>3, <3>1, <3>2, <3>3, <3>5 DEF end, n, payloads
  <2> QED BY <2>7, <2>8
<1> QED BY <1>11, <1>12

MessageIters == [at : Nat, index : Nat, failed : BOOLEAN]

LEMMA MessageEnds ==
  ASSUME NEW it, it.failed \/ Padding(it)
  PROVE  NextMessage(it) = [iter |-> it, item |-> NoMessage]
BY DEF NextMessage

(* The item a client holds of a message. *)
MessageFrame(m, i) ==
  [kind |-> "frame", index |-> i, type |-> m.type, payload |-> m.payload, size |-> Len(m.payload)]

(* A message is read back, unless it is cut or too large. *)
LEMMA MessageRead ==
  ASSUME BufferTyped, NEW m, Message(m), NEW it \in MessageIters, ~it.failed, ~Padding(it),
         it.at <= TotalBits, BitsAt(it.at, MessageBits(m))
  PROVE  LET next == NextMessage(it)
             end == EndBit(it.at, m)
         IN  /\ ~(end <= TotalBits) \/ Len(m.payload) > MaxMessage =>
                  next = [iter |-> [it EXCEPT !.failed = TRUE], item |-> BrokenMessage]
             /\ end <= TotalBits /\ ~(Len(m.payload) > MaxMessage) =>
                  /\ next.iter = [it EXCEPT !.at = end, !.index = @ + 1]
                  /\ next.item.kind = "frame"
                  /\ [next.item EXCEPT !.payload = Payload(next.item)] = MessageFrame(m, it.index)
<1> DEFINE at == it.at
           next == NextMessage(it)
           end == EndBit(at, m)
           size == SizeAt[at]
           payload == PayloadAt[size]
           bytes == BytesAt[size]
           item == [kind |-> "frame", index |-> it.index, type |-> UBitVar(at),
                    payload |-> payload, size |-> bytes]
<1>1. at \in 0 .. TotalBits
  BY TotalIs DEF MessageIters
<1>2. next = IF HeaderEnd(at) = Failed \/ bytes > MaxMessage
             THEN [iter |-> [it EXCEPT !.failed = TRUE], item |-> BrokenMessage]
             ELSE [iter |-> [it EXCEPT !.at = HeaderEnd(at), !.index = @ + 1], item |-> item]
  BY DEF NextMessage, HeaderEnd
<1>3. /\ ~(end <= TotalBits) => HeaderEnd(at) = Failed
      /\ end <= TotalBits =>
           /\ HeaderEnd(at) = end /\ end # Failed
           /\ UBitVar(at) = m.type /\ bytes = Len(m.payload)
           /\ payload = PayloadBit(at, m) /\ PayloadBit(at, m) \in Nat
           /\ PayloadBit(at, m) + Len(m.payload) * ByteBits <= TotalBits
           /\ BytesIn(PayloadBit(at, m), m.payload)
  BY <1>1, MessageHeaderRead
<1>4. m.payload \in Seq(0 .. Byte - 1)
  BY MessageBitsAre
<1> HIDE DEF at, next, end, size, payload, bytes
<1>5. CASE ~(end <= TotalBits)
  BY <1>2, <1>3, <1>5 DEF next, end, at
<1>6. CASE end <= TotalBits /\ Len(m.payload) > MaxMessage
  BY <1>2, <1>3, <1>6 DEF next, end, at
<1>7. CASE end <= TotalBits /\ ~(Len(m.payload) > MaxMessage)
  <2>1. next = [iter |-> [it EXCEPT !.at = end, !.index = @ + 1], item |-> item]
    BY <1>2, <1>3, <1>7
  <2>2. item.payload = PayloadBit(at, m) /\ item.size = Len(m.payload) /\ item.type = m.type /\ item.kind = "frame"
    BY <1>3, <1>7
  <2> DEFINE p == m.payload
  <2>3. /\ item.payload \in Nat /\ item.size = Len(p) /\ p \in Seq(0 .. Byte - 1)
        /\ item.payload + Len(p) * ByteBits <= TotalBits /\ BytesIn(item.payload, p)
    <3> HIDE DEF item
    <3> QED BY <1>3, <1>4, <1>7, <2>2
  <2>4. item.index = it.index /\ item = [kind |-> "frame", index |-> it.index, type |-> m.type,
                                       payload |-> PayloadBit(at, m), size |-> Len(m.payload)]
    BY <1>3, <1>7
  <2> HIDE DEF item, p
  <2>5. Payload(item) = p
    BY <2>3, PayloadIs
  <2>6. [item EXCEPT !.payload = Payload(item)] = MessageFrame(m, it.index)
    <3> DEFINE q == Payload(item)
    <3>1. q = m.payload
      BY <2>5 DEF p
    <3> HIDE DEF q
    <3>2. [item EXCEPT !.payload = q] = MessageFrame(m, it.index)
      BY <2>4, <3>1 DEF MessageFrame
    <3> QED BY <3>2 DEF q
  <2>7. next.iter = [it EXCEPT !.at = end, !.index = @ + 1] /\ next.item = item
    BY <2>1
  <2> HIDE DEF next
  <2>8. next.item.kind = "frame"
    BY <2>2, <2>7
  <2> QED BY <1>7, <2>6, <2>7, <2>8 DEF next, end, at
<1> QED BY <1>5, <1>6, <1>7 DEF end, at

(* The messages of a packet, one behind the other. *)
Follow(sent, bits) ==
  /\ bits \in Seq(Bits) /\ StartBit(sent, 1) = 0 /\ StartBit(sent, Len(sent) + 1) = Len(bits)
  /\ \A i \in 1 .. Len(sent) + 1 : StartBit(sent, i) \in Nat
  /\ \A i \in 1 .. Len(sent) :
       /\ Message(sent[i]) /\ Len(MessageBits(sent[i])) \in Nat
       /\ StartBit(sent, i + 1) = StartBit(sent, i) + Len(MessageBits(sent[i]))
       /\ StartBit(sent, i + 1) <= Len(bits)
       /\ \A j \in 1 .. Len(MessageBits(sent[i])) :
            bits[StartBit(sent, i) + j] = MessageBits(sent[i])[j]

LEMMA MessagesFollow ==
  ASSUME NEW sent, Sendable(sent)
  PROVE  Follow(sent, PacketBits(sent)[Len(sent)])
<1> DEFINE pieces == [i \in DOMAIN sent |-> MessageBits(sent[i])]
           J == Joined(pieces)
           n == Len(sent)
           bits == J[n]
           start(i) == StartBit(sent, i)
<1>1. n \in Nat /\ DOMAIN sent = 1 .. n /\ \A i \in 1 .. n : sent[i] \in RecordedMessages
  BY DEF Sendable
<1>2. ASSUME NEW i \in 1 .. n
      PROVE  Message(sent[i]) /\ pieces[i] = MessageBits(sent[i]) /\ pieces[i] \in Seq(Bits)
  <2>1. Message(sent[i])
    BY <1>1 DEF Sendable, Message
  <2> QED BY <1>1, <2>1, MessageBitsAre
<1>3. Len(pieces) = n /\ Bits \subseteq Nat
  BY <1>1 DEF Bits
<1>4. \A i : start(i) = Len(J[i - 1])
  BY DEF StartBit, PacketBits
<1>5. PacketBits(sent)[n] = bits
  BY DEF PacketBits
<1> HIDE DEF pieces, start, n
<1>6. Pieces(pieces) /\ \A k \in 0 .. n : J[k] \in Seq(Bits)
  <2>1. PiecesOf(pieces, Bits)
    BY <1>1, <1>2, <1>3 DEF PiecesOf
  <2> QED BY <1>3, <2>1, JoinedIn
<1>7. J[0] = <<>>
  BY <1>6, JoinedIs
<1>8. ASSUME NEW i \in 1 .. n
      PROVE  /\ Len(J[i - 1]) \in Nat /\ Len(pieces[i]) \in Nat
             /\ Len(J[i]) = Len(J[i - 1]) + Len(pieces[i])
             /\ Len(J[i]) <= Len(J[n])
             /\ \A j \in 1 .. Len(pieces[i]) : J[n][Len(J[i - 1]) + j] = pieces[i][j]
  <2>1. i \in 1 .. Len(pieces) /\ n \in i .. Len(pieces)
    BY <1>1, <1>3
  <2> QED BY <1>6, <2>1, PieceKept
<1> HIDE DEF J
<1>9. bits \in Seq(Bits)
  <2>1. n \in 0 .. n
    BY <1>1
  <2> QED BY <1>6, <2>1
<1>10. start(1) = 0
  <2>1. start(1) = Len(J[1 - 1])
    BY <1>4
  <2>2. 1 - 1 = 0 /\ Len(<<>>) = 0
    OBVIOUS
  <2> QED BY <1>7, <2>1, <2>2
<1>11. start(n + 1) = Len(bits)
  <2>1. start(n + 1) = Len(J[(n + 1) - 1])
    BY <1>4
  <2>2. (n + 1) - 1 = n
    BY <1>1
  <2> QED BY <2>1, <2>2
<1>12. ASSUME NEW i \in 1 .. n + 1 PROVE start(i) \in Nat
  <2>1. i - 1 \in 0 .. n
    BY <1>1
  <2>2. J[i - 1] \in Seq(Bits)
    BY <1>6, <2>1
  <2>3. Len(J[i - 1]) \in Nat
    BY <2>2
  <2> QED BY <1>4, <2>3
<1>13. ASSUME NEW i \in 1 .. n
       PROVE  /\ Message(sent[i]) /\ Len(MessageBits(sent[i])) \in Nat
              /\ start(i + 1) = start(i) + Len(MessageBits(sent[i]))
              /\ start(i + 1) <= Len(bits)
              /\ \A j \in 1 .. Len(MessageBits(sent[i])) :
                   bits[start(i) + j] = MessageBits(sent[i])[j]
  <2>1. start(i + 1) = Len(J[i]) /\ start(i) = Len(J[i - 1])
    <3>1. start(i + 1) = Len(J[(i + 1) - 1]) /\ (i + 1) - 1 = i
      BY <1>1, <1>4
    <3> QED BY <1>4, <3>1
  <2> QED BY <1>2, <1>8, <2>1
<1> HIDE DEF bits
<1>14. Follow(sent, bits)
  BY <1>9, <1>10, <1>11, <1>12, <1>13 DEF Follow, n, start
<1> QED BY <1>5, <1>14 DEF n

(* A packet is the bits of its messages, filled up to whole bytes. *)
LEMMA PacketIs ==
  ASSUME NEW sent, Sendable(sent)
  PROVE  LET bits == PacketBits(sent)[Len(sent)]
         IN  /\ Packet(sent) \in Seq(0 .. Byte - 1) /\ Len(bits) \in Nat
             /\ Len(Packet(sent)) * ByteBits < Len(bits) + ByteBits
             /\ \A k \in 1 .. Len(Packet(sent)) :
                  Packet(sent)[k] = Value(Stream(bits), (k - 1) * ByteBits, ByteBits)
<1> DEFINE bits == PacketBits(sent)[Len(sent)]
           f == Stream(bits)
           V == 0 .. Byte - 1
           length == (Len(bits) + ByteBits - 1) \div ByteBits
           bit(i) == IF i <= Len(bits) THEN bits[i] ELSE 0
           byte(k) == [i \in 1 .. ByteBits |-> bit((k - 1) * ByteBits + i)]
           p == Packet(sent)
<1>1. p = [k \in 1 .. length |-> Composed(byte(k), 2)]
  BY DEF Packet
<1>2. bits \in Seq(Bits)
  BY MessagesFollow DEF Follow
<1>3. ByteBits \in Nat \ {0} /\ ByteBits \in 0 .. WordBits
  BY ByteIs
<1> HIDE DEF bits
<1>4. Len(bits) \in Nat /\ f \in [Nat -> Bits]
  BY <1>2, StreamIs
<1>5. length \in Nat /\ length * ByteBits < Len(bits) + ByteBits
  <2> DEFINE x == Len(bits) + ByteBits - 1
  <2>1. x \in Nat /\ x < Len(bits) + ByteBits
    BY <1>3, <1>4
  <2>2. Len(bits) + ByteBits \in Nat
    BY <1>3, <1>4
  <2> HIDE DEF x
  <2>3. x \div ByteBits \in Nat /\ (x \div ByteBits) * ByteBits <= x
    <3>1. /\ x \div ByteBits \in Nat /\ x % ByteBits \in 0 .. ByteBits - 1
          /\ (x \div ByteBits) * ByteBits \in Nat
          /\ x = (x \div ByteBits) * ByteBits + (x % ByteBits)
      BY <2>1, BitOffsetIs
    <3> DEFINE a == (x \div ByteBits) * ByteBits
               b == x % ByteBits
    <3>2. a \in Nat /\ b \in Nat /\ x = a + b
      BY <3>1
    <3> HIDE DEF a, b
    <3>3. a <= x
      BY <3>2
    <3> QED BY <3>1, <3>3 DEF a
  <2>4. (x \div ByteBits) * ByteBits \in Nat
    BY <1>3, <2>3, ProductIn
  <2> DEFINE y == (x \div ByteBits) * ByteBits
             z == Len(bits) + ByteBits
  <2>5. y \in Nat /\ y <= x /\ x < z /\ z \in Nat
    BY <2>1, <2>2, <2>3, <2>4
  <2>6. length = x \div ByteBits
    BY DEF x
  <2> HIDE DEF length, y, z
  <2>7. y < z
    BY <2>1, <2>5
  <2> QED BY <2>3, <2>6, <2>7 DEF y, z
<1> HIDE DEF length
<1>6. ASSUME NEW k \in 1 .. length
      PROVE  Composed(byte(k), 2) = Value(f, (k - 1) * ByteBits, ByteBits)
  <2> DEFINE from == (k - 1) * ByteBits
             d == [i \in 1 .. ByteBits |-> f[from + i - 1]]
  <2>1. from \in Nat
    <3>1. k - 1 \in Nat /\ ByteBits \in Nat
      BY <1>3, <1>5
    <3> QED BY <3>1, ProductIn
  <2> HIDE DEF from
  <2>2. ASSUME NEW i \in 1 .. ByteBits PROVE bit(from + i) = f[from + i - 1]
    <3> DEFINE l == from + i - 1
    <3>1. l \in Nat /\ l + 1 = from + i /\ (from + i <= Len(bits) <=> l < Len(bits))
      BY <1>3, <1>4, <2>1
    <3> HIDE DEF l
    <3>2. f[l] = IF l < Len(bits) THEN bits[l + 1] ELSE 0
      BY <3>1 DEF Stream
    <3>3. bit(from + i) = IF from + i <= Len(bits) THEN bits[from + i] ELSE 0
      OBVIOUS
    <3> HIDE DEF bit, f
    <3>4. bit(from + i) = f[l]
      BY <3>1, <3>2, <3>3
    <3> QED BY <3>4 DEF l
  <2>3. byte(k) = [i \in 1 .. ByteBits |-> bit(from + i)]
    BY DEF from
  <2>4. d = [i \in 1 .. ByteBits |-> f[from + i - 1]]
    OBVIOUS
  <2> HIDE DEF bit, byte, d
  <2>5. byte(k) = d
    BY <2>2, <2>3, <2>4
  <2>6. Value(f, from, ByteBits) = Composed(d, 2)
    BY DEF Value, ValueIn, d
  <2> HIDE DEF f
  <2> QED BY <2>5, <2>6 DEF from
<1>7. ASSUME NEW k \in 1 .. length
      PROVE  p[k] = Value(f, (k - 1) * ByteBits, ByteBits) /\ p[k] \in V
  <2>1. (k - 1) * ByteBits \in Nat
    <3>1. k - 1 \in Nat /\ ByteBits \in Nat
      BY <1>3, <1>5
    <3> QED BY <3>1, ProductIn
  <2>2. p[k] = Composed(byte(k), 2)
    <3> HIDE DEF byte, p
    <3> QED BY <1>1
  <2> HIDE DEF f, byte, p
  <2>3. Value(f, (k - 1) * ByteBits, ByteBits) \in 0 .. PowerOf2[ByteBits] - 1
    BY <1>3, <1>4, <2>1, ValueBelow
  <2> QED BY <1>6, <2>2, <2>3 DEF Byte
<1> HIDE DEF f, byte, p, V
<1>8. p \in Seq(V) /\ Len(p) = length
  <2>1. p = [k \in 1 .. length |-> p[k]]
    BY <1>1
  <2> QED BY <1>5, <1>7, <2>1
<1> QED BY <1>4, <1>5, <1>7, <1>8 DEF f, p, V, bits

(* A packet in the buffer, without its last bytes: the messages are in it  *)
(* as far as it goes, and less than a byte is behind the last.             *)
Packed(sent) ==
  /\ BufferTyped /\ Follow(sent, PacketBits(sent)[Len(sent)])
  /\ \A i \in 1 .. Len(sent) : BitsAt(StartBit(sent, i), MessageBits(sent[i]))
  /\ TotalBits < StartBit(sent, Len(sent) + 1) + ByteBits

LEMMA BodyIs ==
  ASSUME NEW c, Writable(c), data = Body(c)
  PROVE  Packed(c.messages)
<1> DEFINE sent == c.messages
           bits == PacketBits(sent)[Len(sent)]
           f == Stream(bits)
           V == 0 .. Byte - 1
           p == Packet(sent)
           start(i) == StartBit(sent, i)
           count == Len(p) - c.drop
<1>1. Sendable(sent) /\ c.drop \in Nat /\ c.drop <= Len(p)
  BY DEF Writable, RecordedCommands
<1>2. Follow(sent, bits)
  BY <1>1, MessagesFollow
<1>3. /\ p \in Seq(V) /\ Len(bits) \in Nat
      /\ Len(p) * ByteBits < Len(bits) + ByteBits
      /\ \A k \in 1 .. Len(p) : p[k] = Value(f, (k - 1) * ByteBits, ByteBits)
  BY <1>1, PacketIs
<1>4. f \in [Nat -> Bits] /\ f \in [Nat -> Nat] /\ \A i \in 1 .. Len(bits) : f[i - 1] = bits[i]
  <2>1. bits \in Seq(Bits)
    BY <1>2 DEF Follow
  <2> HIDE DEF bits
  <2> QED BY <2>1, StreamIs
<1>5. data = SubSeq(p, 1, count)
  BY DEF Body
<1> HIDE DEF p, f, V, bits, sent
<1>6. Len(p) \in Nat /\ count \in Nat /\ count <= Len(p) /\ \A k \in 1 .. Len(p) : p[k] \in V
  BY <1>1, <1>3
<1>7. data \in Seq(V) /\ Len(data) = count /\ \A k \in 1 .. count : data[k] = p[k]
  <2> HIDE DEF count
  <2>1. 1 \in Int /\ count \in Int /\ \A k \in 1 .. count : p[k] \in V
    BY <1>6
  <2>2. /\ data \in Seq(V) /\ Len(data) = IF 1 <= count THEN count - 1 + 1 ELSE 0
        /\ \A k \in 1 .. count - 1 + 1 : data[k] = p[1 + k - 1]
    BY <1>5, <2>1, SubSeqProperties
  <2>3. Len(data) = count
    BY <1>6, <2>2
  <2>4. \A k \in 1 .. count : data[k] = p[k]
    <3>1. count - 1 + 1 = count /\ \A k \in 1 .. count : 1 + k - 1 = k
      BY <1>6
    <3> QED BY <2>2, <3>1
  <2> QED BY <2>2, <2>3, <2>4
<1>8. BufferTyped
  BY <1>7 DEF BufferTyped, V, Byte
<1>9. ByteBits \in Nat /\ ByteBits \in 0 .. WordBits /\ TotalBits \in Nat /\ TotalBits = count * ByteBits
  BY <1>7, <1>8, ByteIs, TotalIs DEF TotalBits
<1>10. TotalBits < Len(bits) + ByteBits
  <2> DEFINE l == Len(p)
             x == l * ByteBits
             y == Len(bits) + ByteBits
  <2>1. count \in Int /\ l \in Int /\ l \in Nat /\ count <= l
    BY <1>6
  <2>2. x < y /\ y \in Nat
    BY <1>3, <1>9
  <2> HIDE DEF l, count, y
  <2>3. count * ByteBits <= x /\ x \in Nat
    BY <1>9, <2>1, ProductOrder, ProductIn
  <2> HIDE DEF x
  <2> QED BY <1>9, <2>2, <2>3 DEF y
<1>11. ASSUME NEW i \in Nat, i < TotalBits PROVE BitAt[i] = f[i]
  <2> DEFINE k == i \div ByteBits
             j == i % ByteBits
             from == k * ByteBits
  <2>1. k \in Nat /\ j \in 0 .. ByteBits - 1 /\ from \in Nat /\ i = from + j
    BY BitOffsetIs
  <2> HIDE DEF k, j
  <2>2. k < count
    <3>1. ASSUME count <= k PROVE FALSE
      <4>1. count * ByteBits <= k * ByteBits
        BY <1>6, <1>9, <2>1, <3>1, ProductOrder
      <4>2. TotalBits <= from
        BY <1>9, <4>1
      <4> HIDE DEF from
      <4> QED BY <1>9, <1>11, <2>1, <4>2
    <3> QED BY <1>6, <2>1, <3>1
  <2>3. ByteAt[k] = Value(f, from, ByteBits)
    <3>1. k + 1 \in 1 .. count /\ k + 1 \in 1 .. Len(p) /\ (k + 1) - 1 = k /\ k < Len(data)
      BY <1>6, <1>7, <2>1, <2>2
    <3>2. ByteAt[k] = data[k + 1]
      BY <2>1, <3>1 DEF ByteAt
    <3>3. data[k + 1] = p[k + 1]
      BY <1>7, <3>1
    <3>4. p[k + 1] = Value(f, ((k + 1) - 1) * ByteBits, ByteBits)
      BY <1>3, <3>1
    <3> QED BY <3>1, <3>2, <3>3, <3>4
  <2>4. BitAt[from + j] = (ByteAt[k] \div PowerOf2[j]) % 2
    BY <1>8, <2>1, BitOfByte
  <2> HIDE DEF from
  <2>5. j \in 0 .. WordBits /\ 1 \in 0 .. WordBits /\ j + 1 <= ByteBits /\ from + j \in Nat /\ j \in Nat
    BY <1>9, <2>1, ByteIs
  <2>6. Cut(Value(f, from, ByteBits), j, 1) = Value(f, from + j, 1)
    <3> DEFINE one == 1
               all == ByteBits
    <3>1. /\ f \in [Nat -> Bits] /\ from \in Nat /\ j \in 0 .. WordBits /\ one \in 0 .. WordBits
          /\ all \in Nat /\ j + one <= all
      BY <1>4, <1>9, <2>1, <2>5
    <3> HIDE DEF one, all
    <3>2. Cut(Value(f, from, all), j, one) = Value(f, from + j, one)
      BY <3>1, ValueCut
    <3> QED BY <3>2 DEF one, all
  <2>7. PowerOf2[1] = 2
    <3>1. 0 \in 0 .. WordBits - 1 /\ 0 + 1 = 1
      BY <2>5, ByteIs
    <3>2. PowerOf2[0 + 1] = 2 * PowerOf2[0] /\ PowerOf2[0] = 1
      BY <3>1, PowersAre
    <3> QED BY <3>1, <3>2
  <2>8. BitAt[i] = Value(f, i, 1)
    BY <2>1, <2>3, <2>4, <2>6, <2>7 DEF Cut
  <2>9. Value(f, i, 1) = f[i]
    <3>1. i + 1 \in Nat /\ 0 \in Nat
      OBVIOUS
    <3>2. Value(f, i, 0 + 1) = f[i] + 2 * Value(f, i + 1, 0)
      BY <1>4, <3>1, BitValue
    <3>3. Value(f, i + 1, 0) = 0
      BY <1>4, <3>1, BitValue
    <3>4. f[i] \in Nat
      BY <1>4
    <3> QED BY <3>2, <3>3, <3>4
  <2> QED BY <2>8, <2>9
<1>12. ASSUME NEW i \in 1 .. Len(sent) PROVE BitsAt(start(i), MessageBits(sent[i]))
  <2> DEFINE s == MessageBits(sent[i])
             at == start(i)
  <2>1. /\ at \in Nat /\ Len(s) \in Nat /\ at + Len(s) <= Len(bits)
        /\ \A j \in 1 .. Len(s) : bits[at + j] = s[j]
    <3>1. Len(sent) \in Nat
      BY <1>1 DEF Sendable
    <3>2. i \in 1 .. Len(sent) + 1
      BY <3>1
    <3> QED BY <1>2, <3>2 DEF Follow
  <2> HIDE DEF s, at
  <2>2. ASSUME NEW j \in 1 .. Len(s), at + j <= TotalBits PROVE BitAt[at + j - 1] = s[j]
    <3> DEFINE l == at + j
    <3>1. l \in 1 .. Len(bits) /\ l - 1 \in Nat /\ l - 1 < TotalBits
      BY <1>3, <1>9, <2>1, <2>2
    <3> HIDE DEF l
    <3>2. BitAt[l - 1] = f[l - 1] /\ f[l - 1] = bits[l]
      BY <1>4, <1>11, <3>1
    <3> QED BY <2>1, <3>2 DEF l
  <2>3. BitsAt(at, s)
    BY <2>2 DEF BitsAt
  <2> QED BY <2>3 DEF at, s
<1>13. TotalBits < start(Len(sent) + 1) + ByteBits
  BY <1>2, <1>10 DEF Follow
<1> HIDE DEF start
<1> QED BY <1>2, <1>8, <1>12, <1>13 DEF Packed, start, bits, sent

----------------------------------------------------------------------------
(* What is decoded of a command is what was recorded in it.                *)

LEMMA TakenIs ==
  ASSUME file \in Seq(Nat), NEW at \in Nat, NEW s \in Seq(Nat), at + Len(s) <= FileLen,
         WrittenAt(at, s)
  PROVE  Taken(at, Len(s)) = s
<1> DEFINE size == Len(s)
           t == SubSeq(file, at + 1, at + size)
<1>1. size \in Nat /\ FileLen \in Nat /\ FileLen = Len(file) /\ at + size <= FileLen
  BY FileLenIs DEF FileLen
<1>2. s = [i \in 1 .. size |-> s[i]]
  OBVIOUS
<1> HIDE DEF size
<1>3. \A i \in 1 .. size : file[at + i] = s[i]
  BY <1>1 DEF WrittenAt, size
<1>4. t = [i \in 1 .. size |-> file[at + i]]
  BY <1>1, SMTT(30)
<1> HIDE DEF t
<1>5. t = s
  BY <1>2, <1>3, <1>4
<1> QED BY <1>5 DEF Taken, t, size

LEMMA BodyRead ==
  ASSUME LaidOut, NEW k, Readable(k), NEW f, f = FrameOf(k, f.index),
         EncodedBody(f) = Stored(recorded[k])
  PROVE  /\ DecodedBody(f) = IF Refused(recorded[k]) THEN Damaged ELSE Body(recorded[k])
         /\ Body(recorded[k]) # Damaged
<1> DEFINE c == recorded[k]
           at == SizeEnd(k)
           v == Varint(Len(Body(c)) + c.lie)
           b == Body(c)
           n == Len(b) + c.lie
<1>1. k \in 1 .. Len(recorded) /\ starts[k + 1] <= FileLen
  BY Recorded DEF Readable, Whole
<1>2. Writable(c) /\ FileLen \in Nat /\ file \in Seq(Nat)
  BY <1>1, Recorded
<1>3. at \in Nat /\ starts[k + 1] = at + Len(Stored(c)) /\ WrittenAt(at, Stored(c))
  BY <1>1, PartsWritten
<1>4. f.header.body = at /\ f.header.size = Len(Stored(c)) /\ f.header.compressed = c.compressed
  <2>1. f.header = HeaderRecorded(k)
    BY DEF FrameOf
  <2> QED BY <2>1 DEF HeaderRecorded
<1>5. b \in Seq(Nat) /\ Len(b) \in Nat /\ c.lie \in Nat /\ c.compressed \in BOOLEAN /\ n < U32
  <2>1. b \in Seq(Nat)
    BY <1>2, StoredTyped
  <2>2. c.lie \in Nat /\ c.compressed \in BOOLEAN /\ n < U32
    BY <1>2 DEF Writable, RecordedCommands
  <2> HIDE DEF b, c
  <2>3. Len(b) \in Nat
    BY <2>1
  <2> QED BY <2>1, <2>2, <2>3
<1>6. MaxDecompressed \in Nat
  BY FramesAssumption
<1>7. b # Damaged
  <2>1. Len(Damaged) = 1 /\ Damaged[1] = -1
    BY DEF Damaged
  <2>2. ASSUME b = Damaged PROVE FALSE
    <3> HIDE DEF b
    <3>0. Len(b) = 1
      BY <2>1, <2>2, Zenon
    <3>1. 1 \in 1 .. Len(b)
      BY <3>0
    <3>2. b[1] \in Nat
      BY <1>5, <3>1
    <3> QED BY <2>1, <2>2, <3>2
  <2> QED BY <2>2
<1>8. Refused(c) <=> c.compressed /\ (c.lie # 0 \/ Len(b) > MaxDecompressed)
  BY DEF Refused
<1>9. Stored(c) = IF c.compressed THEN v \o b ELSE b
  BY DEF Stored
<1> HIDE DEF at, v, b, c
<1>10. CASE ~c.compressed
  BY <1>4, <1>7, <1>8, <1>9, <1>10 DEF DecodedBody, b, c
<1>11. CASE c.compressed
  <2> DEFINE s == Stored(c)
  <2>1. v \in Seq(Nat) /\ Len(v) \in Nat /\ n \in Nat
    <3>1. n \in Nat
      BY <1>5
    <3>2. v \in Seq(Nat)
      BY <1>5, <3>1, VarintIs DEF v, b
    <3> QED BY <3>1, <3>2
  <2>2. Joins(s, v, b) /\ s = v \o b
    BY <1>5, <1>9, <1>11, <2>1, TwoPieces
  <2> HIDE DEF s
  <2>3. /\ Len(s) = Len(v) + Len(b)
        /\ \A i \in 1 .. Len(v) : s[i] = v[i]
        /\ \A i \in 1 .. Len(b) : s[Len(v) + i] = b[i]
    BY <2>2 DEF Joins
  <2> DEFINE start == at + Len(v)
  <2>4. start \in Nat /\ start + Len(b) = at + Len(s) /\ at + Len(s) <= FileLen /\ start <= FileLen
        /\ at \in 0 .. FileLen /\ start <= at + Len(s) /\ (at + Len(s)) - start = Len(b)
    <3> DEFINE x == Len(v)
               y == Len(b)
               z == Len(s)
    <3>1. z = x + y /\ x \in Nat /\ y \in Nat
      BY <1>5, <2>1, <2>3
    <3>2. at \in Nat /\ at + z <= FileLen /\ FileLen \in Nat
      BY <1>1, <1>2, <1>3 DEF s
    <3> HIDE DEF x, y, z
    <3>3. /\ at + x \in Nat /\ (at + x) + y = at + z /\ at + x <= FileLen
          /\ at \in 0 .. FileLen /\ at + x <= at + z /\ (at + z) - (at + x) = y
      BY <3>1, <3>2
    <3> QED BY <3>2, <3>3 DEF x, y, z
  <2>5. WrittenAt(at, v)
    <3>1. ASSUME NEW i \in 1 .. Len(v), at + i <= FileLen PROVE file[at + i] = v[i]
      <4>1. i \in 1 .. Len(s)
        BY <1>5, <2>1, <2>3
      <4>2. file[at + i] = s[i]
        BY <1>3, <3>1, <4>1 DEF WrittenAt, s
      <4> QED BY <2>3, <4>2
    <3> QED BY <3>1 DEF WrittenAt
  <2>6. WrittenAt(start, b)
    <3>1. ASSUME NEW i \in 1 .. Len(b), start + i <= FileLen PROVE file[start + i] = b[i]
      <4>1. Len(v) + i \in 1 .. Len(s) /\ at + (Len(v) + i) = start + i
        BY <1>3, <1>5, <2>1, <2>3
      <4>2. file[at + (Len(v) + i)] = s[Len(v) + i]
        BY <1>3, <3>1, <4>1 DEF WrittenAt, s
      <4> QED BY <2>3, <4>1, <4>2
    <3> HIDE DEF start
    <3> QED BY <3>1 DEF WrittenAt
  <2>7. TakeVarint[at] = start /\ VarintAt[at] = n
    <3>1. n \in Nat /\ n < U32 /\ at \in 0 .. FileLen /\ WrittenAt(at, Varint(n))
      BY <1>5, <2>1, <2>4, <2>5 DEF v, b
    <3>2. at + Len(Varint(n)) <= FileLen
      BY <2>4 DEF v, b
    <3>3. TakeVarint[at] = at + Len(Varint(n)) /\ VarintAt[at] = n
      <4> HIDE DEF n
      <4> QED BY <1>2, <3>1, <3>2, VarintRead
    <3> QED BY <3>3 DEF v, b
  <2> HIDE DEF start
  <2>8. Taken(start, Len(b)) = b
    BY <1>2, <1>5, <2>4, <2>6, TakenIs
  <2>9. start # Nowhere /\ ~(start > at + Len(s))
    BY <1>3, <2>3, <2>4, <1>5, <2>1 DEF Nowhere
  <2>10. DecodedBody(f) = IF n > MaxDecompressed \/ Len(b) # n THEN Damaged ELSE Taken(start, n)
    <3>1. DecodedBody(f) = Decompressed(f.header)
      BY <1>4, <1>11 DEF DecodedBody
    <3> DEFINE h == f.header
               end == at + Len(s)
    <3>2. h.body = at /\ h.size = Len(s)
      BY <1>4 DEF s
    <3> HIDE DEF h, n
    <3>3. Decompressed(h) = IF n > MaxDecompressed \/ (h.body + h.size) - start # n THEN Damaged
                            ELSE Taken(start, n)
      BY <2>7, <2>9, <3>2 DEF Decompressed
    <3>4. (h.body + h.size) - start = Len(b)
      BY <2>4, <3>2
    <3> QED BY <3>1, <3>3, <3>4 DEF h
  <2>11. CASE c.lie = 0
    <3>1. n = Len(b)
      BY <1>5, <2>11
    <3> HIDE DEF n
    <3> QED BY <1>7, <1>8, <1>11, <2>8, <2>10, <2>11, <3>1 DEF b, c
  <2>12. CASE c.lie # 0
    <3>1. n # Len(b)
      BY <1>5, <2>12
    <3> HIDE DEF n
    <3> QED BY <1>7, <1>8, <1>11, <2>10, <2>12, <3>1 DEF b, c
  <2> QED BY <2>11, <2>12
<1> QED BY <1>5, <1>10, <1>11

----------------------------------------------------------------------------
(* The client in the packets: its iterator stands behind the messages it   *)
(* was given, and no message is behind the last but padding.               *)
MessagesAt(sent) ==
  /\ messages \in MessageIters /\ messages.index \in 0 .. Len(sent)
  /\ messages.at = StartBit(sent, messages.index + 1) /\ messages.at <= TotalBits

(* The i-th message is the first that cannot be read.                      *)
StoppedAt(sent, i) ==
  /\ i \in 1 .. Len(sent) /\ TotalBits - StartBit(sent, i) > ByteBits
  /\ StartBit(sent, i + 1) > TotalBits \/ Len(sent[i].payload) > MaxMessage

LEMMA NextMessageRead ==
  ASSUME NEW sent, Packed(sent), Len(sent) \in Nat, MessagesAt(sent)
  PROVE  LET next == NextMessage(messages)
             i == messages.index + 1
         IN  \/ /\ next = [iter |-> messages, item |-> NoMessage]
                /\ messages.failed \/ TotalBits - StartBit(sent, i) <= ByteBits
             \/ /\ next = [iter |-> [messages EXCEPT !.failed = TRUE], item |-> BrokenMessage]
                /\ StoppedAt(sent, i)
             \/ /\ next.iter = [messages EXCEPT !.at = StartBit(sent, i + 1), !.index = i]
                /\ next.item.kind = "frame" /\ i \in 1 .. Len(sent)
                /\ [next.item EXCEPT !.payload = Payload(next.item)]
                     = MessageFrame(sent[i], messages.index)
                /\ StartBit(sent, i + 1) <= TotalBits /\ StartBit(sent, i + 1) \in Nat
<1> DEFINE next == NextMessage(messages)
           i == messages.index + 1
           at == messages.at
           m == sent[i]
           n == Len(sent)
<1>1. /\ BufferTyped /\ Follow(sent, PacketBits(sent)[n])
      /\ \A j \in 1 .. n : BitsAt(StartBit(sent, j), MessageBits(sent[j]))
      /\ TotalBits < StartBit(sent, n + 1) + ByteBits
  BY DEF Packed
<1>2. /\ n \in Nat /\ i \in 1 .. n + 1 /\ messages \in MessageIters /\ at \in Nat
      /\ at = StartBit(sent, i) /\ at <= TotalBits /\ messages.index = i - 1
      /\ messages.failed \in BOOLEAN
  BY DEF MessagesAt, MessageIters
<1>3. TotalBits \in Nat /\ ByteBits \in Nat
  BY <1>1, TotalIs, ByteIs
<1> HIDE DEF n
<1>4. CASE messages.failed \/ Padding(messages)
  <2>1. next = [iter |-> messages, item |-> NoMessage]
    BY <1>4, MessageEnds
  <2>2. messages.failed \/ TotalBits - StartBit(sent, i) <= ByteBits
    BY <1>2, <1>4 DEF Padding
  <2> QED BY <2>1, <2>2
<1>5. CASE ~(messages.failed \/ Padding(messages))
  <2>1. ~messages.failed /\ ~Padding(messages) /\ TotalBits - StartBit(sent, i) > ByteBits
    BY <1>2, <1>3, <1>5 DEF Padding
  <2> HIDE DEF i, at
  <2>2. i \in 1 .. n
    <3>1. i # n + 1
      <4>1. ASSUME i = n + 1 PROVE FALSE
        <5>1. TotalBits < StartBit(sent, i) + ByteBits
          BY <1>1, <4>1
        <5> QED BY <1>2, <1>3, <2>1, <5>1
      <4> QED BY <4>1
    <3> QED BY <1>2, <3>1
  <2>3. /\ Message(m) /\ StartBit(sent, i + 1) = EndBit(at, m)
    BY <1>1, <1>2, <2>2 DEF Follow, EndBit, n
  <2>4. BitsAt(at, MessageBits(m))
    BY <1>1, <1>2, <2>2
  <2>5. StartBit(sent, i + 1) \in Nat
    <3>1. i + 1 \in 1 .. Len(sent) + 1
      BY <1>2, <2>2 DEF n
    <3> QED BY <1>1, <3>1 DEF Follow, n
  <2> DEFINE end == EndBit(at, m)
  <2> HIDE DEF m
  <2>6. /\ ~(end <= TotalBits) \/ Len(m.payload) > MaxMessage =>
             next = [iter |-> [messages EXCEPT !.failed = TRUE], item |-> BrokenMessage]
        /\ end <= TotalBits /\ ~(Len(m.payload) > MaxMessage) =>
             /\ next.iter = [messages EXCEPT !.at = end, !.index = @ + 1]
             /\ next.item.kind = "frame"
             /\ [next.item EXCEPT !.payload = Payload(next.item)] = MessageFrame(m, messages.index)
    BY <1>1, <1>2, <2>1, <2>3, <2>4, MessageRead DEF at
  <2> HIDE DEF next, end
  <2>7. CASE ~(end <= TotalBits) \/ Len(m.payload) > MaxMessage
    <3>1. StartBit(sent, i + 1) > TotalBits \/ Len(sent[i].payload) > MaxMessage
      BY <1>3, <2>3, <2>5, <2>7 DEF end, m
    <3>2. StoppedAt(sent, i)
      BY <2>1, <2>2, <3>1 DEF StoppedAt, n
    <3> QED BY <2>6, <2>7, <3>2 DEF next, i
  <2>8. CASE end <= TotalBits /\ ~(Len(m.payload) > MaxMessage)
    <3>1. /\ next.iter = [messages EXCEPT !.at = end, !.index = i]
          /\ next.item.kind = "frame"
          /\ [next.item EXCEPT !.payload = Payload(next.item)] = MessageFrame(m, messages.index)
      BY <2>6, <2>8 DEF i
    <3>2. end = StartBit(sent, i + 1) /\ end <= TotalBits
      BY <2>3, <2>8 DEF end
    <3> QED BY <2>2, <2>5, <3>1, <3>2 DEF next, i, m, n
  <2> QED BY <2>7, <2>8
<1> QED BY <1>4, <1>5

(* What the client was given last, of the messages of a packet.            *)
MessageGiven(sent) ==
  \/ /\ message = NoMessage
     /\ phase = "reading" =>
          messages.failed \/ TotalBits - StartBit(sent, messages.index + 1) <= ByteBits
  \/ /\ message = BrokenMessage /\ phase = "messages"
     /\ messages.failed /\ StoppedAt(sent, messages.index + 1)
  \/ /\ messages.index \in 1 .. Len(sent) /\ phase = "messages"
     /\ message = MessageFrame(sent[messages.index], messages.index - 1)

(* What it holds of a command, and that it is the command it was given.    *)
HeldOf(c) ==
  IF Refused(c) THEN phase = "reading" /\ message = NoMessage
  ELSE /\ data = Body(c)
       /\ IF c.cmd = PACKET THEN MessagesAt(c.messages) /\ MessageGiven(c.messages)
          ELSE phase = "reading" /\ message = NoMessage

Holding == phase = "messages" \/ (phase = "reading" /\ frame.kind = "frame")

Held == \E c : c = recorded[Current] /\ HeldOf(c)
MessagesInOrder == ReadsInOrder /\ (Holding => Held)

LEMMA HeldIs ==
  ASSUME ReadsInOrder, frame.kind = "frame"
  PROVE  /\ Current \in 1 .. Len(recorded) /\ Writable(recorded[Current])
         /\ Len(recorded[Current].messages) \in Nat
         /\ DOMAIN recorded[Current].messages = 1 .. Len(recorded[Current].messages)
         /\ frame.header.cmd = recorded[Current].cmd
         /\ DecodedBody(frame) = IF Refused(recorded[Current]) THEN Damaged
                                 ELSE Body(recorded[Current])
         /\ Body(recorded[Current]) # Damaged
<1>1. Placed /\ Given /\ LaidOut
  BY DEF ReadsInOrder, Placed
<1>2. /\ Current \in 1 .. Len(recorded) /\ Readable(Current)
      /\ frame = FrameOf(Current, frame.index) /\ EncodedBody(frame) = Stored(recorded[Current])
  BY <1>1, FrameIs
<1>3. Writable(recorded[Current])
  BY <1>1, <1>2, Recorded
<1>4. frame.header.cmd = recorded[Current].cmd
  <2>1. frame.header = HeaderRecorded(Current)
    BY <1>2 DEF FrameOf
  <2> QED BY <2>1 DEF HeaderRecorded
<1> DEFINE sent == recorded[Current].messages
<1>5. Len(sent) \in Nat /\ DOMAIN sent = 1 .. Len(sent)
  <2>1. sent \in Seq(RecordedMessages)
    BY <1>3 DEF Writable, Sendable
  <2> HIDE DEF sent
  <2> QED BY <2>1
<1> QED BY <1>1, <1>2, <1>3, <1>4, <1>5, BodyRead

LEMMA HeldStays ==
  ASSUME UNCHANGED <<recorded, starts, commands, frame>>, NEW c, c = recorded[Current], HeldOf(c)'
  PROVE  Held'
<1>1. First' = First
  BY FirstStays
<1>2. recorded'[Current'] = c
  BY <1>1 DEF Current
<1> QED BY <1>2 DEF Held

(* A body decoded: the iterator of a packet stands at its first message.   *)
LEMMA DecodeBodyHolds ==
  ASSUME ReadsInOrder, DecodeBody, Holding' PROVE Held'
<1>1. PICK c : c = recorded[Current]
  OBVIOUS
<1> DEFINE sent == c.messages
<1>2. /\ frame.kind = "frame" /\ UNCHANGED <<recorded, starts, commands, frame>>
      /\ messages' = MessageIter /\ message' = NoMessage
      /\ data' = IF DecodedBody(frame) = Damaged THEN <<>> ELSE DecodedBody(frame)
      /\ phase' = IF DecodedBody(frame) = Damaged THEN (IF tolerant THEN "reading" ELSE "ended")
                  ELSE IF frame.header.cmd = PACKET THEN "messages" ELSE "reading"
  BY DEF ReadsInOrder, DecodeBody, written
<1>3. /\ Writable(c) /\ Len(sent) \in Nat /\ frame.header.cmd = c.cmd
      /\ DecodedBody(frame) = IF Refused(c) THEN Damaged ELSE Body(c)
      /\ Body(c) # Damaged
  BY <1>1, <1>2, HeldIs
<1>4. CASE Refused(c)
  <2>1. phase' = "reading"
    BY <1>2, <1>3, <1>4 DEF Holding
  <2>2. HeldOf(c)'
    BY <1>2, <1>4, <2>1 DEF HeldOf, Refused, Body
  <2> QED BY <1>1, <1>2, <2>2, HeldStays
<1>5. CASE ~Refused(c)
  <2>1. data' = Body(c) /\ phase' = IF c.cmd = PACKET THEN "messages" ELSE "reading"
    BY <1>2, <1>3, <1>5
  <2>2. MessagesAt(sent)'
    <3>1. StartBit(sent, 1) = 0
      BY <1>3, MessagesFollow DEF Writable, Follow
    <3>2. TotalBits' \in Nat
      <4>1. Len(Body(c)) \in Nat
        <5>1. Body(c) \in Seq(Nat)
          BY <1>3, StoredTyped
        <5> QED BY <5>1
      <4>2. Len(data') \in Nat
        BY <2>1, <4>1
      <4>3. Len(data') * ByteBits \in Nat
        BY <4>2, ByteIs, ProductIn
      <4> QED BY <4>3 DEF TotalBits
    <3>3. /\ messages'.at = 0 /\ messages'.index = 0 /\ messages' \in MessageIters
          /\ messages'.index + 1 = 1
      BY <1>2 DEF MessageIter, MessageIters
    <3>4. messages'.at = StartBit(sent, messages'.index + 1) /\ messages'.at <= TotalBits'
      BY <3>1, <3>2, <3>3
    <3>5. messages'.index \in 0 .. Len(sent)
      BY <1>3, <3>3
    <3> HIDE DEF sent
    <3> QED BY <3>3, <3>4, <3>5 DEF MessagesAt
  <2>3. CASE c.cmd = PACKET
    <3>1. phase' = "messages"
      BY <2>1, <2>3
    <3>2. MessageGiven(sent)'
      BY <1>2, <3>1 DEF MessageGiven
    <3>3. HeldOf(c)'
      BY <1>5, <2>1, <2>2, <2>3, <3>2 DEF HeldOf, Refused, Body
    <3> QED BY <1>1, <1>2, <3>3, HeldStays
  <2>4. CASE c.cmd # PACKET
    <3>1. HeldOf(c)'
      BY <1>2, <1>5, <2>1, <2>4 DEF HeldOf, Refused, Body
    <3> QED BY <1>1, <1>2, <3>1, HeldStays
  <2> QED BY <2>3, <2>4
<1> QED BY <1>4, <1>5

(* A message: the next of the packet, or an error where it cannot be read. *)
LEMMA MessageNextHolds ==
  ASSUME MessagesInOrder, MessageNext, Holding' PROVE Held'
<1>0. Held /\ ReadsInOrder
  BY DEF MessagesInOrder, MessageNext, Holding
<1>1. PICK c : c = recorded[Current] /\ HeldOf(c)
  BY <1>0 DEF Held
<1> DEFINE sent == c.messages
           next == NextMessage(messages)
           i == messages.index + 1
<1>2. /\ phase = "messages" /\ UNCHANGED <<recorded, starts, commands, frame, data>>
      /\ messages' = next.iter
      /\ message' = IF next.item.kind = "frame"
                    THEN [next.item EXCEPT !.payload = Payload(next.item)] ELSE next.item
      /\ phase' = CASE next.item.kind = "none"  -> "reading"
                    [] next.item.kind = "error" -> IF tolerant THEN "messages" ELSE "ended"
                    [] next.item.kind = "frame" -> "messages"
  BY DEF MessageNext, written
<1>3. frame.kind = "frame"
  BY <1>0, <1>2 DEF ReadsInOrder
<1>4. Writable(c) /\ Len(sent) \in Nat
  BY <1>0, <1>1, <1>3, HeldIs
<1>5. ~Refused(c) /\ data = Body(c) /\ c.cmd = PACKET /\ MessagesAt(sent)
  BY <1>1, <1>2 DEF HeldOf
<1>6. Packed(sent)
  BY <1>4, <1>5, BodyIs
<1>7. SUFFICES MessagesAt(sent)' /\ MessageGiven(sent)'
  <2>1. HeldOf(c)'
    BY <1>2, <1>5, <1>7 DEF HeldOf, Refused, Body
  <2> QED BY <1>1, <1>2, <2>1, HeldStays
<1>8. /\ messages \in MessageIters /\ messages.index \in 0 .. Len(sent)
      /\ messages.at = StartBit(sent, i) /\ messages.at <= TotalBits
      /\ i \in Nat
  BY <1>4, <1>5 DEF MessagesAt, MessageIters
<1>9. TotalBits' = TotalBits
  BY <1>2 DEF TotalBits
<1> HIDE DEF sent
<1>10. \/ /\ next = [iter |-> messages, item |-> NoMessage]
          /\ messages.failed \/ TotalBits - StartBit(sent, i) <= ByteBits
       \/ /\ next = [iter |-> [messages EXCEPT !.failed = TRUE], item |-> BrokenMessage]
          /\ StoppedAt(sent, i)
       \/ /\ next.iter = [messages EXCEPT !.at = StartBit(sent, i + 1), !.index = i]
          /\ next.item.kind = "frame" /\ i \in 1 .. Len(sent)
          /\ [next.item EXCEPT !.payload = Payload(next.item)]
               = MessageFrame(sent[i], messages.index)
          /\ StartBit(sent, i + 1) <= TotalBits /\ StartBit(sent, i + 1) \in Nat
  BY <1>4, <1>5, <1>6, NextMessageRead DEF sent
<1> HIDE DEF next
<1>11. CASE /\ next = [iter |-> messages, item |-> NoMessage]
            /\ messages.failed \/ TotalBits - StartBit(sent, i) <= ByteBits
  <2>1. messages' = messages /\ message' = NoMessage
    BY <1>2, <1>11 DEF NoMessage
  <2>2. MessagesAt(sent)'
    BY <1>8, <1>9, <2>1 DEF MessagesAt
  <2>3. MessageGiven(sent)'
    BY <1>9, <1>11, <2>1 DEF MessageGiven
  <2> QED BY <2>2, <2>3
<1>12. CASE /\ next = [iter |-> [messages EXCEPT !.failed = TRUE], item |-> BrokenMessage]
            /\ StoppedAt(sent, i)
  <2>1. next.item = BrokenMessage /\ next.iter = [messages EXCEPT !.failed = TRUE]
    BY <1>12
  <2>2. BrokenMessage.kind = "error"
    BY DEF BrokenMessage
  <2>3. message' = BrokenMessage /\ messages' = [messages EXCEPT !.failed = TRUE]
    BY <1>2, <2>1, <2>2
  <2>4. phase' = IF tolerant THEN "messages" ELSE "ended"
    BY <1>2, <2>1, <2>2
  <2>5. phase' = "messages"
    BY <2>4 DEF Holding
  <2>6. /\ messages' \in MessageIters /\ messages'.at = messages.at /\ messages'.index = messages.index
        /\ messages'.failed = TRUE
    BY <1>8, <2>3 DEF MessageIters
  <2>7. MessagesAt(sent)'
    BY <1>8, <1>9, <2>6 DEF MessagesAt
  <2>8. StoppedAt(sent, messages.index + 1)'
    BY <1>9, <1>12, <2>6 DEF StoppedAt
  <2>9. MessageGiven(sent)'
    BY <2>3, <2>5, <2>6, <2>8 DEF MessageGiven
  <2> QED BY <2>7, <2>9
<1>13. CASE /\ next.iter = [messages EXCEPT !.at = StartBit(sent, i + 1), !.index = i]
            /\ next.item.kind = "frame" /\ i \in 1 .. Len(sent)
            /\ [next.item EXCEPT !.payload = Payload(next.item)]
                 = MessageFrame(sent[i], messages.index)
            /\ StartBit(sent, i + 1) <= TotalBits /\ StartBit(sent, i + 1) \in Nat
  <2> DEFINE at == StartBit(sent, i + 1)
  <2>1. message' = MessageFrame(sent[i], messages.index)
    BY <1>2, <1>13
  <2>2. phase' = "messages"
    BY <1>2, <1>13
  <2>3. messages' = [messages EXCEPT !.at = at, !.index = i]
    BY <1>2, <1>13
  <2>4. /\ messages' \in MessageIters /\ messages'.at = at /\ messages'.index = i
        /\ i \in 1 .. Len(sent) /\ i \in 0 .. Len(sent) /\ messages.index = i - 1 /\ at <= TotalBits
    <3>1. at \in Nat /\ at <= TotalBits /\ i \in 1 .. Len(sent)
      BY <1>13
    <3> HIDE DEF at
    <3>2. messages' \in MessageIters /\ messages'.at = at /\ messages'.index = i
      BY <1>8, <2>3, <3>1 DEF MessageIters
    <3> QED BY <1>8, <3>1, <3>2
  <2>5. MessagesAt(sent)'
    BY <1>9, <2>4 DEF MessagesAt
  <2>6. message' = MessageFrame(sent[i], i - 1)
    BY <2>1, <2>4
  <2> HIDE DEF i
  <2>7. MessageGiven(sent)'
    BY <2>2, <2>4, <2>6 DEF MessageGiven
  <2> QED BY <2>5, <2>7
<1> QED BY <1>10, <1>11, <1>12, <1>13

LEMMA InitMessagesInOrder == Init => MessagesInOrder
<1> SUFFICES ASSUME Init PROVE MessagesInOrder
  OBVIOUS
<1>1. phase = "closed"
  BY DEF Init
<1>2. ReadsInOrder
  BY InitReadsInOrder
<1> QED BY <1>1, <1>2 DEF MessagesInOrder, Holding

(* Only a body decoded and a message given bring a client to hold one.     *)
LEMMA NextMessagesInOrder == MessagesInOrder /\ [Next]_vars => MessagesInOrder'
<1> SUFFICES ASSUME MessagesInOrder, [Next]_vars PROVE MessagesInOrder'
  OBVIOUS
<1>1. ReadsInOrder /\ ReadsInOrder'
  BY NextReadsInOrder DEF MessagesInOrder
<1>2. SUFFICES ASSUME Holding' PROVE Held'
  BY <1>1 DEF MessagesInOrder
<1>3. CASE Open
  BY <1>2, <1>3 DEF Open, Holding
<1>4. CASE IndexNext
  <2>1. phase' \in {"indexing", "indexed"}
    BY <1>4 DEF IndexNext
  <2> QED BY <1>2, <2>1 DEF Holding
<1>5. CASE InspectNext
  <2>1. phase' \in {"inspecting", "inspected", "ended"}
    BY <1>5 DEF InspectNext
  <2> QED BY <1>2, <2>1 DEF Holding
<1>6. CASE ReadNext
  <2>1. \/ phase' \in {"ended", "body"}
        \/ phase' = "reading" /\ NextCommand(commands).item.kind = "error"
           /\ frame' = NextCommand(commands).item
        \/ /\ NextCommand(commands).item.kind \notin {"none", "error", "frame"}
    BY <1>6 DEF ReadNext
  <2>2. NextCommand(commands).item.kind \in {"none", "error", "frame"}
    <3>1. Placed /\ Called
      BY <1>1, <1>6 DEF ReadsInOrder, ReadNext, Called
    <3>2. Given' /\ frame' = NextCommand(commands).item
      BY <3>1, CallReads DEF Called
    <3>3. frame'.kind \in {"none", "error", "frame"}
      BY <3>2 DEF Given, FrameOf, NoItem, Broken
    <3> QED BY <3>2, <3>3
  <2>3. phase' \in {"ended", "body"} \/ (phase' = "reading" /\ frame'.kind = "error")
    BY <2>1, <2>2
  <2> QED BY <1>2, <2>3 DEF Holding
<1>7. CASE DecodeBody
  BY <1>1, <1>2, <1>7, DecodeBodyHolds
<1>8. CASE MessageNext
  BY <1>2, <1>8, MessageNextHolds
<1>9. CASE Inspect
  BY <1>2, <1>9 DEF Inspect, Holding
<1>10. CASE Read
  BY <1>2, <1>10 DEF Read, Holding, NoItem
<1>11. CASE UNCHANGED vars
  <2>1. UNCHANGED <<recorded, starts, commands, frame, data, phase, messages, message>>
    BY <1>11 DEF vars, written
  <2>2. Held
    BY <1>2, <2>1 DEF MessagesInOrder, Holding
  <2>3. PICK c : c = recorded[Current] /\ HeldOf(c)
    BY <2>2 DEF Held
  <2>4. HeldOf(c)'
    BY <2>1, <2>3 DEF HeldOf, Refused, Body, MessagesAt, MessageGiven, StoppedAt, TotalBits
  <2> QED BY <2>1, <2>3, <2>4, HeldStays
<1> QED BY <1>3, <1>4, <1>5, <1>6, <1>7, <1>8, <1>9, <1>10, <1>11 DEF Next, Step

(* Whatever is recorded, a body is decoded as it was recorded and refused  *)
(* exactly when it lies or is too large, and the messages of a packet are  *)
(* those sent, up to the first that is cut or too large                    *)
(* (PacketMessageIter).                                                    *)
THEOREM MessagesReadAsWritten == Spec => []MessagesAsWritten
<1>1. MessagesInOrder => MessagesAsWritten
  <2> SUFFICES ASSUME MessagesInOrder, Holding PROVE MessagesAsWritten
    BY DEF MessagesAsWritten, Holding
  <2>1. PICK c : c = recorded[Current] /\ HeldOf(c)
    BY DEF MessagesInOrder, Held
  <2> DEFINE sent == c.messages
             next == messages.index + 1
             left == TotalBits - StartBit(sent, next)
             lost == next \in DOMAIN sent /\ StartBit(sent, next + 1) > TotalBits
             Shown ==
               /\ IF Refused(c) THEN phase = "reading" ELSE data = Body(c)
               /\ CASE message.kind = "frame" ->
                         /\ message.type = sent[messages.index].type
                         /\ message.payload = sent[messages.index].payload
                         /\ messages.at = StartBit(sent, next)
                    [] message.kind = "error" ->
                         left > ByteBits /\ (lost \/ Len(sent[next].payload) > MaxMessage)
                    [] message.kind = "none" /\ phase = "reading" /\ c.cmd = PACKET ->
                         Refused(c) \/ messages.failed \/ left <= ByteBits
                    [] OTHER -> TRUE
  <2>2. SUFFICES Shown
    BY <2>1 DEF MessagesAsWritten
  <2>3. NoMessage.kind = "none" /\ BrokenMessage.kind = "error"
    BY DEF NoMessage, BrokenMessage
  <2>4. CASE Refused(c)
    <3>1. phase = "reading" /\ message.kind = "none"
      BY <2>1, <2>3, <2>4 DEF HeldOf
    <3> HIDE DEF sent, left, lost
    <3> QED BY <2>4, <3>1
  <2>5. CASE ~Refused(c) /\ c.cmd # PACKET
    <3>1. data = Body(c) /\ message.kind = "none"
      BY <2>1, <2>3, <2>5 DEF HeldOf
    <3> HIDE DEF sent, left, lost
    <3> QED BY <2>5, <3>1
  <2>6. CASE ~Refused(c) /\ c.cmd = PACKET
    <3>1. data = Body(c) /\ MessagesAt(sent) /\ MessageGiven(sent)
      BY <2>1, <2>6 DEF HeldOf
    <3>2. DOMAIN sent = 1 .. Len(sent)
      <4>1. frame.kind = "frame" /\ ReadsInOrder
        BY DEF MessagesInOrder, Holding, ReadsInOrder
      <4> QED BY <2>1, <4>1, HeldIs
    <3> HIDE DEF sent
    <3>3. messages.at = StartBit(sent, next)
      BY <3>1 DEF MessagesAt
    <3>4. CASE message = NoMessage
      <4>1. phase = "reading" => messages.failed \/ left <= ByteBits
        BY <2>3, <3>1, <3>4 DEF MessageGiven, BrokenMessage, NoMessage, MessageFrame
      <4> HIDE DEF left, lost
      <4> QED BY <2>3, <2>6, <3>1, <3>4, <4>1
    <3>5. CASE message = BrokenMessage
      <4>1. StoppedAt(sent, next)
        BY <3>1, <3>5 DEF MessageGiven, BrokenMessage, NoMessage, MessageFrame
      <4>2. left > ByteBits /\ (lost \/ Len(sent[next].payload) > MaxMessage)
        BY <3>2, <4>1 DEF StoppedAt
      <4> HIDE DEF left, lost
      <4> QED BY <2>3, <2>6, <3>1, <3>5, <4>2
    <3>6. CASE message = MessageFrame(sent[messages.index], messages.index - 1)
      <4>1. message.kind = "frame" /\ message.type = sent[messages.index].type
            /\ message.payload = sent[messages.index].payload
        BY <3>6 DEF MessageFrame
      <4> HIDE DEF left, lost
      <4> QED BY <2>6, <3>1, <3>3, <4>1
    <3> QED BY <3>1, <3>4, <3>5, <3>6 DEF MessageGiven
  <2> QED BY <2>4, <2>5, <2>6
<1>2. Init => MessagesInOrder
  BY InitMessagesInOrder
<1>3. MessagesInOrder /\ [Next]_vars => MessagesInOrder'
  BY NextMessagesInOrder
<1> QED BY <1>1, <1>2, <1>3, PTL DEF Spec
=============================================================================
