------------------------- MODULE PacketStreamProofs -------------------------
(***************************************************************************)
(* The packet stream, for every set of writers and packets, every number   *)
(* of packets and every width of a byte's payload and of the length.       *)
(*                                                                         *)
(* The invariant looks at the pipe: the bytes on the stream followed by    *)
(* those the current WritePacket has still to write.  It is cut into the   *)
(* packets begun and not yet returned.                                     *)
(*                                                                         *)
(* First the varints the packets begin with: what EncodeVarint writes,     *)
(* VarintBuilder reads back, for every number and every number of payload  *)
(* bits in a byte; and what serializePacket joins, parsePacket takes apart.*)
(***************************************************************************)
EXTENDS PacketStream, FiniteSetTheorems, SequenceTheorems, TLAPS

-----------------------------------------------------------------------------
(* Powers and quotients *)

(* Induction on the naturals in the form the provers take: a set.  A number
   missing from it has a least interval 0..n, by the well-foundedness of strict
   inclusion between finite sets. *)
LEMMA NatSet ==
  ASSUME NEW S, 0 \in S, \A n \in Nat : n \in S => n + 1 \in S
  PROVE Nat \subseteq S
<1> DEFINE Upto(n) == 0 .. n
           T == {Upto(n) : n \in Nat \ S}
<1>1. SUFFICES ASSUME Nat \ S # {} PROVE FALSE
  OBVIOUS
<1>2. T \subseteq FiniteSubsetsOf(Nat) /\ T # {}
  <2>1. ASSUME NEW n \in Nat PROVE Upto(n) \in FiniteSubsetsOf(Nat)
    <3>1. IsFiniteSet(0 .. n) BY FS_Interval
    <3> QED BY <3>1 DEF FiniteSubsetsOf
  <2> QED BY <2>1, <1>1
<1>3. PICK x \in T : \A y \in T : <<y, x>> \notin StrictSubsetOrdering(Nat)
  <2> HIDE DEF T
  <2> QED BY <1>2, FS_StrictSubsetOrderingWellFounded, WFMin, Zenon
<1>4. PICK n \in Nat \ S : x = 0 .. n
  BY <1>3
<1>5. n # 0 /\ n - 1 \in Nat
  BY <1>4
<1>6. n - 1 \in S
  <2>1. SUFFICES ASSUME n - 1 \notin S PROVE FALSE
    OBVIOUS
  <2>2. Upto(n - 1) \in T
    BY <2>1, <1>5
  <2>3. <<Upto(n - 1), x>> \in StrictSubsetOrdering(Nat)
    BY <1>4, <1>5 DEF StrictSubsetOrdering
  <2> QED BY <2>2, <2>3, <1>3
<1>7. (n - 1) + 1 \in S
  BY <1>5, <1>6
<1> QED BY <1>7, <1>4

(* Powers of two, counted as subsets: exponentiation has no facts of its own. *)
LEMMA PowerZero == 2^0 = 1
<1>1. SUBSET {} = {{}}
  OBVIOUS
<1>2. Cardinality({{}}) = 1
  BY FS_Singleton
<1>3. IsFiniteSet({}) /\ Cardinality({}) = 0
  BY FS_EmptySet
<1>4. Cardinality(SUBSET {}) = 2^Cardinality({})
  BY <1>3, FS_SUBSET
<1> QED BY <1>1, <1>2, <1>3, <1>4

LEMMA PowerNat ==
  ASSUME NEW n \in Nat
  PROVE  2^n \in Nat
<1>1. IsFiniteSet(1 .. n) /\ Cardinality(1 .. n) = n
  BY FS_Interval
<1>2. IsFiniteSet(SUBSET (1 .. n)) /\ Cardinality(SUBSET (1 .. n)) = 2^n
  BY <1>1, FS_SUBSET
<1> QED BY <1>2, FS_CardinalityType

LEMMA PowerNext ==
  ASSUME NEW n \in Nat
  PROVE  2^(n + 1) = 2 * 2^n
<1> DEFINE Old == SUBSET (1 .. n)
           Grown == {T \cup {n + 1} : T \in Old}
           grow == [T \in Old |-> T \cup {n + 1}]
<1>1. /\ IsFiniteSet(1 .. n) /\ Cardinality(1 .. n) = n
      /\ IsFiniteSet(1 .. (n + 1)) /\ Cardinality(1 .. (n + 1)) = n + 1
  BY FS_Interval
<1>2. IsFiniteSet(Old) /\ Cardinality(Old) = 2^n
  BY <1>1, FS_SUBSET
<1>3. Cardinality(SUBSET (1 .. (n + 1))) = 2^(n + 1)
  BY <1>1, FS_SUBSET
<1>4. grow \in Bijection(Old, Grown)
  <2>1. grow \in [Old -> Grown]
    OBVIOUS
  <2>2. ASSUME NEW S \in Old, NEW T \in Old, S \cup {n + 1} = T \cup {n + 1}
        PROVE  S = T
    <3>1. n + 1 \notin S /\ n + 1 \notin T
      OBVIOUS
    <3> QED BY <3>1, <2>2
  <2>3. \A y \in Grown : \E T \in Old : grow[T] = y
    OBVIOUS
  <2> QED BY <2>1, <2>2, <2>3 DEF Bijection, Injection, IsInjective, Surjection
<1>5. IsFiniteSet(Grown) /\ Cardinality(Grown) = Cardinality(Old)
  BY <1>2, <1>4, FS_Bijection DEF ExistsBijection
<1>6. Old \cap Grown = {}
  <2>1. \A S \in Grown : n + 1 \in S
    OBVIOUS
  <2>2. \A S \in Old : n + 1 \notin S
    OBVIOUS
  <2> QED BY <2>1, <2>2
<1>7. SUBSET (1 .. (n + 1)) = Old \cup Grown
  <2>1. 1 .. (n + 1) = (1 .. n) \cup {n + 1}
    OBVIOUS
  <2>2. ASSUME NEW S \in SUBSET (1 .. (n + 1)), n + 1 \in S
        PROVE  S \in Grown
    <3>1. S \ {n + 1} \in Old
      BY <2>1
    <3>2. S = (S \ {n + 1}) \cup {n + 1}
      BY <2>2
    <3> QED BY <3>1, <3>2
  <2>3. ASSUME NEW S \in SUBSET (1 .. (n + 1)), n + 1 \notin S
        PROVE  S \in Old
    BY <2>1, <2>3
  <2>4. Old \cup Grown \subseteq SUBSET (1 .. (n + 1))
    BY <2>1
  <2> QED BY <2>2, <2>3, <2>4
<1>8. 2^n \in Nat
  BY PowerNat
<1> HIDE DEF Old, Grown
<1>9. Cardinality(Old \cup Grown) = Cardinality(Old) + Cardinality(Grown) - Cardinality(Old \cap Grown)
  BY <1>2, <1>5, FS_Union
<1>10. Cardinality(Old \cap Grown) = 0
  BY <1>6, FS_EmptySet
<1>11. 2^(n + 1) = 2^n + 2^n - 0
  BY <1>2, <1>3, <1>5, <1>7, <1>9, <1>10
<1> QED BY <1>8, <1>11

(* A quotient and a remainder are the only ones. *)
LEMMA Divide ==
  ASSUME NEW x \in Int, NEW m \in Nat \ {0}, NEW q \in Int, NEW r \in 0 .. m - 1, x = m * q + r
  PROVE  x \div m = q /\ x % m = r
<1>1. x = m * (x \div m) + (x % m) /\ x % m \in 0 .. m - 1 /\ x \div m \in Int
  OBVIOUS
<1> DEFINE d == x \div m
           e == x % m
<1> HIDE DEF d, e
<1>2. x = m * d + e /\ e \in 0 .. m - 1 /\ d \in Int
  BY <1>1 DEF d, e
<1>3. m * (d - q) = r - e
  BY <1>2
<1>4. CASE d - q >= 1
  <2>1. m * (d - q) >= m
    BY <1>2, <1>4
  <2> QED BY <2>1, <1>2, <1>3
<1>5. CASE d - q <= -1
  <2>1. m * (d - q) <= -m
    BY <1>2, <1>5
  <2> QED BY <2>1, <1>2, <1>3
<1>6. CASE d = q
  BY <1>6, <1>2 DEF d, e
<1> QED BY <1>4, <1>5, <1>6, <1>2

(* The remainder by a product, in two parts: the payload bits a varint has
   delivered and those of its next byte. *)
LEMMA Split ==
  ASSUME NEW v \in Nat, NEW a \in Nat \ {0}, NEW b \in Nat \ {0}
  PROVE  v % (a * b) = (v % a) + ((v \div a) % b) * a
<1> DEFINE q == v \div a
           r == v % a
           s == q \div b
           t == q % b
<1>1. v = a * q + r /\ r \in 0 .. a - 1 /\ q \in Int
  OBVIOUS
<1>2. q = b * s + t /\ t \in 0 .. b - 1 /\ s \in Int
  BY <1>1
<1> HIDE DEF q, r, s, t
<1>3. a * q = (a * b) * s + t * a
  BY <1>2
<1>4. a * b \in Nat \ {0}
  OBVIOUS
<1>5. t * a <= (b - 1) * a /\ t * a >= 0 /\ t * a \in Int
  BY <1>2
<1>6. t * a + r \in 0 .. a * b - 1
  BY <1>5, <1>1
<1>7. v = (a * b) * s + (t * a + r)
  <2>1. v = ((a * b) * s + t * a) + r /\ (a * b) * s \in Int
    BY <1>1, <1>2, <1>3
  <2> QED BY <2>1, <1>5, <1>1
<1>8. v % (a * b) = t * a + r
  <2> DEFINE m == a * b
             u == t * a + r
  <2>1. m \in Nat \ {0} /\ u \in 0 .. m - 1 /\ v = m * s + u
    BY <1>4, <1>6, <1>7
  <2> HIDE DEF m, u
  <2>2. v % m = u
    BY <1>2, <2>1, Divide
  <2> QED BY <2>2 DEF m, u
<1> QED BY <1>8, <1>5, <1>1 DEF q, r, t

(* The division that rounds up, as EncodeVarint counts its bytes. *)
LEMMA CeilDiv ==
  ASSUME NEW B \in Nat, NEW P \in Nat \ {0}, NEW k \in Nat
  PROVE  k < (B + P - 1) \div P <=> P * k < B
<1> DEFINE q == (B + P - 1) \div P
           r == (B + P - 1) % P
<1>1. B + P - 1 = P * q + r /\ r \in 0 .. P - 1 /\ q \in Int
  OBVIOUS
<1> HIDE DEF q, r
<1>2. CASE k < q
  <2>1. P * q >= P * (k + 1)
    BY <1>1, <1>2
  <2> QED BY <2>1, <1>1, <1>2 DEF q
<1>3. CASE k >= q
  <2>1. P * q <= P * k
    BY <1>1, <1>3
  <2> QED BY <2>1, <1>1, <1>3 DEF q
<1> QED BY <1>1, <1>2, <1>3

LEMMA PowerPositive ==
  ASSUME NEW n \in Nat
  PROVE  2^n \in Nat \ {0}
<1> DEFINE S == {k \in Nat : 2^k # 0}
<1>1. 0 \in S
  BY PowerZero
<1>2. \A k \in Nat : k \in S => k + 1 \in S
  BY PowerNext, PowerNat
<1>3. Nat \subseteq S
  <2> HIDE DEF S
  <2> QED BY <1>1, <1>2, NatSet
<1> QED BY <1>3, PowerNat

LEMMA PowerAbove ==
  ASSUME NEW n \in Nat
  PROVE  n < 2^n
<1> DEFINE S == {k \in Nat : k < 2^k}
<1>1. 0 \in S
  BY PowerZero
<1>2. \A k \in Nat : k \in S => k + 1 \in S
  BY PowerNext, PowerNat
<1>3. Nat \subseteq S
  <2> HIDE DEF S
  <2> QED BY <1>1, <1>2, NatSet
<1> QED BY <1>3

LEMMA PowerPlus ==
  ASSUME NEW a \in Nat, NEW b \in Nat
  PROVE  2^(a + b) = 2^a * 2^b
<1> DEFINE S == {k \in Nat : 2^(a + k) = 2^a * 2^k}
<1>1. 0 \in S
  BY PowerZero, PowerNat
<1>2. ASSUME NEW k \in Nat, k \in S PROVE k + 1 \in S
  <2>1. 2^(a + k) = 2^a * 2^k /\ 2^(k + 1) = 2 * 2^k
    BY <1>2, PowerNext
  <2>2. a + k \in Nat /\ a + (k + 1) = (a + k) + 1
    OBVIOUS
  <2>3. 2^(a + (k + 1)) = 2 * 2^(a + k)
    BY <2>2, PowerNext
  <2>4. 2^a \in Nat /\ 2^k \in Nat
    BY PowerNat
  <2> QED BY <2>1, <2>3, <2>4
<1>3. Nat \subseteq S
  <2> HIDE DEF S
  <2> QED BY <1>1, <1>2, NatSet
<1> QED BY <1>3

LEMMA PowerMonotone ==
  ASSUME NEW a \in Nat, NEW b \in Nat, a <= b
  PROVE  2^a <= 2^b
<1>1. b - a \in Nat /\ b = a + (b - a)
  OBVIOUS
<1>2. 2^b = 2^a * 2^(b - a)
  BY <1>1, PowerPlus
<1>3. 2^(b - a) \in Nat \ {0} /\ 2^a \in Nat
  BY <1>1, PowerPositive, PowerNat
<1> QED BY <1>2, <1>3

(* bits.Len: the power of two above a number and the ones below it. *)
LEMMA BitLengthBounds ==
  ASSUME NEW v \in Nat \ {0}
  PROVE  /\ BitLength(v) \in Nat \ {0}
         /\ v < 2^BitLength(v)
         /\ \A j \in Nat : j < BitLength(v) => 2^j <= v
<1> DEFINE Least(k) == 2^k > v /\ \A j \in 0 .. (k - 1) : 2^j <= v
           S == {k \in Nat : \A j \in 0 .. k : 2^j <= v}
<1>1. \E k \in 0 .. v : Least(k)
  <2>1. SUFFICES ASSUME \A k \in 0 .. v : ~Least(k) PROVE FALSE
    OBVIOUS
  <2>2. 0 \in S
    <3>1. 0 .. 0 = {0} /\ 1 <= v
      OBVIOUS
    <3>2. 2^0 <= v
      BY <3>1, PowerZero
    <3> QED BY <3>1, <3>2
  <2>3. ASSUME NEW k \in Nat, k \in S PROVE k + 1 \in S
    <3>1. k < 2^k /\ 2^k <= v /\ 2^k \in Nat /\ 2^(k + 1) \in Nat
      BY <2>3, PowerAbove, PowerNat
    <3>2. k + 1 \in 0 .. v
      BY <3>1
    <3>3. \A j \in 0 .. ((k + 1) - 1) : 2^j <= v
      BY <2>3
    <3>4. ~(2^(k + 1) > v)
      BY <2>1, <3>2, <3>3
    <3>5. 2^(k + 1) <= v
      BY <3>1, <3>4
    <3> QED BY <2>3, <3>5
  <2>4. Nat \subseteq S
    <3> HIDE DEF S
    <3> QED BY <2>2, <2>3, NatSet
  <2>5. 2^v <= v
    BY <2>4
  <2> QED BY <2>5, PowerAbove, PowerNat
<1>2. BitLength(v) \in 0 .. v /\ Least(BitLength(v))
  BY <1>1 DEF BitLength
<1>3. BitLength(v) # 0
  <2>1. SUFFICES ASSUME BitLength(v) = 0 PROVE FALSE
    OBVIOUS
  <2>2. 2^0 > v
    BY <2>1, <1>2
  <2> QED BY <2>2, PowerZero
<1>4. BitLength(v) \in Nat \ {0}
  BY <1>2, <1>3
<1>5. 2^BitLength(v) \in Nat
  BY <1>4, PowerNat
<1> QED BY <1>2, <1>4, <1>5

-----------------------------------------------------------------------------
(* EncodeVarint *)

\* the bytes EncodeVarint writes
HeaderLength(v) == IF v = 0 THEN 1 ELSE (BitLength(v) + PayloadBits - 1) \div PayloadBits

LEMMA RadixPositive == Radix \in Nat /\ Radix >= 2
<1>1. PayloadBits \in Nat /\ 1 \in Nat /\ 1 <= PayloadBits
  BY PayloadBitsPositive
<1>2. 2^1 = 2
  <2>1. 2^(0 + 1) = 2 * 2^0
    BY PowerNext
  <2> QED BY <2>1, PowerZero
<1>3. 2^1 <= 2^PayloadBits
  BY <1>1, PowerMonotone, Zenon
<1> QED BY <1>1, <1>2, <1>3, PowerNat DEF Radix

(* A byte of an encoded number: its payload bits, and whether another follows. *)
LEMMA EncodedByte ==
  ASSUME NEW v \in Nat
  PROVE  /\ HeaderLength(v) \in Nat \ {0}
         /\ EncodeVarint(v) \in Seq(Byte)
         /\ Len(EncodeVarint(v)) = HeaderLength(v)
         /\ v < 2^(PayloadBits * HeaderLength(v))
         /\ \A j \in Nat : j < HeaderLength(v) =>
               /\ EncodeVarint(v)[j + 1] \in Byte
               /\ EncodeVarint(v)[j + 1] % Radix = (v \div 2^(PayloadBits * j)) % Radix
               /\ Continues(EncodeVarint(v)[j + 1]) <=> j + 1 < HeaderLength(v)
               /\ j + 1 < HeaderLength(v) => 2^(PayloadBits * (j + 1)) <= v
<1> DEFINE P == PayloadBits
           B == BitLength(v)
           h == HeaderLength(v)
           rest(k) == v \div 2^(P * (k - 1))
           byte(k) == (rest(k) % Radix) + (IF rest(k) >= Radix THEN Radix ELSE 0)
<1>1. P \in Nat \ {0} /\ Radix \in Nat /\ Radix >= 2
  BY PayloadBitsPositive, RadixPositive
<1>2. CASE v = 0
  <2>1. EncodeVarint(v) = <<0>> /\ h = 1
    BY <1>2 DEF EncodeVarint, HeaderLength
  <2>2. 2^(P * 1) \in Nat \ {0}
    BY <1>1, PowerPositive
  <2>3. ASSUME NEW j \in Nat, j < 1
        PROVE  /\ <<0>>[j + 1] = 0
               /\ (v \div 2^(P * j)) % Radix = 0
    <3>1. j = 0 /\ P * j = 0
      BY <2>3, <1>1
    <3>2. 2^(P * j) = 1
      BY <3>1, PowerZero
    <3>3. v \div 2^(P * j) = 0
      BY <3>2, <1>2
    <3>4. 0 % Radix = 0
      BY <1>1
    <3> QED BY <3>1, <3>3, <3>4
  <2>4. 0 % Radix = 0 /\ ~Continues(0) /\ 0 \in Byte
    BY <1>1 DEF Continues, Byte
  <2>5. \A j \in Nat : j < h =>
           /\ EncodeVarint(v)[j + 1] = 0
           /\ (v \div 2^(P * j)) % Radix = 0
           /\ ~(j + 1 < h)
    BY <2>1, <2>3
  <2>6. EncodeVarint(v) \in Seq(Byte) /\ Len(EncodeVarint(v)) = h /\ h \in Nat \ {0}
    BY <2>1, <2>4
  <2>7. v < 2^(P * h)
    BY <2>1, <2>2, <1>2
  <2> HIDE DEF h
  <2>8. \A j \in Nat : j < h =>
           /\ EncodeVarint(v)[j + 1] \in Byte
           /\ EncodeVarint(v)[j + 1] % Radix = (v \div 2^(P * j)) % Radix
           /\ Continues(EncodeVarint(v)[j + 1]) <=> j + 1 < h
           /\ ~(j + 1 < h)
    BY <2>4, <2>5
  <2> QED BY <2>6, <2>7, <2>8 DEF h
<1>3. CASE v # 0
  <2>1. /\ B \in Nat \ {0} /\ v < 2^B
        /\ \A j \in Nat : j < B => 2^j <= v
    BY <1>3, BitLengthBounds
  <2>2. h = (B + P - 1) \div P
    BY <1>3 DEF HeaderLength
  <2>3. h \in Nat
    BY <2>1, <2>2, <1>1
  <2>4. \A k \in Nat : k < h <=> P * k < B
    BY <2>1, <2>2, <1>1, CeilDiv
  <2>5. h # 0
    BY <2>1, <2>3, <2>4, <1>1
  <2>6. EncodeVarint(v) = [k \in 1 .. h |-> byte(k)]
    BY <1>3, <2>2 DEF EncodeVarint
  <2> HIDE DEF h, B
  <2>7. v < 2^(P * h)
    <3>1. B <= P * h
      BY <2>1, <2>3, <2>4, <1>1
    <3>2. P * h \in Nat
      BY <2>3, <1>1
    <3>3. 2^B <= 2^(P * h)
      BY <3>1, <3>2, <2>1, PowerMonotone
    <3> QED BY <3>3, <3>2, <2>1, PowerNat
  <2>8. ASSUME NEW j \in Nat, j < h
        PROVE  /\ byte(j + 1) \in Byte
               /\ byte(j + 1) % Radix = (v \div 2^(P * j)) % Radix
               /\ Continues(byte(j + 1)) <=> j + 1 < h
               /\ j + 1 < h => 2^(P * (j + 1)) <= v
    <3> DEFINE a == 2^(P * j)
               r == v \div a
               s == r % Radix
    <3>1. P * j \in Nat /\ P * (j + 1) \in Nat /\ P * (j + 1) = P * j + P
      BY <1>1
    <3>2. a \in Nat \ {0}
      BY <3>1, PowerPositive
    <3>3. 2^(P * (j + 1)) = a * Radix
      BY <3>1, <1>1, PowerPlus DEF Radix
    <3>4. rest(j + 1) = r
      BY <1>1
    <3>5. v = a * r + (v % a) /\ (v % a) \in 0 .. a - 1 /\ r \in Int
      BY <3>2
    <3>6. r \in Nat
      BY <3>2
    <3> HIDE DEF a, r
    <3>7. r >= Radix <=> a * Radix <= v
      <4>1. CASE r >= Radix
        <5>1. a * r >= a * Radix
          BY <4>1, <3>2, <3>6, <1>1
        <5> QED BY <5>1, <4>1, <3>5, <3>2, <1>1
      <4>2. CASE r < Radix
        <5>1. a * (r + 1) <= a * Radix
          BY <4>2, <3>2, <3>6, <1>1
        <5>2. a * (r + 1) = a * r + a
          BY <3>2, <3>6
        <5>3. v < a * r + a
          BY <3>5, <3>2, <3>6
        <5> QED BY <5>1, <5>2, <5>3, <4>2, <3>2, <3>6, <1>1
      <4> QED BY <4>1, <4>2, <3>6, <1>1
    <3>8. a * Radix <= v <=> j + 1 < h
      <4>1. CASE j + 1 < h
        <5>1. P * (j + 1) < B
          BY <4>1, <2>4
        <5> QED BY <5>1, <4>1, <3>1, <3>3, <2>1
      <4>2. CASE ~(j + 1 < h)
        <5>1. B <= P * (j + 1)
          BY <4>2, <2>4, <2>1, <3>1
        <5>2. 2^B <= 2^(P * (j + 1))
          BY <5>1, <3>1, <2>1, PowerMonotone
        <5>3. 2^B \in Nat /\ 2^(P * (j + 1)) \in Nat
          BY <2>1, <3>1, PowerNat
        <5> QED BY <5>2, <5>3, <4>2, <3>3, <2>1
      <4> QED BY <4>1, <4>2
    <3>9. s \in 0 .. Radix - 1
      BY <3>6, <1>1
    <3> HIDE DEF s
    <3>10. byte(j + 1) = s + (IF r >= Radix THEN Radix ELSE 0)
      BY <3>4 DEF s
    <3>11. byte(j + 1) \in Byte /\ (Continues(byte(j + 1)) <=> r >= Radix)
      BY <3>9, <3>10, <1>1 DEF Continues, Byte
    <3>12. byte(j + 1) % Radix = s
      <4>1. CASE r >= Radix
        <5>1. s + Radix = Radix * 1 + s
          BY <3>9, <1>1
        <5>2. (s + Radix) % Radix = s
          BY <5>1, <3>9, <1>1, Divide
        <5> QED BY <5>2, <4>1, <3>10
      <4>2. CASE ~(r >= Radix)
        <5>1. s = Radix * 0 + s
          BY <3>9, <1>1
        <5>2. s % Radix = s
          BY <5>1, <3>9, <1>1, Divide
        <5> QED BY <5>2, <4>2, <3>10, <3>9
      <4> QED BY <4>1, <4>2
    <3> QED BY <3>3, <3>7, <3>8, <3>11, <3>12 DEF s, r, a
  <2> HIDE DEF byte
  <2>9. \A j \in Nat : j < h => EncodeVarint(v)[j + 1] = byte(j + 1)
    BY <2>6, <2>3
  <2>10. \A k \in 1 .. h : byte(k) \in Byte
    <3>1. ASSUME NEW k \in 1 .. h PROVE byte(k) \in Byte
      <4>1. k - 1 \in Nat /\ k - 1 < h /\ (k - 1) + 1 = k
        BY <2>3
      <4>2. byte((k - 1) + 1) \in Byte
        BY <4>1, <2>8
      <4> QED BY <4>1, <4>2
    <3> QED BY <3>1
  <2>11. EncodeVarint(v) \in Seq(Byte) /\ Len(EncodeVarint(v)) = h
    BY <2>3, <2>6, <2>10
  <2> QED BY <2>3, <2>5, <2>7, <2>8, <2>9, <2>11 DEF h
<1> QED BY <1>2, <1>3

-----------------------------------------------------------------------------
(* VarintBuilder *)

\* the builder that has been given the first j bytes of an encoded v
After(v, j) == [value |-> v % 2^(PayloadBits * j), bits |-> PayloadBits * j, done |-> j = HeaderLength(v),
                verdict |-> IF j = HeaderLength(v) THEN "value" ELSE "more"]

LEMMA AfterNone ==
  ASSUME NEW v \in Nat
  PROVE  After(v, 0) = NewVarintBuilder
<1>1. PayloadBits * 0 = 0
  BY PayloadBitsPositive
<1>2. 2^(PayloadBits * 0) = 1
  BY <1>1, PowerZero
<1>3. v % 2^(PayloadBits * 0) = 0
  BY <1>2
<1>4. HeaderLength(v) # 0
  BY EncodedByte
<1> QED BY <1>1, <1>3, <1>4 DEF After, NewVarintBuilder

LEMMA AfterAll ==
  ASSUME NEW v \in Nat
  PROVE  /\ After(v, HeaderLength(v)).value = v
         /\ After(v, HeaderLength(v)).done
         /\ After(v, HeaderLength(v)).verdict = "value"
<1> DEFINE m == 2^(PayloadBits * HeaderLength(v))
<1>1. v < m /\ HeaderLength(v) \in Nat
  BY EncodedByte
<1>2. PayloadBits * HeaderLength(v) \in Nat
  BY <1>1, PayloadBitsPositive
<1>3. m \in Nat \ {0}
  BY <1>2, PowerPositive
<1> HIDE DEF m
<1>4. v = m * 0 + v /\ v \in 0 .. m - 1
  BY <1>1, <1>3
<1>5. v % m = v
  BY <1>3, <1>4, Divide
<1> QED BY <1>5 DEF After, m

(* Add moves the builder from j bytes to j + 1: it never refuses a byte of a
   number below 2^maxLength, and is done with the last one and not before. *)
LEMMA AddsNext ==
  ASSUME NEW v \in Nat, NEW maxLength \in Nat, v < 2^maxLength,
         NEW j \in Nat, j < HeaderLength(v)
  PROVE  Add(After(v, j), EncodeVarint(v)[j + 1], maxLength) = After(v, j + 1)
<1> DEFINE P == PayloadBits
           h == HeaderLength(v)
           b == EncodeVarint(v)[j + 1]
           value == (v % 2^(P * j)) + (b % Radix) * 2^(P * j)
<1>1. /\ h \in Nat \ {0} /\ b \in Byte
      /\ b % Radix = (v \div 2^(P * j)) % Radix
      /\ Continues(b) <=> j + 1 < h
      /\ j + 1 < h => 2^(P * (j + 1)) <= v
  BY EncodedByte
<1>2. P \in Nat \ {0} /\ Radix \in Nat /\ Radix >= 2
  BY PayloadBitsPositive, RadixPositive
<1>3. P * j \in Nat /\ P * (j + 1) \in Nat /\ P * (j + 1) = P * j + P
  BY <1>2
<1>4. 2^(P * (j + 1)) = 2^(P * j) * Radix
  BY <1>2, <1>3, PowerPlus DEF Radix
<1>5. (v % 2^(P * j)) + (b % Radix) * 2^(P * j) = v % 2^(P * (j + 1))
  <2>1. 2^(P * j) \in Nat \ {0} /\ Radix \in Nat \ {0}
    BY <1>2, <1>3, PowerPositive
  <2>2. v % (2^(P * j) * Radix) = (v % 2^(P * j)) + ((v \div 2^(P * j)) % Radix) * 2^(P * j)
    BY <2>1, Split
  <2> QED BY <2>2, <1>1, <1>4
<1>6. j + 1 < h => P * (j + 1) < maxLength
  <2>1. SUFFICES ASSUME j + 1 < h, maxLength <= P * (j + 1) PROVE FALSE
    BY <1>3
  <2>2. 2^maxLength <= 2^(P * (j + 1))
    BY <2>1, <1>3, PowerMonotone
  <2>3. 2^maxLength \in Nat /\ 2^(P * (j + 1)) \in Nat
    BY <1>3, PowerNat
  <2> QED BY <2>1, <2>2, <2>3, <1>1
<1>7. v % 2^(P * (j + 1)) < 2^maxLength
  <2>1. 2^(P * (j + 1)) \in Nat \ {0} /\ 2^maxLength \in Nat
    BY <1>3, PowerPositive
  <2>2. v % 2^(P * (j + 1)) <= v /\ v % 2^(P * (j + 1)) \in Nat
    BY <2>1
  <2> QED BY <2>1, <2>2
<1>8. /\ After(v, j).value = v % 2^(P * j) /\ After(v, j).bits = P * j
      /\ ~After(v, j).done
  <2>1. After(v, j).value = v % 2^(P * j) /\ After(v, j).bits = P * j
    BY DEF After
  <2>2. After(v, j).done = (j = h)
    BY DEF After
  <2>3. j # h
    BY <1>1
  <2> QED BY <2>1, <2>2, <2>3
<1>9. CASE j + 1 < h
  <2>1. Continues(b) /\ j + 1 # h /\ ~(P * (j + 1) >= maxLength)
    BY <1>1, <1>3, <1>6, <1>9
  <2> DEFINE u == After(v, j)
  <2>2. Add(u, b, maxLength)
          = [value |-> u.value + (b % Radix) * 2^u.bits, bits |-> u.bits + P,
             done |-> u.bits + P >= maxLength,
             verdict |-> IF u.bits + P >= maxLength THEN "error" ELSE "more"]
    BY <2>1, <1>8, Zenon DEF Add
  <2> HIDE DEF u
  <2>3. u.value + (b % Radix) * 2^u.bits = v % 2^(P * (j + 1)) /\ u.bits + P = P * (j + 1)
    BY <1>3, <1>5, <1>8 DEF u
  <2>4. (u.bits + P >= maxLength) = FALSE
    BY <2>1, <2>3
  <2>5. Add(u, b, maxLength)
          = [value |-> v % 2^(P * (j + 1)), bits |-> P * (j + 1), done |-> FALSE, verdict |-> "more"]
    BY <2>2, <2>3, <2>4
  <2> QED BY <2>1, <2>5 DEF After, u
<1>10. CASE ~(j + 1 < h)
  <2>1. ~Continues(b) /\ j + 1 = h
    BY <1>1, <1>10
  <2>2. ~(v % 2^(P * (j + 1)) >= 2^maxLength)
    <3>1. 2^maxLength \in Nat /\ 2^(P * (j + 1)) \in Nat \ {0}
      BY <1>3, PowerPositive
    <3> QED BY <3>1, <1>7
  <2>3. Add(After(v, j), b, maxLength)
          = [value |-> v % 2^(P * (j + 1)), bits |-> P * (j + 1), done |-> TRUE, verdict |-> "value"]
    BY <2>1, <2>2, <1>3, <1>5, <1>8 DEF Add
  <2> QED BY <2>1, <2>3 DEF After
<1> QED BY <1>9, <1>10

(* Feed, on any prefix of an encoded number. *)
LEMMA FedPrefix ==
  ASSUME NEW v \in Nat, NEW maxLength \in Nat, v < 2^maxLength,
         NEW s \in Seq(Byte), Len(s) <= HeaderLength(v),
         \A i \in 1 .. Len(s) : s[i] = EncodeVarint(v)[i]
  PROVE  Feed(s, maxLength) = After(v, Len(s))
<1> DEFINE F(g) == [k \in 0 .. Len(s) |-> IF k = 0 THEN NewVarintBuilder
                                          ELSE Add(g[k - 1], s[k], maxLength)]
           good == [k \in 0 .. Len(s) |-> After(v, k)]
           fed == CHOOSE g : g = F(g)
<1>1. Len(s) \in Nat /\ HeaderLength(v) \in Nat
  BY EncodedByte
<1>2. \A k \in 1 .. Len(s) : Add(After(v, k - 1), s[k], maxLength) = After(v, k)
  <2>1. ASSUME NEW k \in 1 .. Len(s) PROVE Add(After(v, k - 1), s[k], maxLength) = After(v, k)
    <3>1. k - 1 \in Nat /\ k - 1 < HeaderLength(v) /\ (k - 1) + 1 = k
      BY <1>1
    <3>2. Add(After(v, k - 1), EncodeVarint(v)[(k - 1) + 1], maxLength) = After(v, (k - 1) + 1)
      BY <3>1, AddsNext
    <3> QED BY <3>1, <3>2
  <2> QED BY <2>1
<1>3. After(v, 0) = NewVarintBuilder
  BY AfterNone
<1>4. good = F(good)
  BY <1>1, <1>2, <1>3
<1>5. fed = F(fed)
  <2> HIDE DEF good, F
  <2> QED BY <1>4
<1>6. \A k \in 0 .. Len(s) : fed[k] = IF k = 0 THEN NewVarintBuilder ELSE Add(fed[k - 1], s[k], maxLength)
  <2> HIDE DEF fed
  <2> QED BY <1>5
<1> HIDE DEF fed
<1> DEFINE S == {k \in Nat : k <= Len(s) => fed[k] = After(v, k)}
<1>7. 0 \in S
  BY <1>1, <1>3, <1>6
<1>8. ASSUME NEW k \in Nat, k \in S PROVE k + 1 \in S
  <2>1. SUFFICES ASSUME k + 1 <= Len(s) PROVE fed[k + 1] = After(v, k + 1)
    OBVIOUS
  <2>2. k + 1 \in 1 .. Len(s) /\ (k + 1) - 1 = k /\ k <= Len(s)
    BY <2>1, <1>1
  <2>3. fed[k + 1] = Add(fed[k], s[k + 1], maxLength)
    BY <2>2, <1>6
  <2>4. fed[k] = After(v, k)
    BY <2>2, <1>8
  <2> QED BY <2>2, <2>3, <2>4, <1>2
<1>9. Nat \subseteq S
  <2> HIDE DEF S
  <2> QED BY <1>7, <1>8, NatSet
<1>10. fed[Len(s)] = After(v, Len(s))
  BY <1>1, <1>9
<1> QED BY <1>10 DEF Feed, fed

(* parsePacket gives back the compilation ID and the message that serializePacket
   joined, for every ID the bit limit admits, every message and every width of
   the payload in a byte: the varint ends where it was meant to, whatever bytes
   follow it. *)
THEOREM ParsesWhatWasSerialized ==
  ASSUME NEW maxLength \in Nat, NEW id \in Nat, id < 2^maxLength, NEW message \in Seq(Byte)
  PROVE  parsePacket(serializePacket(id, message), maxLength)
           = [ok |-> TRUE, id |-> id, message |-> message]
<1> DEFINE E == EncodeVarint(id)
           h == HeaderLength(id)
           joined == serializePacket(id, message)
           fed(k) == Feed(SubSeq(joined, 1, k), maxLength)
           done(k) == fed(k).done
           ends == {k \in 1 .. Len(joined) : done(k) /\ \A j \in 1 .. (k - 1) : ~done(j)}
           last == CHOOSE k \in ends : TRUE
<1>1. E \in Seq(Byte) /\ Len(E) = h /\ h \in Nat \ {0}
  BY EncodedByte
<1>2. joined \in Seq(Byte) /\ Len(joined) = h + Len(message) /\ joined = E \o message
  BY <1>1 DEF serializePacket
<1> HIDE DEF joined, E, h
<1>3. ASSUME NEW k \in 1 .. h
      PROVE  fed(k) = After(id, k)
  <2> DEFINE s == SubSeq(joined, 1, k)
  <2>1. k \in Nat /\ k <= Len(joined)
    BY <1>1, <1>2
  <2>2. s \in Seq(Byte) /\ Len(s) = k /\ \A i \in 1 .. k : s[i] = joined[i]
    BY <1>2, <2>1
  <2>3. \A i \in 1 .. k : joined[i] = E[i]
    BY <1>1, <1>2
  <2> HIDE DEF s
  <2>4. k \in 0 .. HeaderLength(id) /\ \A i \in 1 .. k : s[i] = EncodeVarint(id)[i]
    BY <1>1, <2>1, <2>2, <2>3 DEF E, h
  <2>5. Feed(s, maxLength) = After(id, k)
    BY <2>1, <2>2, <2>4, FedPrefix
  <2> QED BY <2>5 DEF s
<1>4. ASSUME NEW k \in 1 .. h PROVE done(k) <=> k = h
  <2>1. After(id, k).done = (k = HeaderLength(id))
    BY DEF After
  <2> HIDE DEF fed
  <2> QED BY <1>3, <2>1 DEF h
<1> HIDE DEF done
<1>5. ends = {h}
  <2>1. h \in ends
    BY <1>1, <1>2, <1>4
  <2>2. ASSUME NEW k \in ends PROVE k = h
    <3>1. k \in 1 .. Len(joined) /\ done(k) /\ \A j \in 1 .. (k - 1) : ~done(j)
      OBVIOUS
    <3>2. h \in 1 .. h /\ done(h)
      BY <1>1, <1>4
    <3>3. ~(h < k)
      BY <3>1, <3>2, <1>2
    <3> QED BY <3>1, <3>3, <1>1, <1>2, <1>4
  <2> QED BY <2>1, <2>2
<1>6. last = h
  BY <1>5
<1> HIDE DEF ends, last
<1>7. fed(last) = After(id, h)
  <2>1. h \in 1 .. h
    BY <1>1
  <2>2. fed(h) = After(id, h)
    BY <1>3, <2>1
  <2> QED BY <1>6, <2>2
<1>8. fed(last).value = id /\ fed(last).verdict = "value"
  BY <1>7, AfterAll DEF h
<1>9. SubSeq(joined, last + 1, Len(joined)) = message
  <2>1. SubSeq(joined, h + 1, Len(joined)) = message
    BY <1>1, <1>2
  <2> QED BY <1>6, <2>1
<1>10. parsePacket(joined, maxLength)
         = IF ends = {} \/ fed(last).verdict = "error"
           THEN [ok |-> FALSE, id |-> 0, message |-> <<>>]
           ELSE [ok |-> TRUE, id |-> fed(last).value, message |-> SubSeq(joined, last + 1, Len(joined))]
  BY DEF parsePacket, done, ends, last
<1>11. ends # {}
  BY <1>5
<1> HIDE DEF fed
<1>12. parsePacket(joined, maxLength) = [ok |-> TRUE, id |-> id, message |-> message]
  BY <1>8, <1>9, <1>10, <1>11
<1> QED BY <1>12 DEF joined
-----------------------------------------------------------------------------
(* The packet stream *)

\* a packet on the stream
Encoded(p) == EncodeVarint(Len(p)) \o p

\* what the Write calls of a packet have still to write, and all that is still to be read
Rest(buffers) ==
    IF buffers = <<>> THEN <<>> ELSE IF Len(buffers) = 1 THEN buffers[1] ELSE buffers[1] \o buffers[2]
Pipe == stream \o Rest(todo)

(* Where the packets of "packets" from n + 1 on lie in the pipe: packet i ends at
   at[i], where i + 1 begins, and byte j of packet n + 1 may have been read already,
   when at[n] < 0.  Only the last packet may reach beyond "front", the end of what
   has been written: the mutex is held until a packet is out. *)
Cuts(at, n, packets, pipe, front) ==
    LET m == Len(packets) IN
    /\ at \in [n .. m -> Int]
    /\ at[n] <= 0
    /\ at[m] = Len(pipe)
    /\ \A i, j \in n .. m : i < j => at[i] < at[j]
    /\ \A i \in n + 1 .. m : at[i] = at[i - 1] + Len(Encoded(packets[i]))
    /\ \A i \in n + 1 .. m : \A j \in 1 .. Len(Encoded(packets[i])) :
          at[i - 1] + j >= 1 => pipe[at[i - 1] + j] = Encoded(packets[i])[j]
    /\ n < m => at[m - 1] <= front

\* all of a sequence but its first k elements
Drops(next, s, k) == Len(next) = Len(s) - k /\ \A i \in 1 .. Len(next) : next[i] = s[i + k]

(* What ReadPacket's locals are when it has read c bytes of packet n + 1: a builder
   that has been given them, or the whole length and the payload bytes after it. *)
Position(c, n, packets, b, pkt, miss) ==
    IF n = Len(packets) THEN c = 0 /\ b = NewVarintBuilder /\ pkt = <<>> /\ miss = 0
    ELSE LET p == packets[n + 1]
             h == HeaderLength(Len(p))
         IN  /\ c <= h + Len(p)
             /\ c < h => b = After(Len(p), c) /\ pkt = <<>> /\ miss = 0
             /\ c >= h => /\ b = After(Len(p), h)
                          /\ pkt = SubSeq(p, 1, c - h)
                          /\ miss = h + Len(p) - c

(* The types of the variables; the builder's is in Position. *)
TypeOK ==
    /\ muHolder \in Writers \cup {NoWriter}
    /\ todo \in Seq(Seq(Byte)) /\ Len(todo) <= 2
    /\ stream \in Seq(Byte)
    /\ open \in BOOLEAN
    /\ packet \in Seq(Byte)
    /\ missing \in Nat
    /\ outcome \in {"reading", "eof", "unexpectedEof"}
    /\ written \in Seq(Payloads)
    /\ received \in Seq(Seq(Byte))
(* When the reader stops, and what it says then. *)
Ended ==
    outcome # "reading" =>
        /\ stream = <<>> /\ ~open
        /\ ~builder.done \/ missing > 0
        /\ outcome = "eof" <=> packet = <<>>
(* The bytes on their way are the packets begun and not yet returned, in order and
   without a gap, and the reader stands inside the first of them. *)
Located ==
    \E at \in [Len(received) .. Len(written) -> Int] :
        /\ Cuts(at, Len(received), written, Pipe, Len(stream))
        /\ Position(-at[Len(received)], Len(received), written, builder, packet, missing)
(* The inductive invariant. *)
IInv ==
    /\ TypeOK
    /\ muHolder = NoWriter => todo = <<>>
    /\ Ended
    /\ Len(received) <= Len(written)
    /\ PacketsWhole
    /\ Located
-----------------------------------------------------------------------------
(* Packets in the pipe *)

(* The width of the length loses nothing of it, and the bits ReadPacket accepts
   are enough for it. *)
LEMMA EncodedPacket ==
  ASSUME NEW p \in Payloads
  PROVE  /\ p \in Seq(Byte) /\ Len(p) \in Nat /\ Len(p) < 2^MaxLength
         /\ Len(p) % 2^WordBits = Len(p)
         /\ HeaderLength(Len(p)) \in Nat \ {0}
         /\ Encoded(p) \in Seq(Byte)
         /\ Len(Encoded(p)) = HeaderLength(Len(p)) + Len(p)
         /\ \A j \in 1 .. HeaderLength(Len(p)) : Encoded(p)[j] = EncodeVarint(Len(p))[j]
         /\ \A j \in 1 .. Len(p) : Encoded(p)[HeaderLength(Len(p)) + j] = p[j]
<1>1. p \in Seq(Byte) /\ Len(p) \in Nat /\ Len(p) < 2^WordBits
  BY StreamConstants
<1>2. 2^WordBits \in Nat \ {0} /\ 2^WordBits <= 2^MaxLength /\ 2^MaxLength \in Nat
  BY StreamConstants, PowerPositive, PowerMonotone
<1>3. Len(p) % 2^WordBits = Len(p)
  <2>1. Len(p) = 2^WordBits * 0 + Len(p) /\ Len(p) \in 0 .. 2^WordBits - 1
    BY <1>1, <1>2
  <2> QED BY <2>1, <1>1, <1>2, Divide
<1>4. /\ HeaderLength(Len(p)) \in Nat \ {0}
      /\ EncodeVarint(Len(p)) \in Seq(Byte)
      /\ Len(EncodeVarint(Len(p))) = HeaderLength(Len(p))
  BY <1>1, EncodedByte
<1> DEFINE E == EncodeVarint(Len(p))
           h == HeaderLength(Len(p))
<1>5. Encoded(p) = E \o p
  BY DEF Encoded
<1>6. E \in Seq(Byte) /\ Len(E) = h /\ h \in Nat
  BY <1>4
<1> HIDE DEF E, h
<1>7. /\ E \o p \in Seq(Byte) /\ Len(E \o p) = Len(E) + Len(p)
      /\ \A i \in 1 .. Len(E) + Len(p) : (E \o p)[i] = IF i <= Len(E) THEN E[i] ELSE p[i - Len(E)]
  BY <1>1, <1>6, ConcatProperties
<1>8. ASSUME NEW j \in 1 .. h PROVE (E \o p)[j] = E[j]
  <2>1. j \in 1 .. Len(E) + Len(p) /\ j <= Len(E)
    BY <1>1, <1>6
  <2> QED BY <2>1, <1>7
<1>9. ASSUME NEW j \in 1 .. Len(p) PROVE (E \o p)[h + j] = p[j]
  <2>1. h + j \in 1 .. Len(E) + Len(p) /\ ~(h + j <= Len(E)) /\ (h + j) - Len(E) = j
    BY <1>1, <1>6
  <2> QED BY <2>1, <1>7
<1>10. /\ Encoded(p) \in Seq(Byte) /\ Len(Encoded(p)) = h + Len(p)
       /\ \A j \in 1 .. h : Encoded(p)[j] = E[j]
       /\ \A j \in 1 .. Len(p) : Encoded(p)[h + j] = p[j]
  BY <1>5, <1>6, <1>7, <1>8, <1>9
<1> QED BY <1>1, <1>2, <1>3, <1>4, <1>10 DEF E, h

(* The reader takes k bytes of the pipe. *)
LEMMA CutsAdvance ==
  ASSUME NEW n \in Nat, NEW packets \in Seq(Payloads), n <= Len(packets),
         NEW pipe \in Seq(Byte), NEW front \in Nat, front <= Len(pipe),
         NEW at \in [n .. Len(packets) -> Int], Cuts(at, n, packets, pipe, front),
         NEW k \in Nat, k <= front,
         NEW next \in Seq(Byte), Drops(next, pipe, k)
  PROVE  Cuts([i \in n .. Len(packets) |-> at[i] - k], n, packets, next, front - k)
<1> DEFINE m == Len(packets)
           new == [i \in n .. m |-> at[i] - k]
<1>1. m \in Nat /\ n \in n .. m /\ m \in n .. m
  OBVIOUS
<1>2. at[n] <= 0 /\ at[m] = Len(pipe) /\ (n < m => at[m - 1] <= front)
  BY DEF Cuts
<1>0. Len(next) = Len(pipe) - k
  BY DEF Drops
<1>3. \A i, j \in n .. m : i < j => at[i] < at[j]
  BY DEF Cuts
<1>4. \A i \in n + 1 .. m : at[i] = at[i - 1] + Len(Encoded(packets[i]))
  BY DEF Cuts
<1>5. \A i \in n + 1 .. m : \A j \in 1 .. Len(Encoded(packets[i])) :
         at[i - 1] + j >= 1 => pipe[at[i - 1] + j] = Encoded(packets[i])[j]
  BY DEF Cuts
<1>6. new \in [n .. m -> Int] /\ \A i \in n .. m : new[i] = at[i] - k /\ at[i] \in Int
  <2>1. ASSUME NEW i \in n .. m PROVE at[i] \in Int /\ at[i] - k \in Int
    <3>1. at[i] \in Int
      OBVIOUS
    <3> QED BY <3>1
  <2> QED BY <2>1
<1> HIDE DEF new, m
<1>7. \A i, j \in n .. m : i < j => new[i] < new[j]
  BY <1>3, <1>6
<1>8. new[n] <= 0 /\ new[m] = Len(next)
  <2>1. new[n] = at[n] - k /\ new[m] = at[m] - k /\ at[n] \in Int
    BY <1>1, <1>6
  <2> QED BY <2>1, <1>2, <1>0
<1>9. n < m => new[m - 1] <= front - k
  <2>1. SUFFICES ASSUME n < m PROVE new[m - 1] <= front - k
    OBVIOUS
  <2>2. m - 1 \in n .. m
    BY <2>1, <1>1
  <2> QED BY <2>1, <2>2, <1>2, <1>6
<1>10. ASSUME NEW i \in n + 1 .. m
       PROVE  /\ new[i] = new[i - 1] + Len(Encoded(packets[i]))
              /\ \A j \in 1 .. Len(Encoded(packets[i])) :
                    new[i - 1] + j >= 1 => next[new[i - 1] + j] = Encoded(packets[i])[j]
  <2>1. i - 1 \in n .. m /\ i \in n .. m /\ packets[i] \in Payloads
    BY <1>1 DEF m
  <2>2. Len(Encoded(packets[i])) \in Nat
    BY <2>1, EncodedPacket
  <2>3. at[i] <= Len(pipe)
    <3>1. CASE i = m
      BY <3>1, <1>2
    <3>2. CASE i < m
      <4>1. at[i] < at[m] /\ at[i] \in Int /\ at[m] \in Int
        BY <3>2, <2>1, <1>1, <1>3, <1>6
      <4> QED BY <4>1, <1>2
    <3> QED BY <3>1, <3>2, <2>1, <1>1
  <2>4. at[i] = at[i - 1] + Len(Encoded(packets[i])) /\ at[i] \in Int /\ at[i - 1] \in Int
    BY <2>1, <1>4, <1>6
  <2>5. new[i] = at[i] - k /\ new[i - 1] = at[i - 1] - k
    BY <2>1, <1>6
  <2>6. ASSUME NEW j \in 1 .. Len(Encoded(packets[i])), new[i - 1] + j >= 1
        PROVE  next[new[i - 1] + j] = Encoded(packets[i])[j]
    <3>1. new[i - 1] + j \in 1 .. Len(next) /\ (new[i - 1] + j) + k = at[i - 1] + j /\ at[i - 1] + j >= 1
      <4>1. j \in Nat /\ j <= Len(Encoded(packets[i]))
        BY <2>2
      <4>2. at[i - 1] + j <= Len(pipe)
        BY <4>1, <2>2, <2>3, <2>4
      <4>3. (new[i - 1] + j) + k = at[i - 1] + j
        BY <4>1, <2>4, <2>5
      <4>4. new[i - 1] + j \in Int
        BY <4>1, <2>4, <2>5
      <4>5. Len(pipe) \in Nat /\ Len(next) \in Nat
        OBVIOUS
      <4> QED BY <4>2, <4>3, <4>4, <4>5, <2>6, <1>0
    <3>2. pipe[at[i - 1] + j] = Encoded(packets[i])[j]
      BY <3>1, <1>5
    <3>3. next[new[i - 1] + j] = pipe[(new[i - 1] + j) + k]
      BY <3>1 DEF Drops
    <3> QED BY <3>1, <3>2, <3>3
  <2> QED BY <2>2, <2>4, <2>5, <2>6
<1> QED BY <1>6, <1>7, <1>8, <1>9, <1>10 DEF Cuts, new, m

(* Another packet is begun when all the others are on the stream. *)
LEMMA CutsBegin ==
  ASSUME NEW n \in Nat, NEW packets \in Seq(Payloads), n <= Len(packets),
         NEW pipe \in Seq(Byte),
         NEW at \in [n .. Len(packets) -> Int], Cuts(at, n, packets, pipe, Len(pipe)),
         NEW p \in Payloads
  PROVE  Cuts([i \in n .. Len(packets) + 1 |->
                 IF i <= Len(packets) THEN at[i] ELSE Len(pipe) + Len(Encoded(p))],
              n, Append(packets, p), pipe \o Encoded(p), Len(pipe))
<1> DEFINE m == Len(packets)
           new == [i \in n .. m + 1 |-> IF i <= m THEN at[i] ELSE Len(pipe) + Len(Encoded(p))]
           all == Append(packets, p)
           next == pipe \o Encoded(p)
<1>1. m \in Nat /\ n \in n .. m /\ m \in n .. m
  OBVIOUS
<1>2. /\ at[n] <= 0 /\ at[m] = Len(pipe)
      /\ \A i, j \in n .. m : i < j => at[i] < at[j]
      /\ \A i \in n + 1 .. m : at[i] = at[i - 1] + Len(Encoded(packets[i]))
      /\ \A i \in n + 1 .. m : \A j \in 1 .. Len(Encoded(packets[i])) :
            at[i - 1] + j >= 1 => pipe[at[i - 1] + j] = Encoded(packets[i])[j]
  BY DEF Cuts
<1>3. Encoded(p) \in Seq(Byte) /\ Len(Encoded(p)) \in Nat \ {0}
  BY EncodedPacket
<1>4. /\ new \in [n .. m + 1 -> Int] /\ new[m + 1] = Len(pipe) + Len(Encoded(p))
      /\ \A i \in n .. m : new[i] = at[i]
  BY <1>1, <1>3
<1>5. /\ all \in Seq(Payloads) /\ Len(all) = m + 1 /\ all[m + 1] = p
      /\ \A i \in 1 .. m : all[i] = packets[i]
  OBVIOUS
<1>6. /\ next \in Seq(Byte) /\ Len(next) = Len(pipe) + Len(Encoded(p))
      /\ \A i \in 1 .. Len(pipe) : next[i] = pipe[i]
      /\ \A j \in 1 .. Len(Encoded(p)) : next[Len(pipe) + j] = Encoded(p)[j]
  BY <1>3
<1> HIDE DEF new, all, next
<1>7. \A i \in n .. m : at[i] <= Len(pipe)
  <2>1. ASSUME NEW i \in n .. m PROVE at[i] <= Len(pipe)
    <3>1. CASE i = m
      BY <3>1, <1>2
    <3>2. CASE i < m
      BY <3>2, <1>1, <1>2
    <3> QED BY <3>1, <3>2, <1>1
  <2> QED BY <2>1
<1>8. \A i, j \in n .. m + 1 : i < j => new[i] < new[j]
  <2>1. ASSUME NEW i \in n .. m + 1, NEW j \in n .. m + 1, i < j PROVE new[i] < new[j]
    <3>1. i \in n .. m /\ new[i] = at[i]
      BY <2>1, <1>1, <1>4
    <3>2. CASE j = m + 1
      <4>1. at[i] <= Len(pipe) /\ at[i] \in Int
        BY <3>1, <1>7
      <4> QED BY <4>1, <3>1, <3>2, <1>3, <1>4
    <3>3. CASE j <= m
      <4>1. j \in n .. m /\ new[j] = at[j]
        BY <3>3, <1>1, <1>4
      <4> QED BY <4>1, <2>1, <3>1, <1>2
    <3> QED BY <3>2, <3>3, <1>1
  <2> QED BY <2>1
<1>9. new[n] <= 0 /\ new[m + 1] = Len(next) /\ new[(m + 1) - 1] <= Len(pipe)
  <2>1. new[n] = at[n] /\ new[m] = at[m] /\ (m + 1) - 1 = m
    BY <1>1, <1>4
  <2>2. new[(m + 1) - 1] = Len(pipe)
    BY <2>1, <1>2
  <2> QED BY <2>1, <2>2, <1>2, <1>4, <1>6
<1>10. ASSUME NEW i \in n + 1 .. m + 1
       PROVE  /\ new[i] = new[i - 1] + Len(Encoded(all[i]))
              /\ \A j \in 1 .. Len(Encoded(all[i])) :
                    new[i - 1] + j >= 1 => next[new[i - 1] + j] = Encoded(all[i])[j]
  <2>1. CASE i = m + 1
    <3>1. i - 1 = m /\ all[i] = p
      BY <2>1, <1>1, <1>5
    <3>2. new[i - 1] = Len(pipe) /\ new[i] = Len(pipe) + Len(Encoded(p))
      BY <3>1, <2>1, <1>1, <1>2, <1>4
    <3> QED BY <3>1, <3>2, <1>6
  <2>2. CASE i <= m
    <3>1. i - 1 \in n .. m /\ i \in n .. m /\ i \in 1 .. m /\ packets[i] \in Payloads /\ all[i] = packets[i]
      BY <2>2, <1>1, <1>5
    <3>2. Len(Encoded(packets[i])) \in Nat
      BY <3>1, EncodedPacket
    <3>3. new[i] = at[i] /\ new[i - 1] = at[i - 1] /\ at[i] <= Len(pipe)
      BY <3>1, <1>4, <1>7
    <3>4. at[i] = at[i - 1] + Len(Encoded(packets[i]))
      BY <3>1, <1>2, <2>2
    <3>5. ASSUME NEW j \in 1 .. Len(Encoded(all[i])), new[i - 1] + j >= 1
          PROVE  next[new[i - 1] + j] = Encoded(all[i])[j]
      <4>1. at[i - 1] + j \in 1 .. Len(pipe)
        BY <3>1, <3>2, <3>3, <3>4, <3>5, <1>1
      <4>2. pipe[at[i - 1] + j] = Encoded(packets[i])[j]
        BY <4>1, <3>1, <3>5, <2>2, <1>2
      <4> QED BY <4>1, <4>2, <3>1, <3>3, <1>6
    <3> QED BY <3>1, <3>3, <3>4, <3>5
  <2> QED BY <2>1, <2>2, <1>1
<1>11. Cuts(new, n, all, next, Len(pipe))
  BY <1>1, <1>4, <1>5, <1>8, <1>9, <1>10 DEF Cuts
<1> QED BY <1>11 DEF new, all, next

(* The reader has returned a packet. *)
LEMMA CutsReturn ==
  ASSUME NEW n \in Nat, NEW packets \in Seq(Payloads), n < Len(packets),
         NEW pipe \in Seq(Byte), NEW front \in Nat,
         NEW at \in [n .. Len(packets) -> Int], Cuts(at, n, packets, pipe, front),
         at[n] + Len(Encoded(packets[n + 1])) = 0
  PROVE  Cuts([i \in n + 1 .. Len(packets) |-> at[i]], n + 1, packets, pipe, front) /\ at[n + 1] = 0
<1> DEFINE m == Len(packets)
           new == [i \in n + 1 .. m |-> at[i]]
<1>1. m \in Nat /\ n + 1 \in n + 1 .. m /\ m \in n + 1 .. m /\ (n + 1) - 1 = n
  OBVIOUS
<1>2. /\ at[m] = Len(pipe)
      /\ \A i, j \in n .. m : i < j => at[i] < at[j]
      /\ \A i \in n + 1 .. m : at[i] = at[i - 1] + Len(Encoded(packets[i]))
      /\ \A i \in n + 1 .. m : \A j \in 1 .. Len(Encoded(packets[i])) :
            at[i - 1] + j >= 1 => pipe[at[i - 1] + j] = Encoded(packets[i])[j]
      /\ n < m => at[m - 1] <= front
  BY DEF Cuts
<1>3. new \in [n + 1 .. m -> Int] /\ \A i \in n + 1 .. m : new[i] = at[i]
  OBVIOUS
<1>4. at[n + 1] = 0
  BY <1>1, <1>2
<1> HIDE DEF new
<1>5. \A i, j \in n + 1 .. m : i < j => new[i] < new[j]
  BY <1>2, <1>3
<1>6. \A i \in (n + 1) + 1 .. m : i \in n + 1 .. m /\ i - 1 \in n + 1 .. m
  BY <1>1
<1>7. new[n + 1] <= 0 /\ new[m] = Len(pipe) /\ (n + 1 < m => new[m - 1] <= front)
  <2>1. new[n + 1] = at[n + 1] /\ new[m] = at[m]
    BY <1>1, <1>3
  <2>2. n + 1 < m => m - 1 \in n + 1 .. m
    BY <1>1
  <2>3. n + 1 < m => new[m - 1] = at[m - 1]
    BY <2>2, <1>3
  <2> QED BY <2>1, <2>3, <1>1, <1>2, <1>4
<1>8. \A i \in (n + 1) + 1 .. m : new[i] = new[i - 1] + Len(Encoded(packets[i]))
  BY <1>2, <1>3, <1>6
<1>9. \A i \in (n + 1) + 1 .. m : \A j \in 1 .. Len(Encoded(packets[i])) :
         new[i - 1] + j >= 1 => pipe[new[i - 1] + j] = Encoded(packets[i])[j]
  BY <1>2, <1>3, <1>6
<1> QED BY <1>3, <1>4, <1>5, <1>7, <1>8, <1>9 DEF Cuts, new

-----------------------------------------------------------------------------
(* The buffers of the Write calls *)

LEMMA OneOrTwo ==
  ASSUME NEW n \in Nat, n # 0, n <= 2
  PROVE  n = 1 \/ n = 2
OBVIOUS

LEMMA TwoBuffers ==
  ASSUME NEW t \in Seq(Seq(Byte)), Len(t) <= 2, t # <<>>
  PROVE  /\ Len(t) = 1 \/ Len(t) = 2
         /\ 1 \in 1 .. Len(t) /\ t[1] \in Seq(Byte) /\ Head(t) = t[1]
         /\ Len(t) = 2 => t[2] \in Seq(Byte)
<1>1. Len(t) \in Nat /\ Len(t) # 0
  BY EmptySeq, LenProperties, Zenon
<1>2. Len(t) = 1 \/ Len(t) = 2
  BY <1>1, OneOrTwo, Zenon
<1>3. 1 \in 1 .. Len(t)
  BY <1>1
<1>4. t[1] \in Seq(Byte)
  BY <1>3, ElementOfSeq, Zenon
<1>5. ASSUME Len(t) = 2 PROVE t[2] \in Seq(Byte)
  BY <1>5
<1>6. Head(t) = t[1]
  <2>1. 1 \in 1 .. Len(t) /\ Len(t) \in 1 .. Len(t)
    BY <1>1
  <2>2. Head(SubSeq(t, 1, Len(t))) = t[1]
    BY <2>1, HeadTailOfSubSeq, Zenon
  <2>3. SubSeq(t, 1, Len(t)) = t
    BY SubSeqFull, Zenon
  <2> QED BY <2>2, <2>3, Zenon
<1> QED BY <1>2, <1>3, <1>4, <1>5, <1>6, Zenon

LEMMA RestType ==
  ASSUME NEW t \in Seq(Seq(Byte)), Len(t) <= 2
  PROVE  Rest(t) \in Seq(Byte)
<1>1. CASE t = <<>>
  BY <1>1, EmptySeq DEF Rest
<1>2. CASE t # <<>> /\ Len(t) = 1
  BY <1>2, TwoBuffers DEF Rest
<1>3. CASE t # <<>> /\ Len(t) = 2
  <2>1. t[1] \in Seq(Byte) /\ t[2] \in Seq(Byte)
    BY <1>3, TwoBuffers
  <2>2. t[1] \o t[2] \in Seq(Byte)
    BY <2>1, ConcatProperties
  <2> QED BY <2>2, <1>3 DEF Rest
<1> QED BY <1>1, <1>2, <1>3, TwoBuffers

LEMMA Associative ==
  ASSUME NEW x \in Seq(Byte), NEW y \in Seq(Byte), NEW z \in Seq(Byte)
  PROVE  (x \o y) \o z = x \o (y \o z)
BY ConcatAssociative

(* A chunk leaves the buffers and enters the stream: the pipe is what it was. *)
LEMMA RestChunk ==
  ASSUME NEW s \in Seq(Byte), NEW t \in Seq(Seq(Byte)), Len(t) <= 2, t # <<>>, NEW k \in 1 .. Len(Head(t)),
         NEW new, new = [t EXCEPT ![1] = SubSeq(@, k + 1, Len(@))]
  PROVE  /\ new \in Seq(Seq(Byte)) /\ Len(new) <= 2
         /\ s \o SubSeq(Head(t), 1, k) \in Seq(Byte)
         /\ Len(s \o SubSeq(Head(t), 1, k)) >= Len(s)
         /\ (s \o SubSeq(Head(t), 1, k)) \o Rest(new) = s \o Rest(t)
<1> DEFINE h == Head(t)
           a == SubSeq(h, 1, k)
           b == SubSeq(h, k + 1, Len(h))
<1>1. h \in Seq(Byte) /\ h = t[1] /\ k \in Nat /\ k <= Len(h) /\ k >= 1 /\ Len(h) \in Nat /\ (Len(t) = 1 \/ Len(t) = 2)
  BY TwoBuffers
<1>2. /\ a \in Seq(Byte) /\ Len(a) = k /\ b \in Seq(Byte)
  BY <1>1, SubSeqProperties, ElementOfSeq
<1>3. a \o b = h
  <2>1. 1 \in 1 .. Len(h) + 1 /\ k \in 1 - 1 .. Len(h) /\ Len(h) \in k .. Len(h)
    BY <1>1
  <2> HIDE DEF h
  <2>2. SubSeq(h, 1, k) \o SubSeq(h, k + 1, Len(h)) = SubSeq(h, 1, Len(h))
    BY <2>1, <1>1, ConcatAdjacentSubSeq
  <2> QED BY <2>2, <1>1, SubSeqFull
<1>4. new \in Seq(Seq(Byte)) /\ Len(new) = Len(t) /\ new[1] = b /\ (Len(t) = 2 => new[2] = t[2])
  <2>1. new = [t EXCEPT ![1] = b]
    BY <1>1
  <2>2. 1 \in 1 .. Len(t) /\ (Len(t) = 2 => 2 \in 1 .. Len(t))
    BY TwoBuffers
  <2> HIDE DEF b
  <2> QED BY <2>1, <2>2, <1>2, ExceptSeq
<1> HIDE DEF h, a, b
<1>5. s \o a \in Seq(Byte) /\ Len(s \o a) = Len(s) + k
  BY <1>2, ConcatProperties
<1>6. a \o Rest(new) = Rest(t) /\ Rest(new) \in Seq(Byte)
  <2>0. t # <<>> /\ new # <<>>
    BY <1>1, <1>4, EmptySeq
  <2>1. CASE Len(t) = 1
    <3>1. Rest(t) = h /\ Rest(new) = b
      BY <2>0, <2>1, <1>1, <1>4 DEF Rest
    <3> QED BY <3>1, <1>2, <1>3
  <2>2. CASE Len(t) = 2
    <3>1. t[2] \in Seq(Byte)
      BY <2>2, TwoBuffers
    <3>2. Rest(t) = h \o t[2] /\ Rest(new) = b \o t[2]
      <4>1. Len(new) = 2 /\ new[1] = b /\ new[2] = t[2] /\ t[1] = h /\ 2 # 1
        BY <2>2, <1>1, <1>4
      <4> QED BY <4>1, <2>0, <2>2, Zenon DEF Rest
    <3>3. a \o (b \o t[2]) = (a \o b) \o t[2]
      BY <3>1, <1>2, Associative, Zenon
    <3>4. b \o t[2] \in Seq(Byte)
      BY <3>1, <1>2, ConcatProperties
    <3> QED BY <3>2, <3>3, <3>4, <1>3
  <2> QED BY <2>1, <2>2, <1>1
<1>7. (s \o a) \o Rest(new) = s \o (a \o Rest(new))
  BY <1>2, <1>6, Associative, Zenon
<1>8. Len(s \o a) >= Len(s)
  BY <1>1, <1>5, LenProperties
<1> QED BY <1>4, <1>5, <1>6, <1>7, <1>8 DEF a, h

(* A Write call returns when its buffer is out. *)
LEMMA RestReturn ==
  ASSUME NEW t \in Seq(Seq(Byte)), Len(t) <= 2, t # <<>>, Head(t) = <<>>
  PROVE  Tail(t) \in Seq(Seq(Byte)) /\ Len(Tail(t)) <= 2 /\ Rest(Tail(t)) = Rest(t)
<1>1. /\ Tail(t) \in Seq(Seq(Byte)) /\ Len(Tail(t)) = Len(t) - 1
      /\ \A i \in 1 .. Len(Tail(t)) : Tail(t)[i] = t[i + 1]
  BY HeadTailProperties
<1>2. CASE Len(t) = 1
  <2>1. Tail(t) = <<>>
    <3>1. Len(Tail(t)) = 0
      BY <1>1, <1>2
    <3>2. Len(Tail(t)) \notin Nat \ {0}
      BY <3>1
    <3> QED BY <3>2, <1>1, EmptySeq, Zenon
  <2>2. t[1] = <<>>
    BY TwoBuffers, Zenon
  <2>3. Rest(t) = <<>> /\ Rest(Tail(t)) = <<>>
    BY <2>1, <2>2, <1>2, Zenon DEF Rest
  <2>4. Len(Tail(t)) <= 2
    <3>1. Len(Tail(t)) = 1 - 1
      BY <1>1, <1>2, Zenon
    <3>2. 1 - 1 <= 2
      OBVIOUS
    <3> QED BY <3>1, <3>2, Zenon
  <2> QED BY <2>3, <2>4, <1>1
<1>3. CASE Len(t) = 2
  <2>1. t[2] \in Seq(Byte) /\ t[1] = <<>>
    BY <1>3, TwoBuffers, Zenon
  <2>2. Len(Tail(t)) = 1 /\ Len(Tail(t)) <= 2
    <3>1. Len(Tail(t)) = 2 - 1
      BY <1>1, <1>3, Zenon
    <3>2. 2 - 1 = 1 /\ 1 <= 2
      OBVIOUS
    <3> QED BY <3>1, <3>2, Zenon
  <2>3. Tail(t)[1] = t[2]
    <3>1. 1 \in 1 .. 1 /\ 1 + 1 = 2
      OBVIOUS
    <3>2. Tail(t)[1] = t[1 + 1]
      BY <3>1, <2>2, <1>1, Zenon
    <3> QED BY <3>1, <3>2, Zenon
  <2>4. Tail(t) # <<>>
    <3>1. Len(<<>>) = 0 /\ 0 # 1
      BY EmptySeq
    <3> QED BY <3>1, <2>2, Zenon
  <2>5. <<>> \o t[2] = t[2]
    BY <2>1, ConcatEmptySeq, Zenon
  <2>6. Rest(t) = t[2]
    <3>1. 2 # 1
      OBVIOUS
    <3> QED BY <3>1, <2>1, <2>5, <1>3, Zenon DEF Rest
  <2>7. Rest(Tail(t)) = t[2]
    BY <2>2, <2>3, <2>4, Zenon DEF Rest
  <2> QED BY <2>2, <2>6, <2>7, <1>1, Zenon
<1> QED BY <1>2, <1>3, TwoBuffers

(* What the reader takes from the stream, it takes from the pipe. *)
LEMMA PipeDrops ==
  ASSUME NEW s \in Seq(Byte), NEW r \in Seq(Byte), NEW k \in 0 .. Len(s)
  PROVE  /\ SubSeq(s, k + 1, Len(s)) \in Seq(Byte)
         /\ Len(SubSeq(s, k + 1, Len(s))) = Len(s) - k
         /\ Drops(SubSeq(s, k + 1, Len(s)) \o r, s \o r, k)
<1> DEFINE u == SubSeq(s, k + 1, Len(s))
<1>1. k \in Nat /\ Len(s) \in Nat /\ k <= Len(s) /\ Len(r) \in Nat
  BY LenProperties
<1>2. /\ u \in Seq(Byte) /\ Len(u) = Len(s) - k
      /\ \A i \in 1 .. Len(s) - k : u[i] = s[i + k]
  <2>1. \A i \in k + 1 .. Len(s) : s[i] \in Byte
    BY <1>1, ElementOfSeq
  <2>2. /\ u \in Seq(Byte) /\ Len(u) = IF k + 1 <= Len(s) THEN Len(s) - (k + 1) + 1 ELSE 0
        /\ \A i \in 1 .. Len(s) - (k + 1) + 1 : u[i] = s[(k + 1) + i - 1]
    <3> HIDE DEF u
    <3>1. k + 1 \in Int /\ Len(s) \in Int
      BY <1>1
    <3> QED BY <2>1, <3>1, SubSeqProperties DEF u
  <2> HIDE DEF u
  <2>3. ASSUME NEW i \in 1 .. Len(s) - k PROVE u[i] = s[i + k]
    <3>1. i \in 1 .. Len(s) - (k + 1) + 1 /\ (k + 1) + i - 1 = i + k
      BY <1>1
    <3> QED BY <3>1, <2>2
  <2> QED BY <1>1, <2>2, <2>3
<1> HIDE DEF u
<1>3. /\ u \o r \in Seq(Byte) /\ Len(u \o r) = Len(u) + Len(r)
      /\ \A i \in 1 .. Len(u) + Len(r) : (u \o r)[i] = IF i <= Len(u) THEN u[i] ELSE r[i - Len(u)]
  BY <1>2, ConcatProperties
<1>4. /\ Len(s \o r) = Len(s) + Len(r)
      /\ \A i \in 1 .. Len(s) + Len(r) : (s \o r)[i] = IF i <= Len(s) THEN s[i] ELSE r[i - Len(s)]
  BY ConcatProperties
<1>5. ASSUME NEW i \in 1 .. Len(u \o r) PROVE (u \o r)[i] = (s \o r)[i + k]
  <2>1. i + k \in 1 .. Len(s) + Len(r) /\ i \in 1 .. Len(u) + Len(r) /\ (i + k) - Len(s) = i - Len(u)
    BY <1>1, <1>2, <1>3
  <2>2. CASE i <= Len(u)
    <3>1. i \in 1 .. Len(s) - k /\ i + k <= Len(s)
      BY <2>1, <2>2, <1>1, <1>2
    <3> QED BY <3>1, <2>1, <2>2, <1>2, <1>3, <1>4
  <2>3. CASE ~(i <= Len(u))
    <3>1. ~(i + k <= Len(s))
      BY <2>3, <1>1, <1>2
    <3> QED BY <3>1, <2>1, <2>3, <1>3, <1>4
  <2> QED BY <2>2, <2>3
<1>6. Drops(u \o r, s \o r, k)
  BY <1>1, <1>2, <1>3, <1>4, <1>5 DEF Drops
<1> QED BY <1>2, <1>6 DEF u

-----------------------------------------------------------------------------
(* The invariant holds at first, and every step keeps it *)

LEMMA IInvInit == Init => IInv
<1> SUFFICES ASSUME Init PROVE IInv
  OBVIOUS
<1>1. /\ muHolder = NoWriter /\ todo = <<>> /\ written = <<>> /\ stream = <<>> /\ open = TRUE
      /\ builder = NewVarintBuilder /\ packet = <<>> /\ missing = 0
      /\ outcome = "reading" /\ received = <<>>
  BY DEF Init
<1>2. TypeOK
  BY <1>1 DEF TypeOK
<1>3. Ended
  BY <1>1 DEF Ended
<1>4. Len(received) = 0 /\ Len(written) = 0 /\ Len(stream) = 0
  BY <1>1
<1>5. PacketsWhole
  BY <1>1 DEF PacketsWhole
<1>6. Pipe = <<>>
  <2>1. <<>> \in Seq(Byte)
    BY EmptySeq
  <2>2. <<>> \o <<>> = <<>>
    BY <2>1, ConcatEmptySeq
  <2>3. Rest(todo) = <<>>
    BY <1>1 DEF Rest
  <2> QED BY <2>2, <2>3, <1>1 DEF Pipe
<1>7. Located
  <2> DEFINE at == [i \in 0 .. 0 |-> 0]
  <2>1. at \in [0 .. 0 -> Int] /\ at[0] = 0
    OBVIOUS
  <2> HIDE DEF at
  <2>2. Cuts(at, 0, <<>>, <<>>, 0)
    <3>1. Len(<<>>) = 0
      BY EmptySeq
    <3>2. \A i, j \in 0 .. 0 : ~(i < j)
      OBVIOUS
    <3>3. \A i \in 0 + 1 .. 0 : FALSE
      OBVIOUS
    <3> QED BY <2>1, <3>1, <3>2, <3>3 DEF Cuts
  <2>3. Position(-at[0], 0, written, builder, packet, missing)
    BY <2>1, <1>1, <1>4 DEF Position
  <2> QED BY <2>1, <2>2, <2>3, <1>1, <1>4, <1>6 DEF Located
<1> QED BY <1>1, <1>2, <1>3, <1>4, <1>5, <1>7 DEF IInv

LEMMA PipeType ==
  ASSUME TypeOK
  PROVE  /\ Rest(todo) \in Seq(Byte) /\ Pipe \in Seq(Byte)
         /\ Len(stream) \in Nat /\ Len(Pipe) \in Nat /\ Len(stream) <= Len(Pipe)
         /\ \A k \in 1 .. Len(stream) : Pipe[k] = stream[k]
<1>1. stream \in Seq(Byte) /\ todo \in Seq(Seq(Byte)) /\ Len(todo) <= 2
  BY DEF TypeOK
<1>2. Rest(todo) \in Seq(Byte)
  BY <1>1, RestType
<1>3. /\ Pipe \in Seq(Byte) /\ Len(Pipe) = Len(stream) + Len(Rest(todo))
      /\ \A k \in 1 .. Len(stream) + Len(Rest(todo)) :
           Pipe[k] = IF k <= Len(stream) THEN stream[k] ELSE Rest(todo)[k - Len(stream)]
  BY <1>1, <1>2, ConcatProperties DEF Pipe
<1>4. Len(stream) \in Nat /\ Len(Rest(todo)) \in Nat
  BY <1>1, <1>2, LenProperties
<1> QED BY <1>2, <1>3, <1>4

(* A step of the writer that begins no packet, or the end of either process. *)
LEMMA WriterMoves ==
  ASSUME IInv, TypeOK', muHolder' = NoWriter => todo' = <<>>, Ended',
         UNCHANGED <<builder, packet, missing, received, written>>,
         Pipe' = Pipe, Len(stream') >= Len(stream)
  PROVE  IInv'
<1> DEFINE n == Len(received)
           m == Len(written)
<1>1. PICK at \in [n .. m -> Int] :
        /\ Cuts(at, n, written, Pipe, Len(stream))
        /\ Position(-at[n], n, written, builder, packet, missing)
  BY DEF IInv, Located
<1>2. n \in Nat /\ m \in Nat /\ n <= m
  BY DEF IInv, TypeOK
<1>3. Len(stream) \in Nat /\ Len(stream') \in Nat
  BY DEF IInv, TypeOK
<1>4. Cuts(at, n, written, Pipe, Len(stream'))
  <2>1. n < m => at[m - 1] <= Len(stream)
    BY <1>1 DEF Cuts
  <2>2. n < m => at[m - 1] <= Len(stream')
    <3>1. SUFFICES ASSUME n < m PROVE at[m - 1] <= Len(stream')
      OBVIOUS
    <3>2. at[m - 1] \in Int
      BY <3>1, <1>2
    <3> QED BY <2>1, <3>1, <3>2, <1>3
  <2> QED BY <1>1, <2>2 DEF Cuts
<1>5. Located'
  BY <1>1, <1>4 DEF Located
<1>6. PacketsWhole' /\ Len(received') <= Len(written')
  BY DEF IInv, PacketsWhole
<1> QED BY <1>5, <1>6 DEF IInv

LEMMA IInvChunk ==
  ASSUME IInv, NEW w \in Writers, todo # <<>>, NEW k \in 1 .. Len(Head(todo)), WriteChunk(w, k)
  PROVE  IInv'
<1>1. /\ open /\ muHolder = w
      /\ stream' = stream \o SubSeq(Head(todo), 1, k)
      /\ todo' = [todo EXCEPT ![1] = SubSeq(@, k + 1, Len(@))]
      /\ UNCHANGED <<muHolder, written, open, readVars>>
  BY DEF WriteChunk
<1>2. /\ stream \in Seq(Byte) /\ todo \in Seq(Seq(Byte)) /\ Len(todo) <= 2
  BY DEF IInv, TypeOK
<1>3. /\ todo' \in Seq(Seq(Byte)) /\ Len(todo') <= 2
      /\ stream' \in Seq(Byte) /\ Len(stream') >= Len(stream)
      /\ Pipe' = Pipe
  BY <1>1, <1>2, RestChunk DEF Pipe
<1>4. TypeOK'
  BY <1>1, <1>3 DEF IInv, TypeOK, readVars
<1>5. muHolder' # NoWriter
  BY <1>1, StreamConstants
<1>6. outcome' = "reading"
  BY <1>1 DEF IInv, Ended, TypeOK, readVars
<1>7. Ended'
  BY <1>6 DEF Ended
<1> QED BY <1>1, <1>3, <1>4, <1>5, <1>7, WriterMoves DEF readVars

LEMMA IInvWriteReturns ==
  ASSUME IInv, NEW w \in Writers, WriteReturns(w)
  PROVE  IInv'
<1>1. /\ open /\ muHolder = w
      /\ todo # <<>> /\ Head(todo) = <<>> /\ todo' = Tail(todo)
      /\ UNCHANGED <<muHolder, written, stream, open, readVars>>
  BY DEF WriteReturns
<1>2. /\ stream \in Seq(Byte) /\ todo \in Seq(Seq(Byte)) /\ Len(todo) <= 2 /\ Len(stream) \in Nat
  BY DEF IInv, TypeOK
<1>3. /\ todo' \in Seq(Seq(Byte)) /\ Len(todo') <= 2 /\ Rest(todo') = Rest(todo)
  BY <1>1, <1>2, RestReturn
<1>4. Pipe' = Pipe /\ Len(stream') >= Len(stream)
  BY <1>1, <1>2, <1>3 DEF Pipe
<1>5. TypeOK'
  BY <1>1, <1>3 DEF IInv, TypeOK, readVars
<1>6. muHolder' # NoWriter
  BY <1>1, StreamConstants
<1>7. outcome' = "reading"
  BY <1>1 DEF IInv, Ended, TypeOK, readVars
<1>8. Ended'
  BY <1>7 DEF Ended
<1> QED BY <1>1, <1>4, <1>5, <1>6, <1>8, WriterMoves DEF readVars

(* The steps that move no byte. *)
LEMMA IInvStill ==
  ASSUME IInv, \/ \E w \in Writers : EndWrite(w)
               \/ WriterEnds
               \/ ReadEnds
               \/ UNCHANGED vars
  PROVE  IInv'
<1>1. /\ todo' = todo /\ stream' = stream /\ written' = written
      /\ builder' = builder /\ packet' = packet /\ missing' = missing /\ received' = received
  BY DEF EndWrite, WriterEnds, ReadEnds, writeVars, readVars, vars
<1>2. TypeOK' /\ (muHolder' = NoWriter => todo' = <<>>)
  BY <1>1 DEF IInv, TypeOK, EndWrite, WriterEnds, ReadEnds, writeVars, readVars, vars
<1>3. Ended'
  <2>1. CASE (\E w \in Writers : EndWrite(w)) \/ WriterEnds
    <3>1. outcome' = "reading"
      BY <2>1 DEF IInv, Ended, TypeOK, EndWrite, WriterEnds, readVars
    <3> QED BY <3>1 DEF Ended
  <2>2. CASE ReadEnds
    <3>1. /\ stream' = <<>> /\ ~open'
          /\ ~builder'.done \/ missing' > 0
          /\ outcome' = "eof" <=> packet' = <<>>
      BY <2>2, <1>1 DEF ReadEnds
    <3> QED BY <3>1 DEF Ended
  <2>3. CASE UNCHANGED vars
    BY <2>3 DEF IInv, Ended, vars, writeVars, readVars
  <2> QED BY <2>1, <2>2, <2>3
<1>4. Pipe' = Pipe
  BY <1>1 DEF Pipe
<1>5. Len(stream') >= Len(stream)
  <2>1. Len(stream) \in Nat
    BY DEF IInv, TypeOK
  <2> QED BY <2>1, <1>1
<1> QED BY <1>1, <1>2, <1>3, <1>4, <1>5, WriterMoves

LEMMA IInvBegin ==
  ASSUME IInv, NEW w \in Writers, NEW p \in Payloads, BeginWrite(w, p)
  PROVE  IInv'
<1> DEFINE n == Len(received)
           m == Len(written)
<1>1. /\ open /\ muHolder = NoWriter /\ muHolder' = w
      /\ todo' = <<EncodeVarint(Len(p) % 2^WordBits), p>>
      /\ written' = Append(written, p)
      /\ stream' = stream /\ open' = open
      /\ builder' = builder /\ packet' = packet /\ missing' = missing
      /\ outcome' = outcome /\ received' = received
  BY DEF BeginWrite, readVars
<1>2. /\ n \in Nat /\ m \in Nat /\ n <= m /\ todo = <<>>
      /\ written \in Seq(Payloads) /\ received \in Seq(Seq(Byte))
  BY <1>1 DEF IInv, TypeOK
<1>3. stream \in Seq(Byte) /\ TypeOK /\ p \in Seq(Byte)
  BY EncodedPacket DEF IInv, TypeOK
<1>4. PICK at \in [n .. m -> Int] :
        /\ Cuts(at, n, written, Pipe, Len(stream))
        /\ Position(-at[n], n, written, builder, packet, missing)
  BY DEF IInv, Located
<1>5. Pipe = stream
  <2>1. Rest(todo) = <<>>
    BY <1>2 DEF Rest
  <2>2. stream \o <<>> = stream
    BY <1>3, ConcatEmptySeq
  <2> QED BY <2>1, <2>2 DEF Pipe
<1>6. todo' = <<EncodeVarint(Len(p)), p>> /\ EncodeVarint(Len(p)) \in Seq(Byte)
  BY <1>1, EncodedPacket, EncodedByte
<1>7. Pipe' = stream \o Encoded(p)
  <2> DEFINE E == EncodeVarint(Len(p))
  <2>1. Len(<<E, p>>) = 2 /\ <<E, p>>[1] = E /\ <<E, p>>[2] = p /\ <<E, p>> # <<>>
    OBVIOUS
  <2>2. Rest(<<E, p>>) = E \o p
    <3> HIDE DEF E
    <3>1. 2 # 1
      OBVIOUS
    <3> QED BY <2>1, <3>1, Zenon DEF Rest
  <2> QED BY <2>2, <1>1, <1>6 DEF Pipe, Encoded
<1>8. written' \in Seq(Payloads) /\ Len(written') = m + 1 /\ written'[m + 1] = p
      /\ \A i \in 1 .. m : written'[i] = written[i]
  BY <1>1, <1>2, AppendProperties
<1>9. TypeOK'
  <2>1. todo' \in Seq(Seq(Byte)) /\ Len(todo') <= 2
    BY <1>3, <1>6
  <2> QED BY <2>1, <1>1, <1>3, <1>8 DEF TypeOK
<1>10. muHolder' # NoWriter
  BY <1>1, StreamConstants
<1>11. Ended'
  <2>1. outcome' = "reading"
    BY <1>1 DEF IInv, Ended, TypeOK
  <2> QED BY <2>1 DEF Ended
<1>12. PacketsWhole'
  <2>1. received = SubSeq(written, 1, n)
    BY DEF IInv, PacketsWhole
  <2>2. SubSeq(Append(written, p), 1, n) = SubSeq(written, 1, n)
    BY <1>2
  <2> QED BY <2>1, <2>2, <1>1 DEF PacketsWhole
<1>13. Located'
  <2> DEFINE new == [i \in n .. m + 1 |-> IF i <= m THEN at[i] ELSE Len(stream) + Len(Encoded(p))]
  <2>1. Cuts(new, n, written', Pipe', Len(stream'))
    BY <1>1, <1>2, <1>3, <1>4, <1>5, <1>7, CutsBegin
  <2>2. new \in [n .. m + 1 -> Int] /\ new[n] = at[n]
    <3>1. Len(stream) + Len(Encoded(p)) \in Int
      BY <1>3, EncodedPacket
    <3> QED BY <3>1, <1>2
  <2> HIDE DEF new
  <2>3. Position(-at[n], n, written', builder', packet', missing')
    <3>1. CASE n = m
      <4>1. -at[n] = 0 /\ builder = NewVarintBuilder /\ packet = <<>> /\ missing = 0
        BY <3>1, <1>4 DEF Position
      <4>2. /\ Len(p) \in Nat /\ HeaderLength(Len(p)) \in Nat \ {0}
            /\ NewVarintBuilder = After(Len(p), 0)
        BY EncodedPacket, AfterNone
      <4>3. written'[n + 1] = p /\ n # Len(written')
        BY <3>1, <1>2, <1>8
      <4>4. 0 < HeaderLength(Len(p)) /\ 0 <= HeaderLength(Len(p)) + Len(p)
        BY <4>2
      <4> QED BY <4>1, <4>2, <4>3, <4>4, <1>1 DEF Position
    <3>2. CASE n < m
      <4>1. n + 1 \in 1 .. m /\ n # m /\ n # m + 1
        BY <3>2, <1>2
      <4>2. written'[n + 1] = written[n + 1] /\ n # Len(written')
        BY <4>1, <1>8
      <4> QED BY <4>1, <4>2, <1>1, <1>4 DEF Position
    <3> QED BY <3>1, <3>2, <1>2
  <2> QED BY <2>1, <2>2, <2>3, <1>1, <1>8 DEF Located
<1>14. Len(received') <= Len(written')
  BY <1>1, <1>2, <1>8
<1> QED BY <1>9, <1>10, <1>11, <1>12, <1>13, <1>14 DEF IInv

(* Where the packet that is arriving stands: the reader is inside the first packet
   that was not returned, and the next bytes of the stream are its own. *)
LEMMA UnderWay ==
  ASSUME IInv, stream # <<>> \/ builder.done
  PROVE  LET n == Len(received)
             m == Len(written)
             p == written[n + 1]
             h == HeaderLength(Len(p))
         IN  /\ n \in Nat /\ m \in Nat /\ n < m /\ p \in Payloads
             /\ \E at \in [n .. m -> Int], c \in Nat :
                  /\ Cuts(at, n, written, Pipe, Len(stream)) /\ c = -at[n]
                  /\ c <= h + Len(p)
                  /\ ~builder.done => c < h
                  /\ builder.done => c >= h
                  /\ c < h => builder = After(Len(p), c) /\ packet = <<>> /\ missing = 0
                  /\ c >= h => /\ builder = After(Len(p), h)
                               /\ packet = SubSeq(p, 1, c - h)
                               /\ missing = h + Len(p) - c
                  /\ \A k \in 1 .. Len(stream) :
                       c + k <= h + Len(p) => stream[k] = Encoded(p)[c + k]
<1> DEFINE n == Len(received)
           m == Len(written)
           p == written[n + 1]
           h == HeaderLength(Len(p))
<1>1. /\ n \in Nat /\ m \in Nat /\ n <= m /\ TypeOK
      /\ stream \in Seq(Byte) /\ written \in Seq(Payloads)
  BY DEF IInv, TypeOK
<1>2. PICK at \in [n .. m -> Int] :
        /\ Cuts(at, n, written, Pipe, Len(stream))
        /\ Position(-at[n], n, written, builder, packet, missing)
  BY DEF IInv, Located
<1>3. at[n] \in Int /\ at[n] <= 0 /\ at[m] = Len(Pipe)
  BY <1>1, <1>2 DEF Cuts
<1>4. n < m
  <2>1. SUFFICES ASSUME n = m PROVE FALSE
    BY <1>1
  <2>2. -at[n] = 0 /\ builder = NewVarintBuilder
    BY <2>1, <1>2 DEF Position
  <2>3. Len(Pipe) = 0
    BY <2>1, <2>2, <1>3
  <2>4. ~builder.done
    BY <2>2 DEF NewVarintBuilder
  <2>5. Len(stream) = 0
    BY <2>3, <1>1, PipeType
  <2>6. Len(stream) # 0
    BY <2>4, <1>1, EmptySeq
  <2> QED BY <2>5, <2>6
<1>5. p \in Payloads
  BY <1>1, <1>4
<1>6. /\ Len(p) \in Nat /\ h \in Nat \ {0}
      /\ Len(Encoded(p)) = h + Len(p)
  BY <1>5, EncodedPacket
<1>7. PICK c \in Nat : c = -at[n]
  BY <1>3
<1> HIDE DEF p, h
<1>8. /\ c <= h + Len(p)
      /\ c < h => builder = After(Len(p), c) /\ packet = <<>> /\ missing = 0
      /\ c >= h => /\ builder = After(Len(p), h)
                   /\ packet = SubSeq(p, 1, c - h)
                   /\ missing = h + Len(p) - c
  <2>1. n # Len(written)
    BY <1>1, <1>4
  <2> QED BY <2>1, <1>2, <1>7 DEF Position, p, h
<1>9. (~builder.done => c < h) /\ (builder.done => c >= h)
  <2>1. CASE c < h
    <3>1. After(Len(p), c).done = (c = h)
      BY DEF After, h
    <3>2. c # h /\ ~(c >= h)
      BY <2>1, <1>6
    <3>3. ~builder.done
      BY <2>1, <3>1, <3>2, <1>8, Zenon
    <3> QED BY <2>1, <3>3, Zenon
  <2>2. CASE c >= h
    <3>1. After(Len(p), h).done
      BY <1>6, AfterAll DEF h
    <3> QED BY <2>2, <3>1, <1>6, <1>8
  <2> QED BY <2>1, <2>2, <1>6
<1>10. ASSUME NEW k \in 1 .. Len(stream), c + k <= h + Len(p)
       PROVE  stream[k] = Encoded(p)[c + k]
  <2>1. stream[k] = Pipe[k]
    BY <1>1, PipeType
  <2>2. Len(stream) \in Nat
    BY <1>1
  <2>3. c + k \in 1 .. Len(Encoded(p)) /\ at[n] + (c + k) = k /\ k >= 1
    BY <2>2, <1>3, <1>6, <1>7, <1>10
  <2>4. n + 1 \in n + 1 .. m /\ (n + 1) - 1 = n
    BY <1>1, <1>4
  <2>5. \A i \in n + 1 .. m : \A j \in 1 .. Len(Encoded(written[i])) :
           at[i - 1] + j >= 1 => Pipe[at[i - 1] + j] = Encoded(written[i])[j]
    BY <1>2 DEF Cuts
  <2>6. \A j \in 1 .. Len(Encoded(p)) : at[n] + j >= 1 => Pipe[at[n] + j] = Encoded(p)[j]
    <3>1. \A j \in 1 .. Len(Encoded(written[n + 1])) :
             at[(n + 1) - 1] + j >= 1 => Pipe[at[(n + 1) - 1] + j] = Encoded(written[n + 1])[j]
      BY <2>4, <2>5
    <3> QED BY <3>1, <2>4 DEF p
  <2>7. Pipe[at[n] + (c + k)] = Encoded(p)[c + k]
    BY <2>3, <2>6
  <2> QED BY <2>1, <2>3, <2>7
<1> QED BY <1>1, <1>2, <1>4, <1>5, <1>7, <1>8, <1>9, <1>10 DEF p, h

(* The reader takes k bytes from the stream. *)
LEMMA ReaderMoves ==
  ASSUME IInv, TypeOK',
         NEW at \in [Len(received) .. Len(written) -> Int],
         Cuts(at, Len(received), written, Pipe, Len(stream)),
         NEW k \in 0 .. Len(stream),
         stream' = SubSeq(stream, k + 1, Len(stream)),
         UNCHANGED <<muHolder, todo, written, received>>,
         Position(-at[Len(received)] + k, Len(received), written, builder', packet', missing'),
         outcome' = "reading"
  PROVE  IInv'
<1> DEFINE n == Len(received)
           m == Len(written)
           new == [i \in n .. m |-> at[i] - k]
<1>1. /\ n \in Nat /\ m \in Nat /\ n <= m /\ TypeOK
      /\ stream \in Seq(Byte) /\ written \in Seq(Payloads) /\ Len(stream) \in Nat
  BY DEF IInv, TypeOK
<1>2. k \in Nat /\ k <= Len(stream)
  BY <1>1
<1>3. /\ Pipe \in Seq(Byte) /\ Rest(todo) \in Seq(Byte) /\ Len(stream) <= Len(Pipe)
  BY <1>1, PipeType
<1>4. Len(stream') = Len(stream) - k /\ Drops(Pipe', Pipe, k)
  <2>1. /\ Len(SubSeq(stream, k + 1, Len(stream))) = Len(stream) - k
        /\ Drops(SubSeq(stream, k + 1, Len(stream)) \o Rest(todo), stream \o Rest(todo), k)
    BY <1>1, <1>3, PipeDrops
  <2> QED BY <2>1 DEF Pipe
<1>5. Pipe' \in Seq(Byte)
  <2>1. stream' \in Seq(Byte) /\ todo' \in Seq(Seq(Byte)) /\ Len(todo') <= 2
    BY DEF TypeOK
  <2>2. Rest(todo') \in Seq(Byte)
    BY <2>1, RestType
  <2> QED BY <2>1, <2>2, ConcatProperties DEF Pipe
<1>6. Cuts(new, n, written, Pipe', Len(stream) - k)
  BY <1>1, <1>2, <1>3, <1>4, <1>5, CutsAdvance
<1>7. new \in [n .. m -> Int] /\ -new[n] = -at[n] + k
  <2>1. at[n] \in Int /\ n \in n .. m
    BY <1>1
  <2>2. new[n] = at[n] - k
    BY <2>1
  <2>3. \A i \in n .. m : at[i] - k \in Int
    BY <1>2
  <2> QED BY <2>1, <2>2, <2>3, <1>2
<1> HIDE DEF new
<1>8. Located'
  BY <1>4, <1>6, <1>7 DEF Located
<1>9. Ended' /\ PacketsWhole' /\ Len(received') <= Len(written') /\ (muHolder' = NoWriter => todo' = <<>>)
  BY DEF IInv, Ended, PacketsWhole
<1> QED BY <1>8, <1>9 DEF IInv

LEMMA IInvLengthByte ==
  ASSUME IInv, ReadLengthByte
  PROVE  IInv'
<1> DEFINE n == Len(received)
           m == Len(written)
           p == written[n + 1]
           h == HeaderLength(Len(p))
<1>1. /\ ~builder.done /\ stream # <<>> /\ stream' = Tail(stream)
      /\ builder' = Add(builder, Head(stream), MaxLength)
      /\ missing' = IF builder'.verdict = "value" THEN builder'.value ELSE 0
      /\ outcome' = IF builder'.verdict = "error" THEN "badLength" ELSE "reading"
      /\ muHolder' = muHolder /\ todo' = todo /\ written' = written
      /\ open' = open /\ packet' = packet /\ received' = received
  BY DEF ReadLengthByte, writeVars
<1>2. TypeOK /\ stream \in Seq(Byte)
  BY DEF IInv, TypeOK
<1>3. n \in Nat /\ m \in Nat /\ n < m /\ p \in Payloads
  BY <1>1, UnderWay
<1>4. PICK at \in [n .. m -> Int], c \in Nat :
        /\ Cuts(at, n, written, Pipe, Len(stream)) /\ c = -at[n]
        /\ c <= h + Len(p)
        /\ c < h
        /\ builder = After(Len(p), c) /\ packet = <<>> /\ missing = 0
        /\ \A k \in 1 .. Len(stream) : c + k <= h + Len(p) => stream[k] = Encoded(p)[c + k]
  BY <1>1, UnderWay
<1> HIDE DEF p, h
<1>5. /\ p \in Seq(Byte) /\ Len(p) \in Nat /\ Len(p) < 2^MaxLength /\ h \in Nat \ {0}
      /\ \A j \in 1 .. h : Encoded(p)[j] = EncodeVarint(Len(p))[j]
  BY <1>3, EncodedPacket DEF h
<1>6. /\ 1 \in 1 .. Len(stream) /\ Len(stream) \in Nat /\ stream[1] = Head(stream)
      /\ Tail(stream) \in Seq(Byte) /\ Tail(stream) = SubSeq(stream, 1 + 1, Len(stream))
  <2>1. Len(stream) \in Nat \ {0}
    BY <1>1, <1>2, EmptySeq, Zenon
  <2>2. 1 \in 1 .. Len(stream) /\ Len(stream) \in 1 .. Len(stream)
    BY <2>1
  <2>3. Head(SubSeq(stream, 1, Len(stream))) = stream[1]
    BY <2>2, <1>2, HeadTailOfSubSeq, Zenon
  <2>4. SubSeq(stream, 1, Len(stream)) = stream
    BY <1>2, SubSeqFull, Zenon
  <2>5. Tail(stream) \in Seq(Byte) /\ Tail(stream) = SubSeq(stream, 2, Len(stream)) /\ 1 + 1 = 2
    BY <1>1, <1>2, HeadTailProperties, TailIsSubSeq
  <2> QED BY <2>1, <2>2, <2>3, <2>4, <2>5
<1>7. Head(stream) = EncodeVarint(Len(p))[c + 1]
  <2>1. c + 1 <= h + Len(p) /\ c + 1 \in 1 .. h
    BY <1>4, <1>5
  <2>2. stream[1] = Encoded(p)[c + 1]
    BY <2>1, <1>4, <1>6
  <2> QED BY <2>1, <2>2, <1>5, <1>6
<1>8. builder' = After(Len(p), c + 1)
  <2>1. MaxLength \in Nat
    BY StreamConstants
  <2>2. Add(After(Len(p), c), EncodeVarint(Len(p))[c + 1], MaxLength) = After(Len(p), c + 1)
    BY <2>1, <1>4, <1>5, AddsNext DEF h
  <2> QED BY <2>2, <1>1, <1>4, <1>7
<1>9. builder'.verdict = IF c + 1 = h THEN "value" ELSE "more"
  BY <1>8 DEF After, h
<1>10. outcome' = "reading"
  BY <1>1, <1>9
<1>11. missing' \in Nat /\ Position(c + 1, n, written, builder', packet', missing')
  <2>1. c + 1 <= h + Len(p) /\ n # m
    BY <1>3, <1>4, <1>5
  <2>2. CASE c + 1 = h
    <3>1. builder' = After(Len(p), h) /\ missing' = Len(p)
      BY <1>1, <1>5, <1>8, <1>9, <2>2, AfterAll DEF h
    <3>2. ~(c + 1 < h) /\ (c + 1) - h = 0 /\ h + Len(p) - (c + 1) = Len(p)
      BY <1>5, <2>2
    <3>3. SubSeq(p, 1, (c + 1) - h) = <<>>
      BY <3>2
    <3> QED BY <2>1, <3>1, <3>2, <3>3, <1>1, <1>4, <1>5 DEF Position, p, h
  <2>3. CASE c + 1 < h
    <3>1. builder'.verdict = "more" /\ ~(c + 1 >= h)
      BY <2>3, <1>5, <1>9
    <3>2. missing' = 0
      BY <3>1, <1>1
    <3> QED BY <2>1, <2>3, <3>1, <3>2, <1>1, <1>4, <1>8 DEF Position, p, h
  <2> QED BY <2>2, <2>3, <1>4, <1>5
<1>12. TypeOK'
  BY <1>1, <1>2, <1>6, <1>10, <1>11 DEF TypeOK
<1>13. Position(-at[n] + 1, n, written, builder', packet', missing')
  BY <1>4, <1>11
<1>14. 1 \in 0 .. Len(stream) /\ stream' = SubSeq(stream, 1 + 1, Len(stream))
  BY <1>1, <1>6
<1> QED BY <1>1, <1>4, <1>10, <1>12, <1>13, <1>14, ReaderMoves

LEMMA IInvReadChunk ==
  ASSUME IInv, NEW k \in 1 .. missing, ReadChunk(k)
  PROVE  IInv'
<1> DEFINE n == Len(received)
           m == Len(written)
           p == written[n + 1]
           h == HeaderLength(Len(p))
           bytes == SubSeq(stream, 1, k)
<1>1. /\ outcome = "reading" /\ builder.done /\ k <= Len(stream)
      /\ packet' = packet \o bytes /\ missing' = missing - k
      /\ stream' = SubSeq(stream, k + 1, Len(stream))
      /\ muHolder' = muHolder /\ todo' = todo /\ written' = written
      /\ open' = open /\ builder' = builder /\ outcome' = outcome /\ received' = received
  BY DEF ReadChunk, writeVars
<1>2. TypeOK /\ stream \in Seq(Byte) /\ missing \in Nat /\ Len(stream) \in Nat /\ packet \in Seq(Byte)
  BY DEF IInv, TypeOK
<1>3. n \in Nat /\ m \in Nat /\ n < m /\ p \in Payloads
  BY <1>1, UnderWay
<1>4. PICK at \in [n .. m -> Int], c \in Nat :
        /\ Cuts(at, n, written, Pipe, Len(stream)) /\ c = -at[n]
        /\ c <= h + Len(p)
        /\ c >= h
        /\ builder = After(Len(p), h) /\ packet = SubSeq(p, 1, c - h) /\ missing = h + Len(p) - c
        /\ \A j \in 1 .. Len(stream) : c + j <= h + Len(p) => stream[j] = Encoded(p)[c + j]
  BY <1>1, UnderWay
<1> HIDE DEF p, h
<1>5. /\ p \in Seq(Byte) /\ Len(p) \in Nat /\ h \in Nat \ {0}
      /\ \A j \in 1 .. Len(p) : Encoded(p)[h + j] = p[j]
  BY <1>3, EncodedPacket DEF h
<1>0. /\ c \in Nat /\ c >= h /\ missing = h + Len(p) - c /\ k <= Len(stream) /\ missing' = missing - k
      /\ Len(p) \in Nat /\ h \in Nat /\ missing \in Nat /\ Len(stream) \in Nat
  BY <1>1, <1>2, <1>4, <1>5
<1>6. k \in Nat /\ k >= 1 /\ c - h \in Nat /\ (c - h) + k <= Len(p)
  BY <1>0
<1>7. bytes \in Seq(Byte) /\ Len(bytes) = k /\ \A i \in 1 .. k : bytes[i] = stream[i]
  BY <1>0, <1>2, <1>6
<1>8. LET new == SubSeq(p, (c - h) + 1, (c - h) + k)
      IN  new \in Seq(Byte) /\ Len(new) = k /\ \A i \in 1 .. k : new[i] = p[(c - h) + i]
  BY <1>5, <1>6
<1> HIDE DEF bytes
<1>9. bytes = SubSeq(p, (c - h) + 1, (c - h) + k)
  <2>1. ASSUME NEW i \in 1 .. k PROVE bytes[i] = p[(c - h) + i]
    <3>1. i \in 1 .. Len(stream) /\ c + i <= h + Len(p)
      BY <1>0, <1>6
    <3>2. (c - h) + i \in 1 .. Len(p) /\ h + ((c - h) + i) = c + i
      BY <1>0, <1>6
    <3>3. stream[i] = Encoded(p)[c + i]
      BY <3>1, <1>4
    <3>4. Encoded(p)[h + ((c - h) + i)] = p[(c - h) + i]
      BY <3>2, <1>5
    <3> QED BY <3>2, <3>3, <3>4, <1>7
  <2> DEFINE new == SubSeq(p, (c - h) + 1, (c - h) + k)
  <2>2. new \in Seq(Byte) /\ Len(new) = k /\ \A i \in 1 .. k : new[i] = p[(c - h) + i]
    BY <1>8
  <2> HIDE DEF new
  <2>3. bytes = new
    BY <2>1, <2>2, <1>7, SeqEqual
  <2> QED BY <2>3 DEF new
<1>10. packet' = SubSeq(p, 1, (c - h) + k)
  <2>1. 1 \in 1 .. Len(p) + 1 /\ c - h \in 1 - 1 .. Len(p) /\ (c - h) + k \in c - h .. Len(p)
    BY <1>5, <1>6
  <2>2. SubSeq(p, 1, c - h) \o SubSeq(p, (c - h) + 1, (c - h) + k) = SubSeq(p, 1, (c - h) + k)
    BY <2>1, <1>5, ConcatAdjacentSubSeq, Zenon
  <2> QED BY <2>2, <1>1, <1>4, <1>9
<1>11. Position(c + k, n, written, builder', packet', missing')
  <2>1. /\ n # m /\ c + k <= h + Len(p) /\ ~(c + k < h)
        /\ (c + k) - h = (c - h) + k /\ missing' = h + Len(p) - (c + k)
    BY <1>0, <1>3, <1>6
  <2> QED BY <2>1, <1>1, <1>4, <1>10 DEF Position, p, h
<1>12. stream' \in Seq(Byte) /\ packet' \in Seq(Byte) /\ missing' \in Nat
  <2>1. stream' \in Seq(Byte)
    BY <1>0, <1>1, <1>2, PipeDrops
  <2>2. packet' \in Seq(Byte)
    BY <1>1, <1>2, <1>7, ConcatProperties
  <2>3. missing' \in Nat
    BY <1>0
  <2> QED BY <2>1, <2>2, <2>3
<1>13. TypeOK'
  BY <1>1, <1>2, <1>12 DEF TypeOK
<1>14. Position(-at[n] + k, n, written, builder', packet', missing')
  BY <1>4, <1>11
<1>15. k \in 0 .. Len(stream)
  BY <1>1, <1>2, <1>6
<1> QED BY <1>1, <1>4, <1>13, <1>14, <1>15, ReaderMoves

LEMMA IInvReturns ==
  ASSUME IInv, ReadReturns
  PROVE  IInv'
<1> DEFINE n == Len(received)
           m == Len(written)
           p == written[n + 1]
           h == HeaderLength(Len(p))
<1>1. /\ outcome = "reading" /\ builder.done /\ missing = 0
      /\ received' = Append(received, packet) /\ packet' = <<>> /\ builder' = NewVarintBuilder
      /\ muHolder' = muHolder /\ todo' = todo /\ written' = written
      /\ stream' = stream /\ open' = open /\ missing' = missing /\ outcome' = outcome
  BY DEF ReadReturns, writeVars
<1>2. /\ TypeOK /\ received \in Seq(Seq(Byte)) /\ written \in Seq(Payloads)
      /\ stream \in Seq(Byte) /\ packet \in Seq(Byte)
  BY DEF IInv, TypeOK
<1>3. n \in Nat /\ m \in Nat /\ n < m /\ p \in Payloads
  BY <1>1, UnderWay
<1>4. PICK at \in [n .. m -> Int], c \in Nat :
        /\ Cuts(at, n, written, Pipe, Len(stream)) /\ c = -at[n]
        /\ packet = SubSeq(p, 1, c - h) /\ missing = h + Len(p) - c
  BY <1>1, UnderWay
<1> HIDE DEF p, h
<1>5. /\ p \in Seq(Byte) /\ Len(p) \in Nat /\ h \in Nat \ {0}
      /\ Len(Encoded(p)) = h + Len(p)
  BY <1>3, EncodedPacket DEF h
<1>6. c - h = Len(p) /\ at[n] + Len(Encoded(p)) = 0
  <2>1. at[n] \in Int
    BY <1>3
  <2>2. c \in Nat /\ c = -at[n] /\ h + Len(p) - c = 0 /\ Len(p) \in Nat /\ h \in Nat
    BY <1>1, <1>4, <1>5
  <2>3. c - h = Len(p) /\ h + Len(p) = c
    BY <2>2
  <2>4. at[n] + c = 0
    BY <2>1, <2>2
  <2> QED BY <2>3, <2>4, <1>5
<1>7. packet = p
  BY <1>4, <1>5, <1>6, SubSeqFull
<1>8. received' \in Seq(Seq(Byte)) /\ Len(received') = n + 1
  BY <1>1, <1>2, AppendProperties
<1>9. TypeOK'
  BY <1>1, <1>2, <1>8 DEF TypeOK
<1> DEFINE new == [i \in n + 1 .. m |-> at[i]]
<1>10. Cuts(new, n + 1, written, Pipe, Len(stream)) /\ at[n + 1] = 0
  <2>1. Pipe \in Seq(Byte) /\ Len(stream) \in Nat
    BY <1>2, PipeType
  <2>2. at[n] + Len(Encoded(written[n + 1])) = 0
    BY <1>6 DEF p
  <2>3. Cuts(at, n, written, Pipe, Len(stream)) /\ n < Len(written)
    BY <1>3, <1>4
  <2>4. n \in Nat /\ written \in Seq(Payloads)
    BY <1>2, <1>3
  <2>5. at \in [n .. Len(written) -> Int]
    OBVIOUS
  <2> QED BY <2>1, <2>2, <2>3, <2>4, <2>5, CutsReturn, Zenon
<1>11. new \in [n + 1 .. m -> Int] /\ -new[n + 1] = 0
  BY <1>3, <1>10
<1> HIDE DEF new
<1>12. Position(0, n + 1, written, NewVarintBuilder, <<>>, 0)
  <2>1. CASE n + 1 = m
    BY <2>1 DEF Position
  <2>2. CASE n + 1 < m
    <3> DEFINE q == written[(n + 1) + 1]
               g == HeaderLength(Len(q))
    <3>1. n + 1 # m /\ q \in Payloads
      BY <2>2, <1>2, <1>3
    <3> HIDE DEF q
    <3>2. Len(q) \in Nat /\ g \in Nat \ {0} /\ NewVarintBuilder = After(Len(q), 0)
      BY <3>1, EncodedPacket, AfterNone
    <3> HIDE DEF g
    <3>3. 0 < g /\ ~(0 >= g) /\ 0 <= g + Len(q)
      BY <3>2
    <3> QED BY <3>1, <3>2, <3>3 DEF Position, q, g
  <2> QED BY <2>1, <2>2, <1>3
<1>13. Located'
  <2>1. Pipe' = Pipe
    BY <1>1 DEF Pipe
  <2> QED BY <2>1, <1>1, <1>8, <1>10, <1>11, <1>12 DEF Located
<1>14. PacketsWhole'
  <2>1. received = SubSeq(written, 1, n)
    BY DEF IInv, PacketsWhole
  <2>2. Append(SubSeq(written, 1, n), written[n + 1]) = SubSeq(written, 1, n + 1)
    BY <1>2, <1>3
  <2> QED BY <2>1, <2>2, <1>1, <1>7, <1>8 DEF PacketsWhole, p
<1>15. Len(received') <= Len(written') /\ (muHolder' = NoWriter => todo' = <<>>)
  BY <1>1, <1>3, <1>8 DEF IInv
<1>16. Ended'
  BY <1>1 DEF Ended
<1> QED BY <1>9, <1>13, <1>14, <1>15, <1>16 DEF IInv

LEMMA IInvNext == IInv /\ [Next]_vars => IInv'
<1> SUFFICES ASSUME IInv, [Next]_vars PROVE IInv'
  OBVIOUS
<1>1. CASE \E w \in Writers : Write(w)
  <2>1. PICK w \in Writers : Write(w)
    BY <1>1
  <2>2. CASE \E p \in Payloads : BeginWrite(w, p)
    BY <2>2, IInvBegin
  <2>3. CASE todo # <<>> /\ \E k \in 1 .. Len(Head(todo)) : WriteChunk(w, k)
    BY <2>3, IInvChunk
  <2>4. CASE WriteReturns(w)
    BY <2>4, IInvWriteReturns
  <2>5. CASE EndWrite(w)
    BY <2>5, IInvStill
  <2> QED BY <2>1, <2>2, <2>3, <2>4, <2>5 DEF Write
<1>2. CASE WriterEnds
  BY <1>2, IInvStill
<1>3. CASE Read
  <2>1. CASE ReadLengthByte
    BY <2>1, IInvLengthByte
  <2>2. CASE \E k \in 1 .. missing : ReadChunk(k)
    BY <2>2, IInvReadChunk
  <2>3. CASE ReadReturns
    BY <2>3, IInvReturns
  <2>4. CASE ReadEnds
    BY <2>4, IInvStill
  <2> QED BY <1>3, <2>1, <2>2, <2>3, <2>4 DEF Read
<1>4. CASE UNCHANGED vars
  BY <1>4, IInvStill
<1> QED BY <1>1, <1>2, <1>3, <1>4 DEF Next

(* At every moment the bytes not yet read are whole packets, in the order they were
   begun, less what was read of the first and what is not written of the last:
   concurrentPacketWriter's mutex, ReadPacket's loop and io.ReadFull together. *)
THEOREM PacketsStayLocated == Spec => []IInv
<1>1. Init => IInv
  BY IInvInit
<1>2. IInv /\ [Next]_vars => IInv'
  BY IInvNext
<1> QED BY <1>1, <1>2, PTL DEF Spec

(* What ReadPacket returns is what WritePacket was given, packet by packet in the
   order of the writers' turns, for any number of writers, any packets and any way
   of cutting the bytes into chunks, whenever the writing process ends. *)
THEOREM PacketsArriveWhole == Spec => []PacketsWhole
<1>1. IInv => PacketsWhole
  BY DEF IInv
<1> QED BY <1>1, PacketsStayLocated, PTL

(* The packets that are wholly on the stream are read before it is found empty. *)
LEMMA IInvEnd == IInv => EndIsOrderly
<1> SUFFICES ASSUME IInv PROVE EndIsOrderly
  OBVIOUS
<1> DEFINE n == Len(received)
           m == Len(written)
<1>1. /\ n \in Nat /\ m \in Nat /\ n <= m /\ TypeOK
      /\ stream \in Seq(Byte) /\ written \in Seq(Payloads)
      /\ outcome \in {"reading", "eof", "unexpectedEof"}
  BY DEF IInv, TypeOK
<1>2. SUFFICES ASSUME outcome # "reading"
               PROVE  /\ m - n <= 1
                      /\ muHolder = NoWriter => m = n /\ outcome = "eof"
                      /\ outcome = "eof" => packet = <<>>
  BY <1>1 DEF EndIsOrderly
<1>3. /\ stream = <<>> /\ (~builder.done \/ missing > 0)
      /\ outcome = "eof" <=> packet = <<>>
  BY <1>2 DEF IInv, Ended
<1>4. PICK at \in [n .. m -> Int] :
        /\ Cuts(at, n, written, Pipe, Len(stream))
        /\ Position(-at[n], n, written, builder, packet, missing)
  BY DEF IInv, Located
<1>5. Len(stream) = 0
  BY <1>3
<1>6. /\ at[n] <= 0 /\ at[m] = Len(Pipe) /\ (n < m => at[m - 1] <= 0)
      /\ \A i, j \in n .. m : i < j => at[i] < at[j]
  BY <1>4, <1>5 DEF Cuts
<1>7. n < m => at[n + 1] > 0
  <2>1. SUFFICES ASSUME n < m, at[n + 1] <= 0 PROVE FALSE
    <3>1. n < m => at[n + 1] \in Int
      BY <1>1
    <3> QED BY <3>1
  <2> DEFINE p == written[n + 1]
             h == HeaderLength(Len(p))
  <2>2. p \in Payloads /\ n # m /\ n + 1 \in n + 1 .. m /\ (n + 1) - 1 = n /\ at[n] \in Int /\ at[n + 1] \in Int
    BY <2>1, <1>1
  <2>3. Len(p) \in Nat /\ h \in Nat \ {0} /\ Len(Encoded(p)) = h + Len(p)
    BY <2>2, EncodedPacket
  <2>4. at[n + 1] = at[n] + Len(Encoded(p))
    <3>1. \A i \in n + 1 .. m : at[i] = at[i - 1] + Len(Encoded(written[i]))
      BY <1>4 DEF Cuts
    <3> QED BY <3>1, <2>2
  <2> HIDE DEF p, h
  <2>5. -at[n] <= h + Len(p) /\ (-at[n] >= h => builder = After(Len(p), h) /\ missing = h + Len(p) - (-at[n]))
    BY <2>2, <1>4 DEF Position, p, h
  <2>6. -at[n] = h + Len(p) /\ -at[n] >= h
    BY <2>1, <2>2, <2>3, <2>4, <2>5
  <2>7. missing = 0 /\ builder = After(Len(p), h)
    BY <2>3, <2>5, <2>6
  <2>8. builder.done
    BY <2>3, <2>7, AfterAll DEF h
  <2> QED BY <2>7, <2>8, <1>3
<1>8. m - n <= 1
  <2>1. SUFFICES ASSUME n + 1 < m PROVE FALSE
    BY <1>1
  <2>2. at[n + 1] > 0 /\ at[m - 1] <= 0
    BY <2>1, <1>1, <1>6, <1>7
  <2>3. n + 1 \in n .. m /\ m - 1 \in n .. m /\ at[n + 1] \in Int /\ at[m - 1] \in Int
    BY <2>1, <1>1
  <2>4. n + 1 = m - 1 \/ n + 1 < m - 1
    BY <2>1, <1>1
  <2>5. n + 1 < m - 1 => at[n + 1] < at[m - 1]
    BY <2>3, <1>6
  <2> QED BY <2>2, <2>3, <2>4, <2>5
<1>9. ASSUME muHolder = NoWriter PROVE m = n /\ packet = <<>>
  <2>1. todo = <<>>
    BY <1>9 DEF IInv
  <2>2. Pipe = <<>>
    <3>1. Rest(todo) = <<>> /\ <<>> \o <<>> = <<>>
      BY <2>1, EmptySeq, ConcatEmptySeq DEF Rest
    <3> QED BY <3>1, <1>3 DEF Pipe
  <2>3. at[m] = 0
    BY <2>2, <1>6
  <2>4. m = n
    <3>1. SUFFICES ASSUME n < m PROVE FALSE
      BY <1>1
    <3>2. at[n + 1] > 0 /\ n + 1 \in n .. m /\ m \in n .. m /\ at[n + 1] \in Int
      BY <3>1, <1>1, <1>7
    <3>3. n + 1 = m \/ n + 1 < m
      BY <3>1, <1>1
    <3>4. n + 1 < m => at[n + 1] < at[m]
      BY <3>2, <1>6
    <3> QED BY <2>3, <3>2, <3>3, <3>4
  <2>5. packet = <<>>
    BY <2>4, <1>4 DEF Position
  <2> QED BY <2>4, <2>5
<1> QED BY <1>3, <1>8, <1>9

(* ReadPacket never refuses a length this writer produced; when the stream ends, at
   most the packet being written is lost, and none when no writer was in
   WritePacket; and io.EOF is reported exactly when no payload byte was read. *)
THEOREM StreamsEndOrderly == Spec => []EndIsOrderly
<1> QED BY IInvEnd, PacketsStayLocated, PTL
=============================================================================
