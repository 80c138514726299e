---------------------------- MODULE CodecProofs ----------------------------
(***************************************************************************)
(* Theorems about the agent's Minecraft protocol: numbers, strings, frames *)
(* and messages are read as they were written, wherever they are in what   *)
(* is read, and nothing is made of a part of one.                          *)
(***************************************************************************)
EXTENDS FunctionsProofs

-----------------------------------------------------------------------------
(* Powers of two: as many as an i32 has bits. *)

\* Each is twice the one before: there are few enough to look at them all.
LEMMA PowerNext ==
    ASSUME NEW b \in 0..30
    PROVE  2^(b + 1) = 2 * 2^b
<1>1. /\ 2^(0 + 1) = 2 * 2^0 /\ 2^(1 + 1) = 2 * 2^1 /\ 2^(2 + 1) = 2 * 2^2
      /\ 2^(3 + 1) = 2 * 2^3 /\ 2^(4 + 1) = 2 * 2^4 /\ 2^(5 + 1) = 2 * 2^5
      /\ 2^(6 + 1) = 2 * 2^6 /\ 2^(7 + 1) = 2 * 2^7 /\ 2^(8 + 1) = 2 * 2^8
      /\ 2^(9 + 1) = 2 * 2^9 /\ 2^(10 + 1) = 2 * 2^10 /\ 2^(11 + 1) = 2 * 2^11
      /\ 2^(12 + 1) = 2 * 2^12 /\ 2^(13 + 1) = 2 * 2^13 /\ 2^(14 + 1) = 2 * 2^14
      /\ 2^(15 + 1) = 2 * 2^15 /\ 2^(16 + 1) = 2 * 2^16 /\ 2^(17 + 1) = 2 * 2^17
      /\ 2^(18 + 1) = 2 * 2^18 /\ 2^(19 + 1) = 2 * 2^19 /\ 2^(20 + 1) = 2 * 2^20
      /\ 2^(21 + 1) = 2 * 2^21 /\ 2^(22 + 1) = 2 * 2^22 /\ 2^(23 + 1) = 2 * 2^23
      /\ 2^(24 + 1) = 2 * 2^24 /\ 2^(25 + 1) = 2 * 2^25 /\ 2^(26 + 1) = 2 * 2^26
      /\ 2^(27 + 1) = 2 * 2^27 /\ 2^(28 + 1) = 2 * 2^28 /\ 2^(29 + 1) = 2 * 2^29
      /\ 2^(30 + 1) = 2 * 2^30
  OBVIOUS
<1>2. \/ b = 0 \/ b = 1 \/ b = 2 \/ b = 3 \/ b = 4 \/ b = 5 \/ b = 6 \/ b = 7
      \/ b = 8 \/ b = 9 \/ b = 10 \/ b = 11 \/ b = 12 \/ b = 13 \/ b = 14 \/ b = 15
      \/ b = 16 \/ b = 17 \/ b = 18 \/ b = 19 \/ b = 20 \/ b = 21 \/ b = 22 \/ b = 23
      \/ b = 24 \/ b = 25 \/ b = 26 \/ b = 27 \/ b = 28 \/ b = 29 \/ b = 30
  OBVIOUS
<1> QED
  BY <1>1, <1>2, ZenonT(60)

\* They are positive numbers.
LEMMA PowerType ==
    ASSUME NEW b \in Bits
    PROVE  2^b \in Nat \ {0}
<1> DEFINE S == {k \in Nat : k <= 31 => 2^k \in Nat \ {0}}
<1>1. 0 \in S
  OBVIOUS
<1>2. ASSUME NEW k \in Nat, k \in S PROVE k + 1 \in S
  <2>1. k + 1 <= 31 => k \in 0..30 /\ 2^k \in Nat \ {0}
    BY <1>2
  <2>2. k + 1 <= 31 => 2^(k + 1) = 2 * 2^k
    BY <2>1, PowerNext
  <2>3. k + 1 <= 31 => 2^(k + 1) \in Nat \ {0}
    BY <2>1, <2>2
  <2> QED
    BY <2>3
<1> HIDE DEF S
<1>3. b \in S
  BY <1>1, <1>2, Induction DEF Bits
<1> QED
  BY <1>3 DEF S, Bits

-----------------------------------------------------------------------------
(* The number that bits stand for. *)

\* Under a name of its own it is not multiplied out.
Power(b) == 2^b

\* All that is used of the powers from here on.
LEMMA PowerFacts ==
    /\ \A b \in Bits : Power(b) \in Nat \ {0}
    /\ \A b \in 0..30 : Power(b + 1) = 2 * Power(b)
<1>1. \A b \in Bits : Power(b) \in Nat \ {0}
  BY PowerType DEF Power
<1>2. \A b \in 0..30 : Power(b + 1) = 2 * Power(b)
  BY PowerNext, Zenon DEF Power
<1> QED
  BY <1>1, <1>2

Below(k) == {b \in Bits : b < k}

\* A sum of the powers of two, in any order, of bits below k.
Sums(W, k) ==
    /\ W \in [SUBSET Below(k) -> Nat]
    /\ W[{}] = 0
    /\ \A s \in SUBSET Below(k) : \A x \in s : W[s] = Power(x) + W[s \ {x}]

\* Sums for the bits below k give sums for the bits up to k.
LEMMA WeightStep ==
    ASSUME NEW k \in Bits, NEW W, Sums(W, k)
    PROVE  \E V : Sums(V, k + 1)
<1> DEFINE More(s) == IF k \in s THEN Power(k) ELSE 0
           V == [s \in SUBSET Below(k + 1) |-> More(s) + W[s \ {k}]]
<1>1. \A b \in Bits : Power(b) \in Nat
  BY PowerType DEF Power
<1>2. ASSUME NEW s \in SUBSET Below(k + 1)
      PROVE  s \ {k} \in SUBSET Below(k) /\ s \in SUBSET Bits
  BY DEF Below, Bits
<1>3. \A s \in SUBSET Below(k) : W[s] \in Nat
  BY DEF Sums
<1>4. ASSUME NEW s \in SUBSET Below(k + 1)
      PROVE  W[s \ {k}] \in Nat /\ More(s) \in Nat /\ More(s) + W[s \ {k}] \in Nat
  BY <1>1, <1>2, <1>3
<1>5. V \in [SUBSET Below(k + 1) -> Nat]
  <2> HIDE DEF More
  <2> QED
    BY <1>4
<1>6. V[{}] = 0
  <2>1. {} \ {k} = {} /\ {} \in SUBSET Below(k + 1) /\ More({}) = 0
    OBVIOUS
  <2>2. W[{}] = 0
    BY DEF Sums
  <2> HIDE DEF More
  <2> QED
    BY <2>1, <2>2
<1>7. ASSUME NEW s \in SUBSET Below(k + 1), NEW x \in s
      PROVE  V[s] = Power(x) + V[s \ {x}]
  <2>1. s \ {x} \in SUBSET Below(k + 1) /\ Power(x) \in Nat
    BY <1>1, <1>2
  <2>2. V[s] = More(s) + W[s \ {k}]
    OBVIOUS
  <2>3. V[s \ {x}] = More(s \ {x}) + W[(s \ {x}) \ {k}]
    BY <2>1
  <2>4. W[s \ {k}] \in Nat /\ W[(s \ {x}) \ {k}] \in Nat /\ More(s) \in Nat
    BY <1>4, <2>1
  <2>5. CASE x = k
    <3>1. (s \ {x}) \ {k} = s \ {k}
      BY <2>5
    <3>2. More(s) = Power(x) /\ More(s \ {x}) = 0
      BY <2>5
    <3> HIDE DEF V, More
    <3> QED
      BY <2>1, <2>2, <2>3, <2>4, <3>1, <3>2
  <2>6. CASE x # k
    <3>1. x \in s \ {k} /\ (s \ {x}) \ {k} = (s \ {k}) \ {x}
      BY <2>6
    <3>2. More(s \ {x}) = More(s)
      BY <2>6
    <3>3. W[s \ {k}] = Power(x) + W[(s \ {k}) \ {x}]
      BY <1>2, <3>1 DEF Sums
    <3>4. W[(s \ {k}) \ {x}] = W[(s \ {x}) \ {k}]
      BY <3>1
    <3> HIDE DEF V, More
    <3> QED
      BY <2>1, <2>2, <2>3, <2>4, <3>2, <3>3, <3>4
  <2> QED
    BY <2>5, <2>6
<1> HIDE DEF V
<1>8. Sums(V, k + 1)
  BY <1>5, <1>6, <1>7 DEF Sums
<1> QED
  BY <1>8

\* So there are sums for all of them.
LEMMA Weights == \E W : Sums(W, 32)
<1> DEFINE S == {k \in Nat : k <= 32 => \E W : Sums(W, k)}
<1>1. 0 \in S
  <2> DEFINE W == [s \in SUBSET Below(0) |-> 0]
  <2>1. Below(0) = {}
    BY DEF Below, Bits
  <2>2. Sums(W, 0)
    BY <2>1 DEF Sums
  <2> HIDE DEF W
  <2> QED
    BY <2>2
<1>2. ASSUME NEW k \in Nat, k \in S PROVE k + 1 \in S
  <2>1. k + 1 <= 32 => k \in Bits /\ k <= 32
    BY DEF Bits
  <2>2. k + 1 <= 32 => \E W : Sums(W, k + 1)
    BY <1>2, <2>1, WeightStep
  <2> QED
    BY <2>2
<1> HIDE DEF S
<1>3. 32 \in S
  BY <1>1, <1>2, Induction
<1>4. 32 <= 32
  OBVIOUS
<1> QED
  BY <1>3, <1>4, Zenon DEF S

\* Number is that sum, whichever order it chooses.
LEMMA NumberFacts ==
    /\ Number({}) = 0
    /\ \A v \in SUBSET Bits : Number(v) \in Nat
    /\ \A v \in SUBSET Bits : \A x \in v : Number(v) = Power(x) + Number(v \ {x})
<1>0. Below(32) = Bits
  BY DEF Below, Bits
<1>1. PICK W \in [SUBSET Bits -> Nat] :
          /\ W[{}] = 0
          /\ \A s \in SUBSET Bits : \A x \in s : W[s] = Power(x) + W[s \ {x}]
  BY <1>0, Weights, Zenon DEF Sums
<1>2. ASSUME NEW v \in SUBSET Bits PROVE Number(v) = W[v]
  <2> DEFINE pick(s) == CHOOSE x \in s : TRUE
             Value(g, s) == IF s = {} THEN 0 ELSE Power(pick(s)) + g[s \ {pick(s)}]
             Solves(g) == g = [s \in SUBSET v |-> Value(g, s)]
             h == [s \in SUBSET v |-> W[s]]
  <2>1. Number(v) = LET iter[s \in SUBSET v] ==
                            IF s = {} THEN 0
                            ELSE LET x == CHOOSE x \in s : TRUE
                                 IN  2^x + iter[s \ {x}]
                    IN  iter[v]
    BY DEF Number, MapThenSumSet, MapThenFoldSet, Zenon
  <2>2. Number(v) = (CHOOSE g : Solves(g))[v]
    BY <2>1 DEF Power
  <2>3. \A s \in SUBSET v : s # {} => pick(s) \in s
    OBVIOUS
  <2> HIDE DEF pick
  <2>4. Solves(h)
    <3>1. ASSUME NEW s \in SUBSET v PROVE W[s] = Value(h, s)
      <4>1. CASE s = {}
        BY <1>1, <4>1
      <4>2. CASE s # {}
        <5>1. pick(s) \in s /\ s \ {pick(s)} \in SUBSET v /\ s \in SUBSET Bits
          BY <2>3, <4>2
        <5>2. W[s] = Power(pick(s)) + W[s \ {pick(s)}]
          BY <1>1, <5>1
        <5> QED
          BY <4>2, <5>1, <5>2
      <4> QED
        BY <4>1, <4>2
    <3> QED
      BY <3>1
  <2>5. Solves(CHOOSE g : Solves(g))
    BY <2>4, Zenon
  <2> DEFINE f == CHOOSE g : Solves(g)
  <2> HIDE DEF f
  <2>6. Solves(f)
    BY <2>5 DEF f
  <2>7. \A s \in SUBSET v : f[s] = Value(f, s)
    BY <2>6
  <2>8. \A s \in SUBSET v : IsFiniteSet(s) /\ Cardinality(s) \in Nat
    <3>1. IsFiniteSet(Bits)
      BY FS_Interval, 0 \in Int, 31 \in Int DEF Bits
    <3>2. \A s \in SUBSET v : s \in SUBSET Bits
      OBVIOUS
    <3> QED
      BY <3>1, <3>2, FS_Subset, FS_CardinalityType
  <2> DEFINE S == {n \in Nat : \A s \in SUBSET v : Cardinality(s) = n => f[s] = W[s]}
  <2>9. 0 \in S
    <3>1. \A s \in SUBSET v : Cardinality(s) = 0 => s = {}
      BY <2>8, FS_EmptySet
    <3>2. f[{}] = W[{}]
      BY <1>1, <2>7
    <3> QED
      BY <3>1, <3>2
  <2>10. ASSUME NEW n \in Nat, n \in S PROVE n + 1 \in S
    <3> SUFFICES ASSUME NEW s \in SUBSET v, Cardinality(s) = n + 1
                 PROVE  f[s] = W[s]
      OBVIOUS
    <3>1. s # {}
      BY FS_EmptySet
    <3>2. pick(s) \in s /\ s \ {pick(s)} \in SUBSET v /\ s \in SUBSET Bits
      BY <2>3, <3>1
    <3>3. Cardinality(s \ {pick(s)}) = Cardinality(s) - 1 /\ IsFiniteSet(s)
      BY <2>8, <3>2, FS_RemoveElement
    <3>7. Cardinality(s \ {pick(s)}) = n
      BY <3>3
    <3>4. f[s \ {pick(s)}] = W[s \ {pick(s)}]
      BY <2>10, <3>2, <3>7
    <3>5. W[s] = Power(pick(s)) + W[s \ {pick(s)}]
      BY <1>1, <3>2
    <3>6. f[s] = Power(pick(s)) + f[s \ {pick(s)}]
      BY <2>7, <3>1
    <3> QED
      BY <3>4, <3>5, <3>6
  <2> HIDE DEF S
  <2>11. Cardinality(v) \in S
    BY <2>8, <2>9, <2>10, Induction
  <2>12. f[v] = W[v]
    BY <2>11 DEF S
  <2> QED
    BY <2>2, <2>12 DEF f
<1>3. \A v \in SUBSET Bits : \A x \in v : v \ {x} \in SUBSET Bits
  OBVIOUS
<1> QED
  BY <1>1, <1>2, <1>3

\* One more bit of the remainder: twice the divisor leaves the next bit of the
\* quotient as well.
LEMMA NextBit ==
    ASSUME NEW n \in Nat, NEW d \in Nat \ {0}
    PROVE  n % (2 * d) = (n % d) + (IF (n \div d) % 2 = 1 THEN d ELSE 0)
<1> DEFINE q == n \div d
           r == n % d
           h == q \div 2
           b == q % 2
<1>1. q \in Nat /\ r \in 0..(d - 1) /\ n = d * q + r
  BY DivisionFacts
<1> HIDE DEF q, r
<1>2. h \in Nat /\ b \in 0..1 /\ q = 2 * h + b
  BY <1>1, DivisionFacts
<1> HIDE DEF h, b
<1>3. b = 0 \/ b = 1
  BY <1>2
<1> DEFINE rest == IF b = 1 THEN d + r ELSE r
<1>4. rest \in Nat /\ rest < 2 * d
  BY <1>1, <1>3
<1>5. n = (2 * d) * h + rest
  <2>1. d * q = (2 * d) * h + d * b
    BY <1>2
  <2>2. (2 * d) * h \in Nat
    BY <1>2
  <2>3. CASE b = 0
    BY <1>1, <2>1, <2>2, <2>3
  <2>4. CASE b = 1
    BY <1>1, <2>1, <2>2, <2>4
  <2> QED
    BY <1>3, <2>3, <2>4
<1>6. n % (2 * d) = rest
  <2> HIDE DEF rest
  <2> QED
    BY <1>2, <1>4, <1>5, DivisionUnique
<1> QED
  BY <1>1, <1>3, <1>6 DEF b, q, r

\* A number that is not negative is the number that its bits stand for.
LEMMA ToBitsFacts ==
    ASSUME NEW n \in Nat, n < 2^31
    PROVE  ToBits(n) \in SUBSET (0..30) /\ Number(ToBits(n)) = n
<1> DEFINE T == ToBits(n)
           Low(k) == {b \in T : b < k}
           S == {k \in Nat : k <= 31 => Number(Low(k)) = n % Power(k)}
<1>1. T = {b \in 0..30 : (n \div Power(b)) % 2 = 1}
  BY DEF ToBits, Power
<1> HIDE DEF T
<1>2. 0 \in S
  <2>1. Low(0) = {}
    BY <1>1
  <2>2. Power(0) = 1
    BY DEF Power
  <2>3. n % Power(0) = 0
    BY <2>2
  <2> QED
    BY <2>1, <2>3, NumberFacts
<1>3. ASSUME NEW k \in Nat, k \in S PROVE k + 1 \in S
  <2> SUFFICES ASSUME k + 1 <= 31
               PROVE  Number(Low(k + 1)) = n % Power(k + 1)
    OBVIOUS
  <2>1. k \in 0..30 /\ Number(Low(k)) = n % Power(k)
    BY <1>3
  <2>2. Power(k + 1) = 2 * Power(k) /\ Power(k) \in Nat \ {0}
    BY <2>1, PowerFacts DEF Bits
  <2>3. n % Power(k + 1)
            = (n % Power(k)) + (IF (n \div Power(k)) % 2 = 1 THEN Power(k) ELSE 0)
    BY <2>2, NextBit
  <2>4. n % Power(k) \in Nat
    <3>1. n % Power(k) \in 0..(Power(k) - 1) /\ Power(k) \in Nat
      BY <2>2, DivisionFacts
    <3> QED
      BY <3>1
  <2>5. CASE k \in T
    <3>1. Low(k + 1) \ {k} = Low(k) /\ k \in Low(k + 1) /\ Low(k + 1) \in SUBSET Bits
      BY <1>1, <2>1, <2>5 DEF Bits
    <3>2. Number(Low(k + 1)) = Power(k) + Number(Low(k))
      <4> HIDE DEF Low
      <4> QED
        BY <3>1, NumberFacts
    <3>3. (n \div Power(k)) % 2 = 1
      BY <1>1, <2>5
    <3> HIDE DEF Low
    <3> QED
      BY <2>1, <2>2, <2>3, <2>4, <3>2, <3>3
  <2>6. CASE k \notin T
    <3>1. Low(k + 1) = Low(k)
      BY <1>1, <2>1, <2>6
    <3>2. ~ ((n \div Power(k)) % 2 = 1)
      BY <1>1, <2>1, <2>6
    <3> HIDE DEF Low
    <3> QED
      BY <2>1, <2>3, <2>4, <3>1, <3>2
  <2> QED
    BY <2>5, <2>6
<1> HIDE DEF S
<1>4. 31 \in S
  BY <1>2, <1>3, Induction
<1>5. Low(31) = T
  BY <1>1
<1>6. n % Power(31) = n
  <2>1. Power(31) = 2^31 /\ Power(31) \in Nat \ {0}
    BY PowerType DEF Power, Bits
  <2>2. n = Power(31) * 0 + n /\ n < Power(31)
    BY <2>1
  <2> QED
    BY <2>1, <2>2, DivisionUnique
<1> QED
  BY <1>1, <1>4, <1>5, <1>6 DEF S, T

-----------------------------------------------------------------------------
(* Varints. *)

\* The seven bits of v that are its group g, counted from zero.
Group(v, g) == {b - 7 * g : b \in {c \in v : c \div 7 = g}}

\* A bit is in one place of one group.
LEMMA GroupFacts ==
    ASSUME NEW c \in Bits
    PROVE  /\ c \div 7 \in 0..4
           /\ c - 7 * (c \div 7) \in 0..6
           /\ \A g \in 0..4 : c - 7 * g \in 0..6 => c \div 7 = g
<1>1. c \in Nat /\ c <= 31
  BY DEF Bits
<1> QED
  BY <1>1

\* An encoding holds the number's bits in groups of seven, up to the last group
\* that has any, and says with each but the last byte that more follow.
LEMMA EncodeFacts ==
    ASSUME NEW v \in SUBSET Bits
    PROVE  LET code == EncodeVarint(v)
           IN  /\ code \in Seq(Bytes)
               /\ Len(code) \in 1..5
               /\ \A i \in 1..Len(code) : /\ Continued \in code[i] <=> i < Len(code)
                                          /\ code[i] \ {Continued} = Group(v, i - 1)
               /\ \A c \in v : c \div 7 + 1 \in 1..Len(code)
               /\ v = {} => Len(code) = 1
               /\ v # {} => \E c \in v : Len(code) = c \div 7 + 1
<1> DEFINE last == IF v = {} THEN 0 ELSE Max(v) \div 7
           code == EncodeVarint(v)
<1>1. /\ last \in 0..4
      /\ \A c \in v : c \div 7 \in 0..last
      /\ v # {} => \E c \in v : last = c \div 7
  <2>1. CASE v = {}
    BY <2>1
  <2>2. CASE v # {}
    <3>1. v \in SUBSET Nat /\ 31 \in Nat /\ \A c \in v : c <= 31
      BY DEF Bits
    <3>2. Max(v) \in v /\ \A c \in v : c <= Max(v)
      BY <2>2, <3>1, MaxProperties
    <3>3. ASSUME NEW c \in v PROVE c \div 7 \in 0..4 /\ c \div 7 <= Max(v) \div 7
      <4>1. /\ c \in Nat /\ Max(v) \in Nat /\ c <= Max(v)
            /\ c <= 31 /\ Max(v) <= 31
        BY <3>1, <3>2
      <4> QED
        BY <4>1
    <3>4. last = Max(v) \div 7
      BY <2>2
    <3> HIDE DEF last
    <3> QED
      BY <3>2, <3>3, <3>4
  <2> QED
    BY <2>1, <2>2
<1>2. code = [i \in 1..(last + 1) |->
                 Group(v, i - 1) \cup (IF i <= last THEN {Continued} ELSE {})]
  BY DEF EncodeVarint, Group
<1> HIDE DEF last, code
<1>3. ASSUME NEW i \in 1..(last + 1) PROVE Group(v, i - 1) \in SUBSET (0..6)
  <2>1. ASSUME NEW c \in v, c \div 7 = i - 1 PROVE c - 7 * (i - 1) \in 0..6
    BY <2>1, GroupFacts
  <2> QED
    BY <2>1 DEF Group
<1>4. \A i \in 1..(last + 1) :
          code[i] = Group(v, i - 1) \cup (IF i <= last THEN {Continued} ELSE {})
  BY <1>2
<1>5. code \in Seq(Bytes) /\ Len(code) = last + 1
  <2>1. \A i \in 1..(last + 1) :
            Group(v, i - 1) \cup (IF i <= last THEN {Continued} ELSE {}) \in Bytes
    BY <1>3 DEF Bytes, Continued
  <2>2. last + 1 \in Nat
    BY <1>1
  <2> QED
    BY <1>2, <2>1, <2>2
<1>6. ASSUME NEW i \in 1..Len(code)
      PROVE  /\ Continued \in code[i] <=> i < Len(code)
             /\ code[i] \ {Continued} = Group(v, i - 1)
  <2>1. i \in 1..(last + 1) /\ (i <= last <=> i < Len(code))
    BY <1>1, <1>5
  <2>2. Continued \notin Group(v, i - 1)
    BY <1>3, <2>1 DEF Continued
  <2> QED
    BY <1>4, <2>1, <2>2
<1>7. Len(code) \in 1..5 /\ \A c \in v : c \div 7 + 1 \in 1..Len(code)
  BY <1>1, <1>5
<1>8. /\ v = {} => Len(code) = 1
      /\ v # {} => \E c \in v : Len(code) = c \div 7 + 1
  BY <1>1, <1>5 DEF last
<1> QED
  BY <1>5, <1>6, <1>7, <1>8 DEF code

\* The stream has w from position p on.
Holds(s, p, w) ==
    /\ p \in Nat \ {0}
    /\ p + Len(w) <= Len(s) + 1
    /\ \A i \in 1..Len(w) : s[p + i - 1] = w[i]

\* The stream ends before the end of the w that begins at p.
Breaks(s, p, w) ==
    /\ p \in Nat \ {0}
    /\ p <= Len(s) + 1 /\ Len(s) + 1 < p + Len(w)
    /\ \A i \in 1..Len(w) : p + i - 1 <= Len(s) => s[p + i - 1] = w[i]

\* A number is read as it was written, wherever it is.
LEMMA DecodeHeld ==
    ASSUME NEW v \in SUBSET Bits, NEW s \in Seq(Bytes), NEW p,
           Holds(s, p, EncodeVarint(v))
    PROVE  DecodeVarint(s, p) = Decoded(v, p + Len(EncodeVarint(v)))
<1> DEFINE code == EncodeVarint(v)
           n == Len(code)
           ends == {i \in p..(p + 4) : i <= Len(s) /\ Continued \notin s[i]}
           read == {b \in Bits : \E i \in p..(p + n - 1) :
                                     b - 7 * (i - p) \in s[i] \ {Continued}}
<1>1. /\ n \in 1..5
      /\ \A i \in 1..n : Continued \in code[i] <=> i < n
      /\ \A i \in 1..n : code[i] \ {Continued} = Group(v, i - 1)
      /\ \A c \in v : c \div 7 + 1 \in 1..n
  BY EncodeFacts
<1>2. /\ p \in Nat \ {0} /\ Len(s) \in Nat /\ p + n <= Len(s) + 1
      /\ \A i \in 1..n : s[p + i - 1] = code[i]
  BY DEF Holds
<1> HIDE DEF code, n
<1>3. ASSUME NEW i \in p..(p + n - 1)
      PROVE  /\ i - p + 1 \in 1..n
             /\ s[i] = code[i - p + 1]
             /\ Continued \in s[i] <=> i < p + n - 1
             /\ s[i] \ {Continued} = Group(v, i - p)
             /\ i - p \in 0..4
  <2>1. i - p + 1 \in 1..n /\ p + (i - p + 1) - 1 = i /\ (i - p + 1) - 1 = i - p
    BY <1>1, <1>2
  <2>2. s[i] = code[i - p + 1]
    BY <1>2, <2>1
  <2>3. i - p + 1 < n <=> i < p + n - 1
    BY <1>1, <1>2
  <2>4. i - p \in 0..4
    BY <1>1, <1>2
  <2> QED
    BY <1>1, <2>1, <2>2, <2>3, <2>4
<1> DEFINE end == p + n - 1
<1>4. end \in ends /\ ends \in SUBSET Nat /\ \A i \in ends : end <= i
  <2>1. end \in p..(p + 4) /\ end <= Len(s) /\ end \in p..(p + n - 1)
    BY <1>1, <1>2
  <2>2. end \in ends
    BY <1>3, <2>1
  <2>3. ends \in SUBSET Nat
    BY <1>2
  <2>4. ASSUME NEW i \in ends, i < end PROVE FALSE
    <3>1. i \in p..(p + n - 1) /\ Continued \notin s[i]
      BY <1>1, <1>2, <2>4
    <3> QED
      BY <1>3, <2>4, <3>1
  <2>5. end \in Nat
    BY <2>1, <1>2
  <2> HIDE DEF ends, end
  <2> QED
    BY <2>2, <2>3, <2>4, <2>5
<1>5. Min(ends) = end /\ ends # {}
  <2> HIDE DEF ends, end
  <2> QED
    BY <1>4, MinProperties
<1>6. read = v
  <2>1. ASSUME NEW b \in v PROVE b \in read
    <3> DEFINE q == b \div 7
               i == p + q
    <3>1. q \in 0..4 /\ q + 1 \in 1..n /\ b \in Bits
      <4>1. b \in Bits
        OBVIOUS
      <4>2. b \div 7 \in 0..4
        BY <4>1, GroupFacts
      <4> QED
        BY <1>1, <4>1, <4>2
    <3>2. i \in p..(p + n - 1) /\ i - p = q
      <4> HIDE DEF q
      <4> QED
        BY <1>1, <1>2, <3>1
    <3>3. b - 7 * (i - p) \in Group(v, i - p)
      <4>1. b \in v /\ b \div 7 = q
        OBVIOUS
      <4>2. b - 7 * (i - p) = b - 7 * q
        BY <3>2
      <4> HIDE DEF q, i
      <4> QED
        BY <3>2, <4>1, <4>2 DEF Group
    <3>4. b - 7 * (i - p) \in s[i] \ {Continued}
      <4> HIDE DEF i
      <4> QED
        BY <1>3, <3>2, <3>3
    <3> HIDE DEF i
    <3> QED
      BY <3>1, <3>2, <3>4
  <2>2. ASSUME NEW b \in read PROVE b \in v
    <3>1. PICK i \in p..(p + n - 1) : b - 7 * (i - p) \in s[i] \ {Continued}
      OBVIOUS
    <3>2. b - 7 * (i - p) \in Group(v, i - p) /\ i - p \in 0..4
      BY <1>3, <3>1
    <3>3. PICK c \in v : b - 7 * (i - p) = c - 7 * (i - p)
      BY <3>2 DEF Group
    <3>4. b = c
      BY <3>2, <3>3 DEF Bits
    <3> QED
      BY <3>4
  <2> QED
    BY <2>1, <2>2
<1>7. end + 1 = p + n
  BY <1>1, <1>2
<1>8. DecodeVarint(s, p)
          = IF ends = {} THEN Failed
            ELSE Decoded({b \in Bits : \E i \in p..Min(ends) :
                              b - 7 * (i - p) \in s[i] \ {Continued}}, Min(ends) + 1)
  BY DEF DecodeVarint
<1> HIDE DEF ends
<1> QED
  BY <1>5, <1>6, <1>7, <1>8 DEF n, code

\* A number that has not arrived in full is not read.
LEMMA DecodeBroken ==
    ASSUME NEW v \in SUBSET Bits, NEW s \in Seq(Bytes), NEW p,
           Breaks(s, p, EncodeVarint(v))
    PROVE  DecodeVarint(s, p) = Failed
<1> DEFINE code == EncodeVarint(v)
           n == Len(code)
           ends == {i \in p..(p + 4) : i <= Len(s) /\ Continued \notin s[i]}
<1>1. /\ n \in 1..5
      /\ \A i \in 1..n : Continued \in code[i] <=> i < n
  BY EncodeFacts
<1>2. /\ p \in Nat \ {0} /\ Len(s) \in Nat /\ Len(s) + 1 < p + n
      /\ \A i \in 1..n : p + i - 1 <= Len(s) => s[p + i - 1] = code[i]
  BY DEF Breaks
<1> HIDE DEF code, n
<1>3. ASSUME NEW i \in ends PROVE FALSE
  <2>1. /\ i - p + 1 \in 1..n /\ i - p + 1 < n /\ p + (i - p + 1) - 1 = i
        /\ i <= Len(s) /\ Continued \notin s[i]
    BY <1>1, <1>2
  <2>2. s[i] = code[i - p + 1]
    BY <1>2, <2>1
  <2> QED
    BY <1>1, <2>1, <2>2
<1>4. ends = {}
  BY <1>3
<1> QED
  BY <1>4 DEF DecodeVarint

\* What is accepted is what the bytes spell, and takes no more bytes when it is
\* written again.
THEOREM NumbersSpelled ==
    ASSUME NEW s \in Seq(Bytes), DecodeVarint(s, 1).ok
    PROVE  LET read == DecodeVarint(s, 1)
               code == EncodeVarint(read.value)
           IN  /\ read.value \in SUBSET Bits
               /\ read.next \in Nat /\ read.next <= Len(s) + 1
               /\ Len(code) < read.next
               /\ \A i \in 1..(read.next - 1) :
                   (IF i <= Len(code) THEN code[i] \ {Continued} ELSE {})
                       = s[i] \ ({Continued} \cup IF i = 5 THEN 4..6 ELSE {})
<1> DEFINE ends == {i \in 1..(1 + 4) : i <= Len(s) /\ Continued \notin s[i]}
           m == Min(ends)
           v == {b \in Bits : \E i \in 1..m : b - 7 * (i - 1) \in s[i] \ {Continued}}
           code == EncodeVarint(v)
           n == Len(code)
<1>1. DecodeVarint(s, 1) = IF ends = {} THEN Failed ELSE Decoded(v, m + 1)
  BY DEF DecodeVarint
<1>2. ends # {}
  BY <1>1 DEF Failed
<1>3. m \in 1..5 /\ m <= Len(s) /\ Len(s) \in Nat
  <2>1. ends \in SUBSET Nat /\ \A i \in ends : i \in 1..5 /\ i <= Len(s)
    OBVIOUS
  <2>2. m \in ends
    <3> HIDE DEF ends
    <3> QED
      BY <1>2, <2>1, MinProperties
  <2> QED
    BY <2>1, <2>2
<1>4. DecodeVarint(s, 1).value = v /\ DecodeVarint(s, 1).next = m + 1
  BY <1>1, <1>2 DEF Decoded
<1> HIDE DEF ends, m
<1>5. \A i \in 1..m : s[i] \ {Continued} \in SUBSET (0..6)
  <2>1. \A i \in 1..m : s[i] \in Bytes
    BY <1>3
  <2> QED
    BY <2>1 DEF Bytes, Continued
<1>6. v \in SUBSET Bits
  OBVIOUS
<1>7. /\ n \in 1..5
      /\ \A i \in 1..n : code[i] \ {Continued} = Group(v, i - 1)
      /\ \A c \in v : c \div 7 + 1 \in 1..n
      /\ v = {} => n = 1
      /\ v # {} => \E c \in v : n = c \div 7 + 1
  BY <1>6, EncodeFacts
<1>8. ASSUME NEW c \in v
      PROVE  c \div 7 + 1 \in 1..m /\ c - 7 * (c \div 7) \in s[c \div 7 + 1] \ {Continued}
  <2>1. PICK i \in 1..m : c - 7 * (i - 1) \in s[i] \ {Continued}
    OBVIOUS
  <2>2. c - 7 * (i - 1) \in 0..6 /\ i - 1 \in 0..4
    BY <1>3, <1>5, <2>1
  <2>3. c \div 7 = i - 1
    BY <2>2, GroupFacts
  <2>4. c \div 7 + 1 = i
    BY <1>3, <2>3
  <2> QED
    BY <2>1, <2>3, <2>4
<1> HIDE DEF code, n
<1>9. n <= m
  <2>1. v # {} => n \in 1..m
    BY <1>7, <1>8
  <2> QED
    BY <1>3, <1>7, <2>1
<1>10. ASSUME NEW i \in 1..m
       PROVE  Group(v, i - 1) = s[i] \ ({Continued} \cup IF i = 5 THEN 4..6 ELSE {})
  <2> DEFINE rest == s[i] \ ({Continued} \cup IF i = 5 THEN 4..6 ELSE {})
  <2>1. i \in 1..5 /\ i - 1 \in 0..4
    BY <1>3
  <2>2. ASSUME NEW x \in Group(v, i - 1) PROVE x \in rest
    <3>1. PICK c \in v : c \div 7 = i - 1 /\ x = c - 7 * (i - 1)
      BY DEF Group
    <3>2. c \div 7 + 1 = i
      BY <2>1, <3>1
    <3>3. x \in s[i] \ {Continued}
      BY <1>8, <3>1, <3>2
    <3>4. i = 5 => x \notin 4..6
      BY <3>1 DEF Bits
    <3> QED
      BY <3>3, <3>4
  <2>3. ASSUME NEW x \in rest PROVE x \in Group(v, i - 1)
    <3>1. x \in s[i] \ {Continued} /\ x \in 0..6 /\ (i = 5 => x \notin 4..6)
      BY <1>5
    <3> DEFINE c == x + 7 * (i - 1)
    <3>2. c \in Bits /\ c - 7 * (i - 1) = x
      BY <2>1, <3>1 DEF Bits
    <3>3. c \in v
      <4> HIDE DEF c
      <4> QED
        BY <3>1, <3>2
    <3> HIDE DEF c, v
    <3>4. c \div 7 = i - 1
      BY <2>1, <3>1, <3>2, GroupFacts
    <3> QED
      BY <3>2, <3>3, <3>4 DEF Group
  <2> QED
    BY <2>2, <2>3
<1>11. ASSUME NEW i \in 1..m
       PROVE  (IF i <= n THEN code[i] \ {Continued} ELSE {}) = Group(v, i - 1)
  <2>1. CASE i <= n
    BY <1>3, <1>7, <2>1
  <2>2. CASE ~ (i <= n)
    <3>1. ASSUME NEW c \in v, c \div 7 = i - 1 PROVE FALSE
      BY <1>3, <1>7, <2>2, <3>1
    <3>2. Group(v, i - 1) = {}
      <4> HIDE DEF v
      <4> QED
        BY <3>1 DEF Group
    <3> QED
      BY <2>2, <3>2
  <2> QED
    BY <2>1, <2>2
<1>12. m + 1 \in Nat /\ m + 1 <= Len(s) + 1 /\ n < m + 1 /\ (m + 1) - 1 = m
  BY <1>3, <1>7, <1>9
<1> HIDE DEF v
<1> QED
  BY <1>4, <1>6, <1>10, <1>11, <1>12 DEF code, n

\* What is at the beginning of a concatenation, and after it.
LEMMA FirstHeld ==
    ASSUME NEW S, NEW a \in Seq(S), NEW b \in Seq(S)
    PROVE  Holds(a \o b, 1, a)
<1>1. a \o b \in Seq(S) /\ Len(a \o b) = Len(a) + Len(b)
  BY ConcatProperties
<1>2. \A i \in 1..Len(a) : (a \o b)[i] = a[i]
  BY ConcatProperties
<1>3. Len(a) \in Nat /\ Len(b) \in Nat
  OBVIOUS
<1>4. \A i \in 1..Len(a) : 1 + i - 1 = i
  BY <1>3
<1> QED
  BY <1>1, <1>2, <1>3, <1>4 DEF Holds

\* Every number is read back as it was written, and every number that is
\* accepted is the one that the bytes spell.
THEOREM NumbersExact == Spec => []VarintsExact
<1>1. InputTypes => VarintsExact
  <2> SUFFICES ASSUME InputTypes PROVE VarintsExact
    OBVIOUS
  <2>1. ASSUME kind = "number"
        PROVE  LET code == EncodeVarint(in.value)
               IN  DecodeVarint(code \o in.tail, 1) = Decoded(in.value, Len(code) + 1)
    <3> DEFINE code == EncodeVarint(in.value)
    <3>1. in.value \in SUBSET Bits /\ in.tail \in Seq(Bytes)
      BY <2>1 DEF InputTypes
    <3>2. code \in Seq(Bytes) /\ Len(code) \in 1..5
      BY <3>1, EncodeFacts
    <3>3. code \o in.tail \in Seq(Bytes)
      BY <3>1, <3>2, ConcatProperties
    <3>4. Holds(code \o in.tail, 1, code)
      BY <3>1, <3>2, FirstHeld
    <3>5. DecodeVarint(code \o in.tail, 1) = Decoded(in.value, 1 + Len(code))
      BY <3>1, <3>3, <3>4, DecodeHeld
    <3>6. 1 + Len(code) = Len(code) + 1
      BY <3>2
    <3> QED
      BY <3>5, <3>6
  <2>2. ASSUME kind = "bytes", DecodeVarint(in, 1).ok
        PROVE  LET read == DecodeVarint(in, 1)
                   code == EncodeVarint(read.value)
               IN  /\ read.next <= Len(in) + 1
                   /\ Len(code) < read.next
                   /\ \A i \in 1..(read.next - 1) :
                       (IF i <= Len(code) THEN code[i] \ {Continued} ELSE {})
                           = in[i] \ ({Continued} \cup IF i = 5 THEN 4..6 ELSE {})
    <3>1. in \in Seq(Bytes)
      BY <2>2 DEF InputTypes
    <3> QED
      BY <2>2, <3>1, NumbersSpelled
  <2> QED
    BY <2>1, <2>2 DEF VarintsExact
<1> QED
  BY <1>1, TypedInputs, PTL

-----------------------------------------------------------------------------
(* Where things are in a stream. *)

\* What is appended is held where the rest ends.
LEMMA SecondHeld ==
    ASSUME NEW S, NEW a \in Seq(S), NEW b \in Seq(S)
    PROVE  Holds(a \o b, Len(a) + 1, b)
<1>1. Len(a \o b) = Len(a) + Len(b)
  BY ConcatProperties
<1>2. \A i \in 1..(Len(a) + Len(b)) :
          (a \o b)[i] = IF i <= Len(a) THEN a[i] ELSE b[i - Len(a)]
  BY ConcatProperties
<1>3. Len(a) \in Nat /\ Len(b) \in Nat
  OBVIOUS
<1> DEFINE ab == a \o b
           n == Len(a)
           m == Len(b)
<1> HIDE DEF ab, n, m
<1>4. ASSUME NEW i \in 1..m PROVE ab[n + 1 + i - 1] = b[i]
  <2>1. n + 1 + i - 1 \in 1..(n + m) /\ ~ (n + 1 + i - 1 <= n) /\ n + 1 + i - 1 - n = i
    BY <1>3 DEF n, m
  <2> QED
    BY <1>2, <2>1 DEF ab, n, m
<1>5. n + 1 \in Nat \ {0} /\ n + 1 + m <= Len(ab) + 1
  BY <1>1, <1>3 DEF n, m, ab
<1> QED
  BY <1>4, <1>5 DEF Holds, n, m, ab

\* What two sequences make together.
LEMMA Together ==
    ASSUME NEW S, NEW a \in Seq(S), NEW b \in Seq(S)
    PROVE  a \o b \in Seq(S) /\ Len(a \o b) = Len(a) + Len(b)
  BY ConcatProperties

\* A sequence holds itself.
LEMMA WholeHeld ==
    ASSUME NEW S, NEW s \in Seq(S)
    PROVE  Holds(s, 1, s)
<1>1. \A i \in 1..Len(s) : 1 + i - 1 = i
  OBVIOUS
<1>2. Len(s) \in Nat
  OBVIOUS
<1> QED
  BY <1>1, <1>2 DEF Holds

\* What is held in what is held: of two parts, each is.
LEMMA HeldParts ==
    ASSUME NEW S, NEW s \in Seq(S), NEW a \in Seq(S), NEW b \in Seq(S), NEW p,
           Holds(s, p, a \o b)
    PROVE  Holds(s, p, a) /\ Holds(s, p + Len(a), b)
<1> DEFINE ab == a \o b
           n == Len(a)
           m == Len(b)
<1>1. Len(ab) = n + m
  BY ConcatProperties
<1>2. \A i \in 1..(n + m) : ab[i] = IF i <= n THEN a[i] ELSE b[i - n]
  BY ConcatProperties
<1>3. n \in Nat /\ m \in Nat /\ Len(s) \in Nat
  OBVIOUS
<1> HIDE DEF ab, n, m
<1>4. /\ p \in Nat \ {0} /\ p + (n + m) <= Len(s) + 1
      /\ \A i \in 1..(n + m) : s[p + i - 1] = ab[i]
  BY <1>1 DEF Holds, ab
<1>5. ASSUME NEW i \in 1..n PROVE s[p + i - 1] = a[i]
  <2>1. i \in 1..(n + m) /\ i <= n
    BY <1>3
  <2> QED
    BY <1>2, <1>4, <2>1
<1>6. ASSUME NEW i \in 1..m PROVE s[p + n + i - 1] = b[i]
  <2> DEFINE j == n + i
  <2>1. j \in 1..(n + m) /\ ~ (j <= n) /\ j - n = i
    BY <1>3
  <2>2. p + j - 1 = p + n + i - 1
    BY <1>3, <1>4
  <2> HIDE DEF j
  <2>3. ab[j] = b[i]
    BY <1>2, <2>1
  <2>4. s[p + j - 1] = ab[j]
    BY <1>4, <2>1
  <2> QED
    BY <2>2, <2>3, <2>4
<1>7. /\ p + n \in Nat \ {0} /\ p + n <= Len(s) + 1
      /\ p + n + m <= Len(s) + 1
  BY <1>3, <1>4
<1> QED
  BY <1>4, <1>5, <1>6, <1>7 DEF Holds, n, m

\* Of two parts, the first or the second is broken.
LEMMA BrokenParts ==
    ASSUME NEW S, NEW s \in Seq(S), NEW a \in Seq(S), NEW b \in Seq(S), NEW p,
           Breaks(s, p, a \o b)
    PROVE  Breaks(s, p, a) \/ (Holds(s, p, a) /\ Breaks(s, p + Len(a), b))
<1> DEFINE ab == a \o b
           n == Len(a)
           m == Len(b)
<1>1. Len(ab) = n + m
  BY ConcatProperties
<1>2. \A i \in 1..(n + m) : ab[i] = IF i <= n THEN a[i] ELSE b[i - n]
  BY ConcatProperties
<1>3. n \in Nat /\ m \in Nat /\ Len(s) \in Nat
  OBVIOUS
<1> HIDE DEF ab, n, m
<1>4. /\ p \in Nat \ {0} /\ p <= Len(s) + 1 /\ Len(s) + 1 < p + (n + m)
      /\ \A i \in 1..(n + m) : p + i - 1 <= Len(s) => s[p + i - 1] = ab[i]
  BY <1>1 DEF Breaks, ab
<1>5. ASSUME NEW i \in 1..n, p + i - 1 <= Len(s) PROVE s[p + i - 1] = a[i]
  <2>1. i \in 1..(n + m) /\ i <= n
    BY <1>3
  <2> QED
    BY <1>2, <1>4, <1>5, <2>1
<1>6. ASSUME NEW i \in 1..m, p + n + i - 1 <= Len(s) PROVE s[p + n + i - 1] = b[i]
  <2> DEFINE j == n + i
  <2>1. j \in 1..(n + m) /\ ~ (j <= n) /\ j - n = i
    BY <1>3
  <2>2. p + j - 1 = p + n + i - 1
    BY <1>3, <1>4
  <2> HIDE DEF j
  <2>3. ab[j] = b[i]
    BY <1>2, <2>1
  <2>4. s[p + j - 1] = ab[j]
    BY <1>4, <1>6, <2>1, <2>2
  <2> QED
    BY <2>2, <2>3, <2>4
<1>7. CASE Len(s) + 1 < p + n
  BY <1>4, <1>5, <1>7 DEF Breaks, n
<1>8. CASE p + n <= Len(s) + 1
  <2>1. \A i \in 1..n : p + i - 1 <= Len(s)
    BY <1>3, <1>4, <1>8
  <2>2. Holds(s, p, a)
    BY <1>4, <1>5, <1>8, <2>1 DEF Holds, n
  <2>3. p + n \in Nat \ {0} /\ Len(s) + 1 < p + n + m
    BY <1>3, <1>4
  <2>4. Breaks(s, p + n, b)
    BY <1>6, <1>8, <2>3 DEF Breaks, m
  <2> QED
    BY <2>2, <2>4 DEF n
<1> QED
  BY <1>3, <1>4, <1>7, <1>8

\* Where a stream is cut, what is before the cut is held, what it is in is
\* broken.
LEMMA CutFacts ==
    ASSUME NEW S, NEW s \in Seq(S), NEW cut \in 0..Len(s)
    PROVE  LET arrived == SubSeq(s, 1, cut)
           IN  /\ arrived \in Seq(S) /\ Len(arrived) = cut
               /\ \A i \in 1..cut : arrived[i] = s[i]
<1>1. cut \in Nat /\ Len(s) \in Nat /\ cut <= Len(s)
  OBVIOUS
<1>2. \A i \in 1..cut : s[i] \in S
  BY <1>1
<1>3. /\ SubSeq(s, 1, cut) \in Seq(S)
      /\ Len(SubSeq(s, 1, cut)) = IF 1 <= cut THEN cut - 1 + 1 ELSE 0
      /\ \A i \in 1..(cut - 1 + 1) : SubSeq(s, 1, cut)[i] = s[1 + i - 1]
  BY <1>1, <1>2, SubSeqProperties
<1>4. cut - 1 + 1 = cut /\ (IF 1 <= cut THEN cut - 1 + 1 ELSE 0) = cut
  BY <1>1
<1>5. \A i \in 1..cut : 1 + i - 1 = i
  BY <1>1
<1> QED
  BY <1>3, <1>4, <1>5

\* What ends before the cut is still held.
LEMMA HeldBeforeCut ==
    ASSUME NEW S, NEW s \in Seq(S), NEW w \in Seq(S), NEW p, Holds(s, p, w),
           NEW cut \in 0..Len(s), p + Len(w) <= cut + 1
    PROVE  Holds(SubSeq(s, 1, cut), p, w)
<1> DEFINE arrived == SubSeq(s, 1, cut)
<1>1. Len(arrived) = cut /\ \A i \in 1..cut : arrived[i] = s[i]
  BY CutFacts
<1> HIDE DEF arrived
<1>2. /\ p \in Nat \ {0} /\ Len(w) \in Nat /\ cut \in Nat
      /\ \A i \in 1..Len(w) : s[p + i - 1] = w[i]
  BY DEF Holds
<1>3. \A i \in 1..Len(w) : p + i - 1 \in 1..cut
  BY <1>2
<1> QED
  BY <1>1, <1>2, <1>3 DEF Holds, arrived

\* What the cut falls into is broken.
LEMMA BrokenAtCut ==
    ASSUME NEW S, NEW s \in Seq(S), NEW w \in Seq(S), NEW p, Holds(s, p, w),
           NEW cut \in 0..Len(s), p <= cut + 1, cut + 1 < p + Len(w)
    PROVE  Breaks(SubSeq(s, 1, cut), p, w)
<1> DEFINE arrived == SubSeq(s, 1, cut)
<1>1. Len(arrived) = cut /\ \A i \in 1..cut : arrived[i] = s[i]
  BY CutFacts
<1> HIDE DEF arrived
<1>2. /\ p \in Nat \ {0} /\ Len(w) \in Nat /\ cut \in Nat
      /\ \A i \in 1..Len(w) : s[p + i - 1] = w[i]
  BY DEF Holds
<1>3. \A i \in 1..Len(w) : p + i - 1 <= cut => p + i - 1 \in 1..cut
  BY <1>2
<1> QED
  BY <1>1, <1>2, <1>3 DEF Breaks, arrived

\* What is held is what is taken from there.
LEMMA HeldTaken ==
    ASSUME NEW S, NEW s \in Seq(S), NEW w \in Seq(S), NEW p, Holds(s, p, w)
    PROVE  SubSeq(s, p, p + Len(w) - 1) = w
<1> DEFINE n == Len(w)
           last == p + n - 1
           sub == SubSeq(s, p, last)
<1>1. /\ n \in Nat /\ p \in Nat \ {0} /\ p + n <= Len(s) + 1 /\ Len(s) \in Nat
      /\ \A i \in 1..n : s[p + i - 1] = w[i]
  BY DEF Holds
<1>2. last \in Int /\ p \in Int /\ last - p + 1 = n /\ (p <= last <=> n > 0)
  BY <1>1
<1>3. \A i \in p..last : s[i] \in S
  <2>1. \A i \in p..last : i \in 1..Len(s)
    BY <1>1
  <2> QED
    BY <2>1
<1> HIDE DEF last, n
<1>4. /\ sub \in Seq(S)
      /\ Len(sub) = IF p <= last THEN last - p + 1 ELSE 0
      /\ \A i \in 1..(last - p + 1) : sub[i] = s[p + i - 1]
  BY <1>2, <1>3, SubSeqProperties
<1> HIDE DEF sub
<1>5. Len(sub) = n
  BY <1>1, <1>2, <1>4
<1>6. \A i \in 1..n : sub[i] = w[i]
  BY <1>1, <1>2, <1>4
<1>7. sub = w
  BY <1>4, <1>5, <1>6, SeqEqual DEF n
<1> QED
  BY <1>7 DEF sub, last, n

\* At the end of a stream nothing is left of what is not empty.
LEMMA EndBreaks ==
    ASSUME NEW S, NEW s \in Seq(S), NEW w \in Seq(S), Len(w) > 0
    PROVE  Breaks(s, Len(s) + 1, w)
<1>1. Len(s) \in Nat /\ Len(w) \in Nat
  OBVIOUS
<1>2. \A i \in 1..Len(w) : ~ (Len(s) + 1 + i - 1 <= Len(s))
  BY <1>1
<1> QED
  BY <1>1, <1>2 DEF Breaks

-----------------------------------------------------------------------------
(* Strings and frames. *)

\* What a block is made of: its length, which is read back, and its content.
LEMMA BlockFacts ==
    ASSUME NEW b \in Seq(Bytes), Len(b) <= MaxPacket
    PROVE  /\ ToBits(Len(b)) \in SUBSET Bits
           /\ Sign \notin ToBits(Len(b))
           /\ Number(ToBits(Len(b))) = Len(b)
           /\ EncodeVarint(ToBits(Len(b))) \in Seq(Bytes)
           /\ Len(EncodeVarint(ToBits(Len(b)))) \in 1..5
           /\ WriteBlock(b) \in Seq(Bytes)
           /\ Len(WriteBlock(b)) = Len(EncodeVarint(ToBits(Len(b)))) + Len(b)
<1>1. MaxPacket \in Nat /\ MaxPacket < 2^31
  BY SMT DEF MaxPacket
<1>2. Len(b) \in Nat /\ Len(b) < 2^31
  BY <1>1
<1>3. ToBits(Len(b)) \in SUBSET (0..30) /\ Number(ToBits(Len(b))) = Len(b)
  BY <1>2, ToBitsFacts
<1>4. ToBits(Len(b)) \in SUBSET Bits /\ Sign \notin ToBits(Len(b))
  <2>1. 0..30 \in SUBSET (0..31) /\ 31 \notin 0..30
    OBVIOUS
  <2> QED
    BY <1>3, <2>1 DEF Bits, Sign
<1>5. /\ EncodeVarint(ToBits(Len(b))) \in Seq(Bytes)
      /\ Len(EncodeVarint(ToBits(Len(b)))) \in 1..5
  BY <1>4, EncodeFacts
<1>6. /\ WriteBlock(b) \in Seq(Bytes)
      /\ Len(WriteBlock(b)) = Len(EncodeVarint(ToBits(Len(b)))) + Len(b)
  BY <1>5, ConcatProperties DEF WriteBlock
<1> QED
  BY <1>3, <1>4, <1>5, <1>6

\* What was written, within the limit, is read as it was written.
LEMMA BlockHeld ==
    ASSUME NEW b \in Seq(Bytes), NEW limit \in Nat, Len(b) <= limit,
           limit <= MaxPacket, NEW s \in Seq(Bytes), NEW p,
           Holds(s, p, WriteBlock(b))
    PROVE  ReadBlock(s, p, limit) = Decoded(b, p + Len(WriteBlock(b)))
<1> DEFINE v == ToBits(Len(b))
           code == EncodeVarint(v)
           next == p + Len(code)
           length == DecodeVarint(s, p)
<1>1. Len(b) \in Nat /\ Len(s) \in Nat /\ Len(b) <= MaxPacket
  <2>1. Len(b) \in Nat /\ Len(s) \in Nat /\ MaxPacket \in Nat
    BY SMT DEF MaxPacket
  <2> QED
    BY <2>1
<1>2. /\ v \in SUBSET Bits /\ Sign \notin v /\ Number(v) = Len(b)
      /\ code \in Seq(Bytes) /\ Len(code) \in 1..5
      /\ Len(WriteBlock(b)) = Len(code) + Len(b)
  BY <1>1, BlockFacts
<1>3. Holds(s, p, code) /\ Holds(s, next, b)
  <2>1. Holds(s, p, code \o b)
    BY DEF WriteBlock
  <2> QED
    BY <1>2, <2>1, HeldParts
<1>4. length = Decoded(v, next)
  BY <1>2, <1>3, DecodeHeld
<1>5. length.ok /\ length.value = v /\ length.next = next
  BY <1>4 DEF Decoded
<1> HIDE DEF v, code, length, next
<1>6. /\ next \in Nat \ {0} /\ next + Len(b) <= Len(s) + 1
      /\ \A i \in 1..Len(b) : s[next + i - 1] = b[i]
  BY <1>3 DEF Holds
<1>7. SubSeq(s, next, next + Len(b) - 1) = b
  BY <1>3, HeldTaken
<1>8. Len(b) <= Len(s) + 1 - next
  BY <1>1, <1>6
<1>9. next + Len(b) = p + Len(WriteBlock(b))
  <2>1. p \in Nat
    BY DEF Holds
  <2> QED
    BY <1>1, <1>2, <2>1 DEF next
<1>10. ReadBlock(s, p, limit)
           = IF /\ length.ok /\ Sign \notin length.value
                /\ Number(length.value) <= limit
                /\ Number(length.value) <= Len(s) + 1 - length.next
             THEN Decoded(SubSeq(s, length.next, length.next + Number(length.value) - 1),
                          length.next + Number(length.value))
             ELSE Failed
  BY DEF ReadBlock, length
<1> QED
  BY <1>2, <1>5, <1>7, <1>8, <1>9, <1>10

\* A length below zero or above the limit is refused, whatever follows it.
LEMMA LengthRefused ==
    ASSUME NEW v \in SUBSET Bits, NEW limit, NEW s \in Seq(Bytes),
           Holds(s, 1, EncodeVarint(v)), Sign \in v \/ ~ (Number(v) <= limit)
    PROVE  ~ReadBlock(s, 1, limit).ok
<1> DEFINE length == DecodeVarint(s, 1)
<1>1. length.value = v
  BY DecodeHeld DEF Decoded
<1> HIDE DEF length
<1>2. CASE Sign \in v
  BY <1>1, <1>2 DEF ReadBlock, Failed, length
<1>3. CASE ~ (Number(v) <= limit)
  BY <1>1, <1>3 DEF ReadBlock, Failed, length
<1> QED
  BY <1>2, <1>3

\* A block is read up to a limit of its length and no lower, and not under a
\* negative length.
LEMMA LimitsKept ==
    ASSUME NEW b \in Seq(Bytes), Len(b) <= MaxPacket
    PROVE  /\ ReadBlock(WriteBlock(b), 1, Len(b)).ok
           /\ ~ReadBlock(WriteBlock(b), 1, Len(b) - 1).ok
           /\ ~ReadPacket(EncodeVarint(ToBits(Len(b)) \cup {Sign}) \o b, 1).ok
<1> DEFINE v == ToBits(Len(b))
           code == EncodeVarint(v)
           below == EncodeVarint(v \cup {Sign})
<1>1. /\ v \in SUBSET Bits /\ Number(v) = Len(b)
      /\ code \in Seq(Bytes) /\ WriteBlock(b) \in Seq(Bytes)
      /\ WriteBlock(b) = code \o b
  BY BlockFacts DEF WriteBlock
<1>2. v \cup {Sign} \in SUBSET Bits
  BY <1>1 DEF Bits, Sign
<1>3. below \in Seq(Bytes)
  BY <1>2, EncodeFacts
<1> HIDE DEF v, code, below
<1>4. Holds(WriteBlock(b), 1, WriteBlock(b))
  BY <1>1, WholeHeld
<1>5. ReadBlock(WriteBlock(b), 1, Len(b)).ok
  <2>1. Len(b) \in Nat /\ Len(b) <= Len(b)
    OBVIOUS
  <2>2. ReadBlock(WriteBlock(b), 1, Len(b))
            = Decoded(b, 1 + Len(WriteBlock(b)))
    BY <1>1, <1>4, <2>1, BlockHeld
  <2> QED
    BY <2>2 DEF Decoded
<1>6. ~ReadBlock(WriteBlock(b), 1, Len(b) - 1).ok
  <2>1. Holds(WriteBlock(b), 1, EncodeVarint(v))
    BY <1>1, FirstHeld DEF code
  <2>2. ~ (Number(v) <= Len(b) - 1)
    BY <1>1
  <2> QED
    BY <1>1, <2>1, <2>2, LengthRefused
<1>7. ~ReadPacket(below \o b, 1).ok
  <2>1. below \o b \in Seq(Bytes) /\ Holds(below \o b, 1, below)
    BY <1>3, FirstHeld, ConcatProperties
  <2>2. ~ReadBlock(below \o b, 1, MaxPacket).ok
    BY <1>2, <2>1, LengthRefused DEF below
  <2> QED
    BY <2>2 DEF ReadPacket
<1> QED
  BY <1>5, <1>6, <1>7 DEF below, v

\* What has not arrived in full is not read.
LEMMA BlockBroken ==
    ASSUME NEW b \in Seq(Bytes), Len(b) <= MaxPacket, NEW limit,
           NEW s \in Seq(Bytes), NEW p, Breaks(s, p, WriteBlock(b))
    PROVE  ReadBlock(s, p, limit) = Failed
<1> DEFINE v == ToBits(Len(b))
           code == EncodeVarint(v)
           next == p + Len(code)
           length == DecodeVarint(s, p)
<1>1. Len(b) \in Nat /\ Len(s) \in Nat
  OBVIOUS
<1>2. /\ v \in SUBSET Bits /\ Sign \notin v /\ Number(v) = Len(b)
      /\ code \in Seq(Bytes) /\ Len(code) \in 1..5
  BY BlockFacts
<1>3. Breaks(s, p, code) \/ (Holds(s, p, code) /\ Breaks(s, next, b))
  <2>1. Breaks(s, p, code \o b)
    BY DEF WriteBlock
  <2> QED
    BY <1>2, <2>1, BrokenParts
<1>4. ReadBlock(s, p, limit)
          = IF /\ length.ok /\ Sign \notin length.value
               /\ Number(length.value) <= limit
               /\ Number(length.value) <= Len(s) + 1 - length.next
            THEN Decoded(SubSeq(s, length.next, length.next + Number(length.value) - 1),
                         length.next + Number(length.value))
            ELSE Failed
  BY DEF ReadBlock
<1>5. CASE Breaks(s, p, code)
  <2>1. length = Failed
    BY <1>2, <1>5, DecodeBroken
  <2>2. ~ length.ok
    BY <2>1 DEF Failed
  <2> QED
    BY <1>4, <2>2
<1>6. CASE Holds(s, p, code) /\ Breaks(s, next, b)
  <2>1. length = Decoded(v, next)
    BY <1>2, <1>6, DecodeHeld
  <2>2. length.value = v /\ length.next = next
    BY <2>1 DEF Decoded
  <2> HIDE DEF v, code, length, next
  <2>3. next \in Nat /\ Len(s) + 1 < next + Len(b)
    BY <1>6 DEF Breaks
  <2>4. ~ (Len(b) <= Len(s) + 1 - next)
    BY <1>1, <2>3
  <2> QED
    BY <1>2, <1>4, <2>2, <2>4
<1> QED
  BY <1>3, <1>5, <1>6

\* The limits, and the packets without a content.
LEMMA PacketSizes ==
    /\ MaxPacket \in Nat /\ MaxString \in Nat /\ MaxString + 6 <= MaxPacket
    /\ 300 <= MaxString
    /\ {} \in SUBSET Bits /\ {0} \in SUBSET Bits
    /\ EncodeVarint({}) \in Seq(Bytes) /\ Len(EncodeVarint({})) = 1
    /\ EncodeVarint({0}) \in Seq(Bytes) /\ Len(EncodeVarint({0})) = 1
    /\ EncodeVarint({1}) \in Seq(Bytes)
<1>1. /\ MaxPacket \in Nat /\ MaxString \in Nat /\ MaxString + 6 <= MaxPacket
      /\ 300 <= MaxString
  BY SMT DEF MaxPacket, MaxString
<1>2. {} \in SUBSET Bits /\ {0} \in SUBSET Bits /\ {1} \in SUBSET Bits
  BY DEF Bits
<1>3. EncodeVarint({}) \in Seq(Bytes) /\ Len(EncodeVarint({})) = 1
  BY <1>2, EncodeFacts
<1>4. /\ EncodeVarint({0}) \in Seq(Bytes)
      /\ \E c \in {0} : Len(EncodeVarint({0})) = c \div 7 + 1
  BY <1>2, EncodeFacts
<1>5. EncodeVarint({1}) \in Seq(Bytes)
  BY <1>2, EncodeFacts
<1> QED
  BY <1>1, <1>2, <1>3, <1>4, <1>5

\* Any two packets up to the limit, on a stream that is cut anywhere, are read
\* as they were written, in order and not before they have arrived in full.
THEOREM PacketsInStep ==
    ASSUME NEW a \in Seq(Bytes), Len(a) <= MaxPacket,
           NEW b \in Seq(Bytes), Len(b) <= MaxPacket
    PROVE  LET one    == WriteBlock(a)
               stream == one \o WriteBlock(b)
           IN  /\ ReadPacket(stream, 1) = Decoded(a, Len(one) + 1)
               /\ ReadPacket(stream, Len(one) + 1) = Decoded(b, Len(stream) + 1)
               /\ \A cut \in 0..(Len(stream) - 1) :
                     LET arrived == SubSeq(stream, 1, cut)
                     IN  /\ ReadPacket(arrived, 1).ok <=> cut >= Len(one)
                         /\ cut >= Len(one) =>
                               ~ReadPacket(arrived, Len(one) + 1).ok
<1> DEFINE one == WriteBlock(a)
           two == WriteBlock(b)
           stream == one \o two
           n == Len(one)
           m == Len(two)
<1>1. one \in Seq(Bytes) /\ two \in Seq(Bytes)
  BY BlockFacts
<1>2. stream \in Seq(Bytes) /\ Len(stream) = n + m
  <2> HIDE DEF one, two
  <2> QED
    BY <1>1, ConcatProperties
<1>3. Holds(stream, 1, one) /\ Holds(stream, n + 1, two)
  <2> HIDE DEF one, two
  <2> QED
    BY <1>1, FirstHeld, SecondHeld
<1>4. n \in Nat /\ m \in Nat
  <2> HIDE DEF one, two
  <2> QED
    BY <1>1
<1>5. MaxPacket \in Nat /\ MaxPacket <= MaxPacket
  BY PacketSizes
<1> HIDE DEF stream
<1>6. ReadPacket(stream, 1) = Decoded(a, 1 + n)
  BY <1>2, <1>3, <1>5, BlockHeld DEF ReadPacket
<1>7. ReadPacket(stream, n + 1) = Decoded(b, n + 1 + m)
  BY <1>2, <1>3, <1>5, BlockHeld DEF ReadPacket
<1>8. ASSUME NEW cut \in 0..(Len(stream) - 1)
      PROVE  LET arrived == SubSeq(stream, 1, cut)
             IN  /\ ReadPacket(arrived, 1).ok <=> cut >= n
                 /\ cut >= n => ~ReadPacket(arrived, n + 1).ok
  <2> DEFINE arrived == SubSeq(stream, 1, cut)
  <2>1. cut \in 0..Len(stream) /\ cut \in Nat /\ cut < n + m
    BY <1>2, <1>4
  <2>2. arrived \in Seq(Bytes)
    BY <1>2, <2>1, CutFacts
  <2>3. CASE cut >= n
    <3>1. 1 + n <= cut + 1 /\ n + 1 <= cut + 1 /\ cut + 1 < n + 1 + m
      BY <1>4, <2>1, <2>3
    <3>2. Holds(arrived, 1, one)
      <4> HIDE DEF one, two
      <4> QED
        BY <1>1, <1>2, <1>3, <2>1, <3>1, HeldBeforeCut
    <3>3. Breaks(arrived, n + 1, two)
      <4> HIDE DEF one, two
      <4> QED
        BY <1>1, <1>2, <1>3, <2>1, <3>1, BrokenAtCut
    <3> HIDE DEF arrived
    <3>4. ReadPacket(arrived, 1) = Decoded(a, 1 + n)
      BY <1>5, <2>2, <3>2, BlockHeld DEF ReadPacket
    <3>5. ReadPacket(arrived, n + 1) = Failed
      BY <2>2, <3>3, BlockBroken DEF ReadPacket
    <3> QED
      BY <2>3, <3>4, <3>5 DEF arrived, Decoded, Failed
  <2>4. CASE ~ (cut >= n)
    <3>1. 1 <= cut + 1 /\ cut + 1 < 1 + n
      BY <1>4, <2>1, <2>4
    <3>2. Breaks(arrived, 1, one)
      <4> HIDE DEF one, two
      <4> QED
        BY <1>1, <1>2, <1>3, <2>1, <3>1, BrokenAtCut
    <3> HIDE DEF arrived
    <3>3. ReadPacket(arrived, 1) = Failed
      BY <2>2, <3>2, BlockBroken DEF ReadPacket
    <3> QED
      BY <2>4, <3>3 DEF arrived, Failed
  <2> QED
    BY <2>3, <2>4
<1>9. 1 + n = n + 1 /\ n + 1 + m = Len(stream) + 1
  BY <1>2, <1>4
<1> QED
  BY <1>6, <1>7, <1>8, <1>9 DEF stream

\* A status request is answered with the text, whatever it is, and with the
\* ping that follows it as it was sent.
THEOREM StatusAnswered ==
    ASSUME NEW text \in Seq(Bytes), Len(text) <= MaxString,
           NEW body \in Seq(Bytes), Len(body) + 1 <= MaxPacket
    PROVE  LET ping    == EncodeVarint({0}) \o body
               request == WriteBlock(EncodeVarint({}))
               answer  == ServeStatus(request \o WriteBlock(ping), text)
               status  == ReadPacket(answer, 1)
           IN  /\ status.ok
               /\ DecodeVarint(status.value, 1) = Decoded({}, 2)
               /\ ReadString(status.value, 2)
                      = Decoded(text, Len(status.value) + 1)
               /\ ReadPacket(answer, status.next) = Decoded(ping, Len(answer) + 1)
               /\ ServeStatus(request, text) = SubSeq(answer, 1, status.next - 1)
<1> DEFINE zero    == EncodeVarint({})
           one     == EncodeVarint({0})
           ping    == one \o body
           request == WriteBlock(zero)
           pinged  == WriteBlock(ping)
           sent    == request \o pinged
           block   == WriteBlock(text)
           inner   == zero \o block
           shown   == WriteBlock(inner)
           answer  == shown \o pinged
           r       == Len(request)
           k       == Len(shown)
           q       == Len(pinged)
<1> HIDE DEF zero, one, ping, request, pinged, sent, block, inner, shown, answer, r, k, q
<1>0. /\ MaxPacket \in Nat /\ MaxString \in Nat /\ MaxString + 6 <= MaxPacket
      /\ {} \in SUBSET Bits /\ {0} \in SUBSET Bits
      /\ zero \in Seq(Bytes) /\ Len(zero) = 1
      /\ one \in Seq(Bytes) /\ Len(one) = 1
  BY PacketSizes DEF zero, one
<1>1. Len(text) \in Nat /\ Len(body) \in Nat /\ MaxPacket <= MaxPacket
  BY <1>0
<1>2. Len(text) <= MaxPacket /\ Len(zero) <= MaxPacket /\ MaxString <= MaxPacket
  BY <1>0, <1>1
<1>3. ping \in Seq(Bytes) /\ Len(ping) <= MaxPacket /\ Len(ping) \in Nat
  <2>1. ping \in Seq(Bytes) /\ Len(ping) = Len(one) + Len(body)
    BY <1>0, ConcatProperties DEF ping
  <2>2. Len(ping) = Len(body) + 1
    BY <1>0, <1>1, <2>1
  <2> QED
    BY <1>1, <2>1, <2>2
<1>4. /\ request \in Seq(Bytes) /\ pinged \in Seq(Bytes) /\ block \in Seq(Bytes)
      /\ Len(block) \in Nat
  <2>1. request \in Seq(Bytes)
    BY <1>0, <1>2, BlockFacts DEF request
  <2>2. pinged \in Seq(Bytes)
    BY <1>3, BlockFacts DEF pinged
  <2>3. block \in Seq(Bytes)
    BY <1>2, BlockFacts DEF block
  <2> QED
    BY <2>1, <2>2, <2>3
<1>5. inner \in Seq(Bytes) /\ Len(inner) = 1 + Len(block) /\ Len(inner) <= MaxPacket
  <2>1. inner \in Seq(Bytes) /\ Len(inner) = Len(zero) + Len(block)
    BY <1>0, <1>4, ConcatProperties DEF inner
  <2> DEFINE n == Len(EncodeVarint(ToBits(Len(text))))
  <2>2. Len(block) = n + Len(text) /\ n \in 1..5
    BY <1>2, BlockFacts DEF block
  <2> HIDE DEF n
  <2>3. 1 + (n + Len(text)) <= MaxString + 6
    BY <1>0, <1>1, <2>2
  <2>4. 1 + (n + Len(text)) <= MaxPacket
    BY <1>0, <1>1, <2>2, <2>3
  <2> QED
    BY <1>0, <2>1, <2>2, <2>4
<1>6. shown \in Seq(Bytes)
  BY <1>5, BlockFacts DEF shown
<1>7. TextPacket(text) = shown
  BY DEF TextPacket, shown, inner, block, zero
<1>8. r \in Nat /\ k \in Nat /\ q \in Nat
  BY <1>4, <1>6 DEF r, k, q
<1>9. sent \in Seq(Bytes) /\ Holds(sent, 1, request) /\ Holds(sent, r + 1, pinged)
  BY <1>4, ConcatProperties, FirstHeld, SecondHeld DEF sent, r
<1>10. /\ answer \in Seq(Bytes) /\ Len(answer) = k + q
       /\ Holds(answer, 1, shown) /\ Holds(answer, k + 1, pinged)
       /\ \A i \in 1..k : answer[i] = shown[i]
  <2>1. /\ answer \in Seq(Bytes) /\ Len(answer) = k + q
        /\ \A i \in 1..(k + q) : answer[i] = IF i <= k THEN shown[i] ELSE pinged[i - k]
    BY <1>4, <1>6, ConcatProperties DEF answer, k, q
  <2>2. \A i \in 1..k : i \in 1..(k + q) /\ i <= k
    BY <1>8
  <2>3. Holds(answer, 1, shown) /\ Holds(answer, k + 1, pinged)
    BY <1>4, <1>6, FirstHeld, SecondHeld DEF answer, k
  <2> QED
    BY <2>1, <2>2, <2>3
<1>11. DecodeVarint(zero, 1) = Decoded({}, 2)
  <2>1. Holds(zero, 1, zero)
    BY <1>0, WholeHeld
  <2>2. DecodeVarint(zero, 1) = Decoded({}, 1 + Len(zero))
    BY <1>0, <2>1, DecodeHeld DEF zero
  <2> QED
    BY <1>0, <2>2
<1>12. DecodeVarint(ping, 1) = Decoded({0}, 2)
  <2>1. Holds(ping, 1, one)
    BY <1>0, FirstHeld DEF ping
  <2>2. DecodeVarint(ping, 1) = Decoded({0}, 1 + Len(one))
    BY <1>0, <1>3, <2>1, DecodeHeld DEF one
  <2> QED
    BY <1>0, <2>2
<1>13. DecodeVarint(inner, 1) = Decoded({}, 2)
  <2>1. Holds(inner, 1, zero)
    BY <1>0, <1>4, FirstHeld DEF inner
  <2>2. DecodeVarint(inner, 1) = Decoded({}, 1 + Len(zero))
    BY <1>0, <1>5, <2>1, DecodeHeld DEF zero
  <2> QED
    BY <1>0, <2>2
<1>14. ReadString(inner, 2) = Decoded(text, Len(inner) + 1)
  <2>1. Holds(inner, Len(zero) + 1, block)
    BY <1>0, <1>4, SecondHeld DEF inner
  <2>2. Holds(inner, 2, WriteBlock(text))
    BY <1>0, <2>1 DEF block
  <2>3. ReadString(inner, 2) = Decoded(text, 2 + Len(block))
    BY <1>0, <1>2, <1>5, <2>2, BlockHeld DEF ReadString, block
  <2>4. 2 + Len(block) = Len(inner) + 1
    BY <1>4, <1>5
  <2> QED
    BY <2>3, <2>4
<1>15. ReadPacket(sent, 1) = Decoded(zero, r + 1)
  <2>1. ReadPacket(sent, 1) = Decoded(zero, 1 + r)
    <3>1. zero \in Seq(Bytes) /\ Len(zero) <= MaxPacket /\ MaxPacket \in Nat
      BY <1>0, <1>2
    <3>2. Holds(sent, 1, WriteBlock(zero))
      BY <1>9 DEF request
    <3>3. ReadBlock(sent, 1, MaxPacket) = Decoded(zero, 1 + Len(WriteBlock(zero)))
      BY <1>1, <1>9, <3>1, <3>2, BlockHeld
    <3> QED
      BY <3>3 DEF ReadPacket, request, r
  <2> QED
    BY <1>8, <2>1
<1>16. ReadPacket(sent, r + 1) = Decoded(ping, r + 1 + q)
  BY <1>0, <1>1, <1>3, <1>9, BlockHeld DEF ReadPacket, pinged, q
<1>17. ReadPacket(answer, 1) = Decoded(inner, k + 1)
  <2>1. ReadPacket(answer, 1) = Decoded(inner, 1 + k)
    BY <1>0, <1>1, <1>5, <1>10, BlockHeld DEF ReadPacket, shown, k
  <2> QED
    BY <1>8, <2>1
<1>18. ReadPacket(answer, k + 1) = Decoded(ping, Len(answer) + 1)
  <2>1. ReadPacket(answer, k + 1) = Decoded(ping, k + 1 + q)
    BY <1>0, <1>1, <1>3, <1>10, BlockHeld DEF ReadPacket, pinged, q
  <2>2. k + 1 + q = Len(answer) + 1
    BY <1>8, <1>10
  <2> QED
    BY <2>1, <2>2
<1>19. ReadPacket(request, 1) = Decoded(zero, r + 1)
  <2>1. Holds(request, 1, request)
    BY <1>4, WholeHeld
  <2>2. ReadPacket(request, 1) = Decoded(zero, 1 + r)
    <3>1. zero \in Seq(Bytes) /\ Len(zero) <= MaxPacket /\ MaxPacket \in Nat
      BY <1>0, <1>2
    <3>2. Holds(request, 1, WriteBlock(zero))
      BY <2>1 DEF request
    <3>3. ReadBlock(request, 1, MaxPacket) = Decoded(zero, 1 + Len(WriteBlock(zero)))
      BY <1>1, <1>4, <3>1, <3>2, BlockHeld
    <3> QED
      BY <3>3 DEF ReadPacket, request, r
  <2> QED
    BY <1>8, <2>2
<1>20. ReadPacket(request, r + 1) = Failed
  <2> DEFINE n == Len(EncodeVarint(ToBits(Len(ping))))
  <2>1. Len(pinged) = n + Len(ping) /\ n \in 1..5
    BY <1>3, BlockFacts DEF pinged
  <2> HIDE DEF n
  <2>2. Len(pinged) > 0
    BY <1>3, <2>1
  <2>3. Breaks(request, r + 1, pinged)
    BY <1>4, <2>2, EndBreaks DEF r
  <2> QED
    BY <1>3, <1>4, <2>3, BlockBroken DEF ReadPacket, pinged
<1>21. ServeStatus(sent, text) = answer
  <2>1. /\ ReadPacket(sent, 1).ok /\ ReadPacket(sent, 1).value = zero
        /\ ReadPacket(sent, 1).next = r + 1
    BY <1>15 DEF Decoded
  <2>2. DecodeVarint(zero, 1).ok /\ DecodeVarint(zero, 1).value = {}
    BY <1>11 DEF Decoded
  <2>3. ReadPacket(sent, r + 1).ok /\ ReadPacket(sent, r + 1).value = ping
    BY <1>16 DEF Decoded
  <2>4. DecodeVarint(ping, 1).ok /\ DecodeVarint(ping, 1).value = {0}
    BY <1>12 DEF Decoded
  <2> HIDE DEF ReadPacket, DecodeVarint, TextPacket, WriteBlock
  <2>5. ServeStatus(sent, text) = TextPacket(text) \o WriteBlock(ping)
    BY <2>1, <2>2, <2>3, <2>4 DEF ServeStatus
  <2> QED
    BY <1>7, <2>5 DEF answer, pinged
<1>22. ServeStatus(request, text) = shown
  <2>1. ServeStatus(request, text) = shown \o <<>>
    <3>1. /\ ReadPacket(request, 1).ok /\ ReadPacket(request, 1).value = zero
          /\ ReadPacket(request, 1).next = r + 1
      BY <1>19 DEF Decoded
    <3>2. DecodeVarint(zero, 1).ok /\ DecodeVarint(zero, 1).value = {}
      BY <1>11 DEF Decoded
    <3>3. ReadPacket(request, r + 1).ok = FALSE
      BY <1>20 DEF Failed
    <3> HIDE DEF ReadPacket, DecodeVarint, TextPacket
    <3>4. ServeStatus(request, text) = TextPacket(text) \o <<>>
      BY <3>1, <3>2, <3>3 DEF ServeStatus
    <3> QED
      BY <1>7, <3>4
  <2> QED
    BY <1>6, <2>1, ConcatEmptySeq
<1>23. SubSeq(answer, 1, k) = shown
  <2>1. k \in 0..Len(answer)
    BY <1>8, <1>10
  <2> DEFINE begun == SubSeq(answer, 1, k)
  <2>2. /\ begun \in Seq(Bytes) /\ Len(begun) = k
        /\ \A i \in 1..k : begun[i] = answer[i]
    BY <1>10, <2>1, CutFacts
  <2> HIDE DEF begun
  <2>3. begun = shown
    BY <1>6, <1>10, <2>2, SeqEqual DEF k
  <2> QED
    BY <2>3 DEF begun
<1>24. (k + 1) - 1 = k
  BY <1>8
<1>25. /\ ReadPacket(answer, 1).ok /\ ReadPacket(answer, 1).value = inner
       /\ ReadPacket(answer, 1).next = k + 1
  BY <1>17 DEF Decoded
<1>26. /\ ReadPacket(answer, 1).ok
       /\ DecodeVarint(ReadPacket(answer, 1).value, 1) = Decoded({}, 2)
       /\ ReadString(ReadPacket(answer, 1).value, 2)
              = Decoded(text, Len(ReadPacket(answer, 1).value) + 1)
       /\ ReadPacket(answer, ReadPacket(answer, 1).next)
              = Decoded(ping, Len(answer) + 1)
       /\ ServeStatus(request, text)
              = SubSeq(answer, 1, ReadPacket(answer, 1).next - 1)
  BY <1>13, <1>14, <1>18, <1>22, <1>23, <1>24, <1>25
<1>27. answer = ServeStatus(WriteBlock(EncodeVarint({}))
                                \o WriteBlock(EncodeVarint({0}) \o body), text)
  BY <1>21 DEF sent, request, pinged, ping, zero, one
<1> HIDE DEF ServeStatus, ReadPacket, ReadString, DecodeVarint
<1> QED
  BY <1>26, <1>27 DEF request, ping, zero, one

\* The bodies of MCFunctions.
LEMMA BodyFacts ==
    ASSUME NEW n \in BodyLengths
    PROVE  Body(n) \in Seq(Bytes) /\ Len(Body(n)) = n /\ n \in Nat /\ n <= 300
<1>1. n \in Nat /\ n <= 300
  BY DEF BodyLengths
<1>2. \A i \in 1..n : {i % 7} \in Bytes
  <2>1. ASSUME NEW i \in 1..n PROVE i % 7 \in 0..7
    BY <1>1
  <2> QED
    BY <2>1 DEF Bytes
<1> QED
  BY <1>1, <1>2 DEF Body

\* Packets are read in step, however the stream is cut, and the status is
\* answered for in full.
THEOREM FramesKeepStep == Spec => []FramesInStep
<1>1. InputTypes => FramesInStep
  <2> SUFFICES ASSUME InputTypes, kind = "frames" PROVE FramesInStep
    BY DEF FramesInStep
  <2> DEFINE a == Body(in[1])
             b == Body(in[2])
  <2>1. in[1] \in BodyLengths /\ in[2] \in BodyLengths
    BY DEF InputTypes
  <2>2. /\ a \in Seq(Bytes) /\ b \in Seq(Bytes)
        /\ Len(a) \in Nat /\ Len(a) <= 300 /\ Len(b) \in Nat /\ Len(b) <= 300
        /\ Len(a) = in[1]
    BY <2>1, BodyFacts
  <2> HIDE DEF a, b
  <2>3. /\ Len(a) <= MaxPacket /\ Len(a) <= MaxString
        /\ Len(b) <= MaxPacket /\ Len(b) + 1 <= MaxPacket
    <3>1. /\ MaxPacket \in Nat /\ MaxString \in Nat /\ MaxString + 6 <= MaxPacket
          /\ 300 <= MaxString
      BY PacketSizes
    <3>3. Len(a) <= MaxString /\ Len(b) <= MaxString
      BY <2>2, <3>1
    <3>4. \A m, n, l \in Nat : l <= m /\ m + 6 <= n => l <= n /\ l + 1 <= n
      OBVIOUS
    <3> QED
      BY <2>2, <3>1, <3>3, <3>4
  <2>4. LET one    == WriteBlock(a)
            stream == one \o WriteBlock(b)
        IN  /\ ReadPacket(stream, 1) = Decoded(a, Len(one) + 1)
            /\ ReadPacket(stream, Len(one) + 1) = Decoded(b, Len(stream) + 1)
            /\ \A cut \in 0..(Len(stream) - 1) :
                  LET arrived == SubSeq(stream, 1, cut)
                  IN  /\ ReadPacket(arrived, 1).ok <=> cut >= Len(one)
                      /\ cut >= Len(one) =>
                            ~ReadPacket(arrived, Len(one) + 1).ok
    BY <2>2, <2>3, PacketsInStep
  <2>5. LET ping    == EncodeVarint({0}) \o b
            request == WriteBlock(EncodeVarint({}))
            answer  == ServeStatus(request \o WriteBlock(ping), a)
            status  == ReadPacket(answer, 1)
        IN  /\ status.ok
            /\ DecodeVarint(status.value, 1) = Decoded({}, 2)
            /\ ReadString(status.value, 2) = Decoded(a, Len(status.value) + 1)
            /\ ReadPacket(answer, status.next) = Decoded(ping, Len(answer) + 1)
            /\ ServeStatus(request, a) = SubSeq(answer, 1, status.next - 1)
    BY <2>2, <2>3, StatusAnswered
  <2>6. /\ ReadBlock(WriteBlock(a), 1, in[1]).ok
        /\ ~ReadBlock(WriteBlock(a), 1, in[1] - 1).ok
        /\ ~ReadPacket(EncodeVarint(ToBits(in[1]) \cup {Sign}) \o a, 1).ok
    BY <2>2, <2>3, LimitsKept
  <2> QED
    BY <2>4, <2>5, <2>6 DEF FramesInStep, a, b
<1> QED
  BY <1>1, TypedInputs, PTL

-----------------------------------------------------------------------------
(* The handshake. *)

\* A handshake whose parts begin at 1, pb, pc, pd and pd + 2 breaks off in one.
BreaksWithin(s, pb, pc, pd, version, address, port, next) ==
    \/ Breaks(s, 1, EncodeVarint({}))
    \/ /\ Holds(s, 1, EncodeVarint({}))
       /\ Breaks(s, pb, EncodeVarint(version))
    \/ /\ Holds(s, 1, EncodeVarint({})) /\ Holds(s, pb, EncodeVarint(version))
       /\ Breaks(s, pc, WriteBlock(address))
    \/ /\ Holds(s, 1, EncodeVarint({})) /\ Holds(s, pb, EncodeVarint(version))
       /\ Holds(s, pc, WriteBlock(address))
       /\ Breaks(s, pd, port)
    \/ /\ Holds(s, 1, EncodeVarint({})) /\ Holds(s, pb, EncodeVarint(version))
       /\ Holds(s, pc, WriteBlock(address)) /\ Holds(s, pd, port)
       /\ Breaks(s, pd + 2, EncodeVarint(next))

\* A handshake is not understood when one of its fields is broken.
LEMMA HandshakeBroken ==
    ASSUME NEW version \in SUBSET Bits,
           NEW address \in Seq(Bytes), Len(address) <= MaxString,
           NEW port \in Seq(Bytes), Len(port) = 2,
           NEW next \in {{0}, {1}},
           NEW s \in Seq(Bytes), NEW pb, NEW pc, NEW pd,
           pb = 1 + Len(EncodeVarint({})),
           pc = pb + Len(EncodeVarint(version)),
           pd = pc + Len(WriteBlock(address)),
           BreaksWithin(s, pb, pc, pd, version, address, port, next)
    PROVE  ParseHandshake(s).ok = FALSE
<1>1. {} \in SUBSET Bits /\ next \in SUBSET Bits
  BY DEF Bits
<1> DEFINE id      == DecodeVarint(s, 1)
           version_ == DecodeVarint(s, id.next)
           address_ == ReadString(s, version_.next)
           next_    == DecodeVarint(s, address_.next + 2)
           accepted == /\ id.ok /\ id.value = {}
                       /\ version_.ok
                       /\ address_.ok
                       /\ address_.next + 1 <= Len(s)
                       /\ next_.ok /\ next_.value \in {{0}, {1}}
<1>2. ~accepted => ParseHandshake(s) = Failed
  BY DEF ParseHandshake
<1>3. CASE Breaks(s, 1, EncodeVarint({}))
  <2>1. id = Failed
    BY <1>1, <1>3, DecodeBroken
  <2> QED
    BY <1>2, <2>1 DEF Failed
<1>4. ASSUME Holds(s, 1, EncodeVarint({})) PROVE id.next = pb
  <2>1. id = Decoded({}, pb)
    BY <1>1, <1>4, DecodeHeld
  <2> QED
    BY <2>1 DEF Decoded
<1>5. CASE Holds(s, 1, EncodeVarint({})) /\ Breaks(s, pb, EncodeVarint(version))
  <2>1. DecodeVarint(s, pb) = Failed
    BY <1>5, DecodeBroken
  <2>2. version_ = Failed
    BY <1>4, <1>5, <2>1
  <2>3. version_.ok = FALSE
    BY <2>2 DEF Failed
  <2> HIDE DEF version_
  <2> QED
    BY <1>2, <2>3 DEF Failed
<1>6. ASSUME Holds(s, 1, EncodeVarint({})), Holds(s, pb, EncodeVarint(version))
      PROVE  version_.next = pc
  <2>1. DecodeVarint(s, pb) = Decoded(version, pc)
    BY <1>6, DecodeHeld
  <2>2. version_ = Decoded(version, pc)
    BY <1>4, <1>6, <2>1
  <2> QED
    BY <2>2 DEF Decoded
<1>7. CASE /\ Holds(s, 1, EncodeVarint({})) /\ Holds(s, pb, EncodeVarint(version))
           /\ Breaks(s, pc, WriteBlock(address))
  <2>1. Len(address) <= MaxPacket
    <3>1. Len(address) \in Nat
      OBVIOUS
    <3> QED
      BY <3>1, PacketSizes
  <2>2. ReadString(s, pc) = Failed
    BY <1>7, <2>1, BlockBroken DEF ReadString
  <2>3. address_ = Failed
    BY <1>6, <1>7, <2>2
  <2>4. address_.ok = FALSE
    BY <2>3 DEF Failed
  <2> HIDE DEF address_
  <2> QED
    BY <1>2, <2>4 DEF Failed
<1>8. ASSUME Holds(s, 1, EncodeVarint({})), Holds(s, pb, EncodeVarint(version)),
             Holds(s, pc, WriteBlock(address))
      PROVE  address_.next = pd
  <2>1. MaxString \in Nat /\ MaxString <= MaxPacket
    BY PacketSizes
  <2>2. ReadString(s, pc) = Decoded(address, pd)
    BY <1>8, <2>1, BlockHeld DEF ReadString
  <2>3. address_ = Decoded(address, pd)
    BY <1>6, <1>8, <2>2
  <2> QED
    BY <2>3 DEF Decoded
<1>9. CASE /\ Holds(s, 1, EncodeVarint({})) /\ Holds(s, pb, EncodeVarint(version))
           /\ Holds(s, pc, WriteBlock(address)) /\ Breaks(s, pd, port)
  <2>1. pd \in Nat /\ Len(s) \in Nat /\ Len(s) + 1 < pd + 2
    BY <1>9 DEF Breaks
  <2>2. ~ (pd + 1 <= Len(s))
    BY <2>1
  <2>3. ~ (address_.next + 1 <= Len(s))
    BY <1>8, <1>9, <2>2
  <2> HIDE DEF address_
  <2> QED
    BY <1>2, <2>3 DEF Failed
<1>10. CASE /\ Holds(s, 1, EncodeVarint({})) /\ Holds(s, pb, EncodeVarint(version))
            /\ Holds(s, pc, WriteBlock(address))
            /\ Breaks(s, pd + 2, EncodeVarint(next))
  <2>1. DecodeVarint(s, pd + 2) = Failed
    BY <1>1, <1>10, DecodeBroken
  <2>2. next_ = Failed
    BY <1>8, <1>10, <2>1
  <2>3. next_.ok = FALSE
    BY <2>2 DEF Failed
  <2> HIDE DEF next_
  <2> QED
    BY <1>2, <2>3 DEF Failed
<1> QED
  BY <1>3, <1>5, <1>7, <1>9, <1>10 DEF BreaksWithin

\* A handshake is read to its last byte, and none of its strict prefixes is
\* taken for one.
Understood(version, address, port, next) ==
    LET packet == EncodeVarint({}) \o EncodeVarint(version)
                      \o WriteBlock(address) \o port \o EncodeVarint(next)
    IN  /\ ParseHandshake(packet)
               = Decoded([version |-> version, address |-> address,
                          port |-> port, next |-> next], Len(packet) + 1)
        /\ \A cut \in 0..(Len(packet) - 1) :
              ~ParseHandshake(SubSeq(packet, 1, cut)).ok

\* Any handshake written field by field is understood, up to the longest
\* address, and no shorter part of it is.
THEOREM HandshakeRead ==
    ASSUME NEW version \in SUBSET Bits,
           NEW address \in Seq(Bytes), Len(address) <= MaxString,
           NEW port \in Seq(Bytes), Len(port) = 2,
           NEW next \in {{0}, {1}}
    PROVE  Understood(version, address, port, next)
<1> DEFINE a == EncodeVarint({})
           b == EncodeVarint(version)
           c == WriteBlock(address)
           d == port
           e == EncodeVarint(next)
           ab == a \o b
           abc == ab \o c
           abcd == abc \o d
           packet == abcd \o e
           pb == 1 + Len(a)
           pc == pb + Len(b)
           pd == pc + Len(c)
<1>1. a \in Seq(Bytes) /\ b \in Seq(Bytes) /\ c \in Seq(Bytes) /\ e \in Seq(Bytes)
  <2>1. {} \in SUBSET Bits /\ next \in SUBSET Bits
    BY DEF Bits
  <2>2. MaxString \in Nat /\ MaxPacket \in Nat /\ MaxString <= MaxPacket
    BY PacketSizes
  <2>3. Len(address) \in Nat
    OBVIOUS
  <2>4. Len(address) <= MaxPacket
    BY <2>2, <2>3
  <2>5. a \in Seq(Bytes) /\ e \in Seq(Bytes) /\ b \in Seq(Bytes)
    BY <2>1, EncodeFacts
  <2>6. c \in Seq(Bytes)
    BY <2>4, BlockFacts
  <2> QED
    BY <2>5, <2>6
<1> HIDE DEF a, b, c, e, ab, abc, abcd, packet, pb, pc, pd
<1>2. d \in Seq(Bytes) /\ Len(d) = 2
  OBVIOUS
<1> HIDE DEF d
<1>3. /\ ab \in Seq(Bytes) /\ Len(ab) = Len(a) + Len(b)
      /\ abc \in Seq(Bytes) /\ Len(abc) = Len(ab) + Len(c)
      /\ abcd \in Seq(Bytes) /\ Len(abcd) = Len(abc) + Len(d)
      /\ packet \in Seq(Bytes) /\ Len(packet) = Len(abcd) + Len(e)
  <2>1. ab \in Seq(Bytes) /\ Len(ab) = Len(a) + Len(b)
    BY <1>1, Together DEF ab
  <2>2. abc \in Seq(Bytes) /\ Len(abc) = Len(ab) + Len(c)
    BY <1>1, <2>1, Together DEF abc
  <2>3. abcd \in Seq(Bytes) /\ Len(abcd) = Len(abc) + Len(d)
    BY <1>2, <2>2, Together DEF abcd
  <2>4. packet \in Seq(Bytes) /\ Len(packet) = Len(abcd) + Len(e)
    BY <1>1, <2>3, Together DEF packet
  <2> QED
    BY <2>1, <2>2, <2>3, <2>4
<1>4. /\ Len(a) \in Nat /\ Len(b) \in Nat /\ Len(c) \in Nat /\ Len(e) \in Nat
      /\ Len(packet) \in Nat
  BY <1>1, <1>3
<1>5. /\ 1 + Len(a) = pb /\ 1 + Len(ab) = pc /\ 1 + Len(abc) = pd
      /\ 1 + Len(abcd) = pd + 2 /\ pd + 2 + Len(e) = Len(packet) + 1
  BY <1>2, <1>3, <1>4 DEF pb, pc, pd
<1>6. ASSUME NEW s \in Seq(Bytes), Holds(s, 1, packet)
      PROVE  /\ Holds(s, 1, a) /\ Holds(s, pb, b) /\ Holds(s, pc, c)
             /\ Holds(s, pd, d) /\ Holds(s, pd + 2, e)
  <2>1. Holds(s, 1, abcd) /\ Holds(s, pd + 2, e)
    BY <1>1, <1>3, <1>5, <1>6, HeldParts DEF packet
  <2>2. Holds(s, 1, abc) /\ Holds(s, pd, d)
    BY <1>2, <1>3, <1>5, <2>1, HeldParts DEF abcd
  <2>3. Holds(s, 1, ab) /\ Holds(s, pc, c)
    BY <1>1, <1>3, <1>5, <2>2, HeldParts DEF abc
  <2>4. Holds(s, 1, a) /\ Holds(s, pb, b)
    BY <1>1, <1>5, <2>3, HeldParts DEF ab
  <2> QED
    BY <2>1, <2>2, <2>3, <2>4
<1>7. ASSUME NEW s \in Seq(Bytes), Breaks(s, 1, packet)
      PROVE  \/ Breaks(s, 1, a)
             \/ Holds(s, 1, a) /\ Breaks(s, pb, b)
             \/ Holds(s, 1, a) /\ Holds(s, pb, b) /\ Breaks(s, pc, c)
             \/ /\ Holds(s, 1, a) /\ Holds(s, pb, b) /\ Holds(s, pc, c)
                /\ Breaks(s, pd, d)
             \/ /\ Holds(s, 1, a) /\ Holds(s, pb, b) /\ Holds(s, pc, c)
                /\ Holds(s, pd, d) /\ Breaks(s, pd + 2, e)
  <2>1. Breaks(s, 1, abcd) \/ (Holds(s, 1, abcd) /\ Breaks(s, pd + 2, e))
    BY <1>1, <1>3, <1>5, <1>7, BrokenParts DEF packet
  <2>2. Breaks(s, 1, abcd) => Breaks(s, 1, abc) \/ (Holds(s, 1, abc) /\ Breaks(s, pd, d))
    BY <1>2, <1>3, <1>5, BrokenParts DEF abcd
  <2>3. Breaks(s, 1, abc) => Breaks(s, 1, ab) \/ (Holds(s, 1, ab) /\ Breaks(s, pc, c))
    BY <1>1, <1>3, <1>5, BrokenParts DEF abc
  <2>4. Breaks(s, 1, ab) => Breaks(s, 1, a) \/ (Holds(s, 1, a) /\ Breaks(s, pb, b))
    BY <1>1, <1>5, BrokenParts DEF ab
  <2>5. Holds(s, 1, abcd) => Holds(s, 1, abc) /\ Holds(s, pd, d)
    BY <1>2, <1>3, <1>5, HeldParts DEF abcd
  <2>6. Holds(s, 1, abc) => Holds(s, 1, ab) /\ Holds(s, pc, c)
    BY <1>1, <1>3, <1>5, HeldParts DEF abc
  <2>7. Holds(s, 1, ab) => Holds(s, 1, a) /\ Holds(s, pb, b)
    BY <1>1, <1>5, HeldParts DEF ab
  <2> QED
    BY <2>1, <2>2, <2>3, <2>4, <2>5, <2>6, <2>7
<1>8. ParseHandshake(packet)
          = Decoded([version |-> version, address |-> address, port |-> port,
                     next |-> next], Len(packet) + 1)
  <2>1. Holds(packet, 1, packet)
    BY <1>3, WholeHeld
  <2>2. /\ Holds(packet, 1, a) /\ Holds(packet, pb, b) /\ Holds(packet, pc, c)
        /\ Holds(packet, pd, d) /\ Holds(packet, pd + 2, e)
    BY <1>3, <1>6, <2>1
  <2>3. ParseHandshake(packet)
            = Decoded([version |-> version, address |-> address, port |-> port,
                       next |-> next], pd + 2 + Len(e))
    <3>1. /\ pb = 1 + Len(EncodeVarint({})) /\ pc = pb + Len(EncodeVarint(version))
          /\ pd = pc + Len(WriteBlock(address))
      BY DEF pb, pc, pd, a, b, c
    <3>2. packet \in Seq(Bytes)
      BY <1>3
    <3>3. /\ Holds(packet, 1, EncodeVarint({}))
          /\ Holds(packet, pb, EncodeVarint(version))
          /\ Holds(packet, pc, WriteBlock(address))
          /\ Holds(packet, pd, port)
          /\ Holds(packet, pd + 2, EncodeVarint(next))
      BY <2>2 DEF a, b, c, d, e
    <3>4. /\ pd + 1 <= Len(packet) /\ SubSeq(packet, pd, pd + 1) = port
          /\ DecodeVarint(packet, 1) = Decoded({}, pb)
          /\ DecodeVarint(packet, pb) = Decoded(version, pc)
          /\ ReadString(packet, pc) = Decoded(address, pd)
          /\ DecodeVarint(packet, pd + 2)
                 = Decoded(next, pd + 2 + Len(EncodeVarint(next)))
      <4>1. {} \in SUBSET Bits /\ next \in SUBSET Bits
        BY DEF Bits
      <4>2. DecodeVarint(packet, 1) = Decoded({}, pb)
        BY <3>1, <3>2, <3>3, <4>1, DecodeHeld
      <4>3. DecodeVarint(packet, pb) = Decoded(version, pc)
        BY <3>1, <3>2, <3>3, DecodeHeld
      <4>4. ReadString(packet, pc) = Decoded(address, pd)
        <5>1. MaxString \in Nat /\ MaxString <= MaxPacket
          BY PacketSizes
        <5> QED
          BY <3>1, <3>2, <3>3, <5>1, BlockHeld DEF ReadString
      <4>5. DecodeVarint(packet, pd + 2)
                = Decoded(next, pd + 2 + Len(EncodeVarint(next)))
        BY <3>2, <3>3, <4>1, DecodeHeld
      <4>6. /\ pd \in Nat /\ pd + 2 <= Len(packet) + 1
            /\ SubSeq(packet, pd, pd + 2 - 1) = port
        <5>1. pd \in Nat /\ pd + Len(port) <= Len(packet) + 1
          BY <3>3 DEF Holds
        <5>2. SubSeq(packet, pd, pd + Len(port) - 1) = port
          BY <3>2, <3>3, HeldTaken
        <5> QED
          BY <5>1, <5>2
      <4>7. pd + 2 - 1 = pd + 1 /\ pd + 1 <= Len(packet)
        BY <1>4, <4>6
      <4>8. SubSeq(packet, pd, pd + 1) = port
        BY <4>6, <4>7
      <4> QED
        BY <4>2, <4>3, <4>4, <4>5, <4>7, <4>8
    <3>5. /\ DecodeVarint(packet, 1).ok /\ DecodeVarint(packet, 1).value = {}
          /\ DecodeVarint(packet, 1).next = pb
      BY <3>4 DEF Decoded
    <3>6. /\ DecodeVarint(packet, pb).ok /\ DecodeVarint(packet, pb).value = version
          /\ DecodeVarint(packet, pb).next = pc
      BY <3>4 DEF Decoded
    <3>7. /\ ReadString(packet, pc).ok /\ ReadString(packet, pc).value = address
          /\ ReadString(packet, pc).next = pd
      BY <3>4 DEF Decoded
    <3>8. /\ DecodeVarint(packet, pd + 2).ok /\ DecodeVarint(packet, pd + 2).value = next
          /\ DecodeVarint(packet, pd + 2).next = pd + 2 + Len(EncodeVarint(next))
      BY <3>4 DEF Decoded
    <3> QED
      BY <3>4, <3>5, <3>6, <3>7, <3>8 DEF ParseHandshake, e
  <2> QED
    BY <1>5, <2>3
<1>9. ASSUME NEW cut \in 0..(Len(packet) - 1)
      PROVE  ~ParseHandshake(SubSeq(packet, 1, cut)).ok
  <2> DEFINE s == SubSeq(packet, 1, cut)
  <2>1. cut \in 0..Len(packet) /\ 1 <= cut + 1 /\ cut + 1 < 1 + Len(packet)
    BY <1>4
  <2>2. Holds(packet, 1, packet)
    BY <1>3, WholeHeld
  <2>3. s \in Seq(Bytes) /\ Breaks(s, 1, packet)
    BY <1>3, <2>1, <2>2, CutFacts, BrokenAtCut
  <2> HIDE DEF s
  <2>4. BreaksWithin(s, pb, pc, pd, version, address, port, next)
    BY <1>7, <2>3 DEF BreaksWithin, a, b, c, d, e
  <2>5. /\ pb = 1 + Len(EncodeVarint({})) /\ pc = pb + Len(EncodeVarint(version))
        /\ pd = pc + Len(WriteBlock(address))
    BY DEF pb, pc, pd, a, b, c
  <2>6. ParseHandshake(s).ok = FALSE
    BY <2>3, <2>4, <2>5, HandshakeBroken, ZenonT(60)
  <2> QED
    BY <2>6 DEF s
<1> QED
  BY <1>8, <1>9 DEF packet, abcd, abc, ab, a, b, c, d, e, Understood

\* The smallest, the usual and the longest address a packet can hold here.
LEMMA AddressFacts ==
    ASSUME NEW address \in {<<>>, <<{1}>>, Body(130)}
    PROVE  address \in Seq(Bytes) /\ Len(address) <= MaxString
<1>1. 300 <= MaxString /\ MaxString \in Nat
  BY PacketSizes
<1>2. CASE address = <<>>
  BY <1>1, <1>2
<1>3. CASE address = <<{1}>>
  <2>1. {1} \in Bytes
    BY DEF Bytes
  <2>2. address \in Seq(Bytes) /\ Len(address) = 1
    BY <1>3, <2>1
  <2> QED
    BY <1>1, <2>2
<1>4. CASE address = Body(130)
  <2>1. \A i \in 1..130 : {i % 7} \in Bytes
    <3>1. ASSUME NEW i \in 1..130 PROVE i % 7 \in 0..7
      OBVIOUS
    <3> QED
      BY <3>1 DEF Bytes
  <2>2. address \in Seq(Bytes) /\ Len(address) = 130
    BY <1>4, <2>1 DEF Body
  <2> QED
    BY <1>1, <2>2
<1> QED
  BY <1>2, <1>3, <1>4

\* A handshake is read as it was written, to its last byte, and no shorter
\* part of it is taken for one.
THEOREM HandshakesUnderstood == Spec => []HandshakeExact
<1>1. InputTypes => HandshakeExact
  <2> SUFFICES ASSUME InputTypes, kind = "handshake" PROVE HandshakeExact
    BY DEF HandshakeExact
  <2>1. PICK version \in {{}, {0, 1, 8, 9}, Bits},
             address \in {<<>>, <<{1}>>, Body(130)},
             port \in {<<{6, 7}, {0}>>, <<{}, {}>>},
             next \in {{0}, {1}} :
                in = [version |-> version, address |-> address, port |-> port,
                      next |-> next]
    BY DEF InputTypes, HandshakeCases
  <2>2. version \in SUBSET Bits
    <3>1. {0, 1, 8, 9} \subseteq 0..31
      OBVIOUS
    <3> QED
      BY <3>1 DEF Bits
  <2>3. address \in Seq(Bytes) /\ Len(address) <= MaxString
    BY AddressFacts
  <2>4. port \in Seq(Bytes) /\ Len(port) = 2
    <3>1. {} \in Bytes /\ {0} \in Bytes /\ {6, 7} \in Bytes
      BY DEF Bytes
    <3>2. CASE port = <<{6, 7}, {0}>>
      BY <3>1, <3>2
    <3>3. CASE port = <<{}, {}>>
      BY <3>1, <3>3
    <3> QED
      BY <3>2, <3>3
  <2>5. Understood(version, address, port, next)
    BY <2>2, <2>3, <2>4, HandshakeRead
  <2>6. /\ in.version = version /\ in.address = address /\ in.port = port
        /\ in.next = next
    BY <2>1
  <2> QED
    BY <2>1, <2>5, <2>6 DEF HandshakeExact, Understood
<1> QED
  BY <1>1, TypedInputs, PTL
=============================================================================
