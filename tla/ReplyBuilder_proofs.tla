-------------------------- MODULE ReplyBuilder_proofs --------------------------
(***************************************************************************)
(* What the decoder does with the bytes of a number, for every number; with *)
(* a stream of number replies, one step at a time; and with a stream of any *)
(* replies, wherever the reads cut it.                                      *)
(***************************************************************************)
EXTENDS ReplyBuilder, SequenceTheorems, WellFoundedInduction, TLAPS

-----------------------------------------------------------------------------
(* Induction and recursion, without operators as parameters.               *)

LEMMA LeastNat ==
  ASSUME NEW T, T \subseteq Nat, T # {}
  PROVE  \E x \in T : \A y \in T : x <= y
<1> DEFINE R == {ss \in Nat \X Nat : ss[1] < ss[2]}
<1>1. IsWellFoundedOn(R, Nat)
  BY NatLessThanWellFounded DEF OpToRel
<1>2. PICK x \in T : \A y \in T : ~ (<<y, x>> \in R)
  BY <1>1, WFMin, Zenon
<1>3. ASSUME NEW y \in T PROVE x <= y
  <2>1. y < x => <<y, x>> \in R
    OBVIOUS
  <2> HIDE DEF R
  <2>2. ~(y < x)
    BY <1>2, <2>1
  <2> QED
    BY <2>2
<1> QED
  BY <1>3

\* Each value is computed from one before, or is a base case.
Computes(f, prev, base, step) ==
  \A n \in Nat : f[n] = IF prev[n] < n THEN step[n][f[prev[n]]] ELSE base[n]

LEMMA Recursion ==
  \A S : \A prev \in [Nat -> Nat], base \in [Nat -> S], step \in [Nat -> [S -> S]] :
    \E f \in [Nat -> S] : Computes(f, prev, base, step)
<1> TAKE S
<1> TAKE prev \in [Nat -> Nat], base \in [Nat -> S], step \in [Nat -> [S -> S]]
<1> DEFINE Value(f, m) == IF prev[m] < m THEN step[m][f[prev[m]]] ELSE base[m]
           Follows(f, n) == f \in [0..n -> S] /\ \A m \in 0..n : f[m] = Value(f, m)
<1>1. ASSUME NEW n \in Nat, NEW k \in Nat, NEW f, NEW g, Follows(f, n), Follows(g, k)
      PROVE  \A m \in Nat : m <= n /\ m <= k => f[m] = g[m]
  <2> DEFINE T == {m \in Nat : m <= n /\ m <= k /\ f[m] # g[m]}
  <2> SUFFICES ASSUME T # {} PROVE FALSE
    OBVIOUS
  <2>1. PICK x \in T : \A y \in T : x <= y
    <3> HIDE DEF T
    <3>1. T \subseteq Nat
      BY DEF T
    <3> QED
      BY <3>1, LeastNat
  <2>2. x \in Nat /\ x \in 0..n /\ x \in 0..k /\ f[x] # g[x]
    OBVIOUS
  <2>3. prev[x] < x => f[prev[x]] = g[prev[x]]
    <3> SUFFICES ASSUME prev[x] < x, f[prev[x]] # g[prev[x]] PROVE FALSE
      OBVIOUS
    <3>1. prev[x] \in T
      BY <2>2
    <3> QED
      BY <2>1, <2>2, <3>1
  <2>4. f[x] = Value(f, x) /\ g[x] = Value(g, x)
    BY <1>1, <2>2
  <2> QED
    BY <2>2, <2>3, <2>4
<1>2. \A n \in Nat : \E f : Follows(f, n)
  <2> DEFINE T == {n \in Nat : ~\E f : Follows(f, n)}
  <2> SUFFICES ASSUME T # {} PROVE FALSE
    OBVIOUS
  <2>1. PICK x \in T : \A y \in T : x <= y
    <3> HIDE DEF T
    <3>1. T \subseteq Nat
      BY DEF T
    <3> QED
      BY <3>1, LeastNat
  <2>2. x \in Nat /\ ~\E f : Follows(f, x)
    OBVIOUS
  <2>3. CASE x = 0
    <3> DEFINE g == [m \in 0..0 |-> base[0]]
    <3>1. Follows(g, 0)
      OBVIOUS
    <3> QED
      BY <2>2, <2>3, <3>1
  <2>4. CASE x # 0
    <3>1. x - 1 \in Nat /\ x - 1 \notin T
      <4> HIDE DEF T
      <4>1. x - 1 \in Nat /\ ~(x <= x - 1)
        BY <2>2, <2>4
      <4> QED
        BY <2>1, <4>1
    <3>2. PICK f : Follows(f, x - 1)
      BY <3>1
    <3> DEFINE v == Value(f, x)
               g == [m \in 0..x |-> IF m = x THEN v ELSE f[m]]
    <3> HIDE DEF T
    <3>x. x \in Nat /\ x # 0
      BY <2>2, <2>4
    <3>f. f \in [0..x - 1 -> S] /\ \A m \in 0..x - 1 : f[m] = Value(f, m)
      BY <3>2
    <3>3. v \in S
      <4>1. prev[x] \in Nat /\ base[x] \in S /\ step[x] \in [S -> S]
        BY <3>x
      <4>2. prev[x] < x => prev[x] \in 0..x - 1
        BY <3>x, <4>1
      <4> QED
        BY <3>f, <4>1, <4>2
    <3> HIDE DEF v
    <3>4. g \in [0..x -> S] /\ g[x] = v /\ \A m \in 0..x - 1 : g[m] = f[m]
      <4>1. \A m \in 0..x : m # x => m \in 0..x - 1
        BY <3>x
      <4>2. x \in 0..x /\ \A m \in 0..x - 1 : m \in 0..x /\ m # x
        BY <3>x
      <4>3. \A m \in 0..x - 1 : f[m] \in S
        BY <3>f
      <4> QED
        BY <3>3, <4>1, <4>2, <4>3
    <3> HIDE DEF g
    <3>5. ASSUME NEW m \in 0..x PROVE g[m] = Value(g, m)
      <4>1. prev[m] < m => g[prev[m]] = f[prev[m]]
        <5>1. m \in Nat /\ prev[m] \in Nat
          BY <3>x
        <5>2. prev[m] < m => prev[m] \in 0..x - 1
          BY <3>x, <5>1
        <5> QED
          BY <3>4, <5>2
      <4>3. CASE m = x
        BY <3>4, <4>1, <4>3 DEF v
      <4>4. CASE m # x
        <5>1. m \in 0..x - 1
          BY <3>x, <4>4
        <5>2. g[m] = f[m]
          BY <3>4, <5>1
        <5>3. f[m] = Value(f, m)
          BY <3>f, <5>1
        <5> QED
          BY <4>1, <5>2, <5>3
      <4> QED
        BY <4>3, <4>4
    <3>6. Follows(g, x)
      BY <3>4, <3>5, Zenon
    <3> QED
      BY <2>2, <3>6
  <2> QED
    BY <2>3, <2>4
<1> DEFINE of(n) == CHOOSE f : Follows(f, n)
           h == [n \in Nat |-> of(n)[n]]
<1>3. \A n \in Nat : Follows(of(n), n)
  <2> HIDE DEF Follows
  <2> QED
    BY <1>2
<1> HIDE DEF of
<1>4. h \in [Nat -> S]
  BY <1>3
<1>5. ASSUME NEW n \in Nat PROVE h[n] = Value(h, n)
  <2>1. of(n)[n] = Value(of(n), n)
    BY <1>3
  <2>2. ASSUME prev[n] < n PROVE of(n)[prev[n]] = of(prev[n])[prev[n]]
    <3> HIDE DEF Follows
    <3> QED
      BY <1>1, <1>3, <2>2
  <2> QED
    BY <2>1, <2>2
<1> QED
  BY <1>4, <1>5 DEF Computes

-----------------------------------------------------------------------------
(* The value of a line of digits.                                          *)

\* v[i] is the number that the first i digits of d write.
Sums(v, n, d) == v[0] = 0 /\ \A i \in 1..n : v[i] = 10 * v[i - 1] + d[i]

LEMMA DigitSums ==
  ASSUME NEW n \in Nat, NEW d \in [1..n -> Nat]
  PROVE  \E v \in [0..n -> Nat] : Sums(v, n, d)
<1> DEFINE prev == [i \in Nat |-> IF i = 0 THEN 0 ELSE i - 1]
           base == [i \in Nat |-> 0]
           step == [i \in Nat |-> [m \in Nat |-> IF i \in 1..n THEN 10 * m + d[i] ELSE 0]]
<1>1. prev \in [Nat -> Nat] /\ base \in [Nat -> Nat] /\ step \in [Nat -> [Nat -> Nat]]
  OBVIOUS
<1>2. prev[0] = 0 /\ base[0] = 0
  OBVIOUS
<1>3. \A i \in 1..n : prev[i] = i - 1 /\ i - 1 \in Nat
  OBVIOUS
<1>4. \A i \in 1..n : \A m \in Nat : step[i][m] = 10 * m + d[i]
  OBVIOUS
<1> HIDE DEF prev, base, step
<1>5. PICK f \in [Nat -> Nat] : Computes(f, prev, base, step)
  BY <1>1, Recursion, Zenon
<1>6. f[0] = 0
  BY <1>2, <1>5 DEF Computes
<1>7. ASSUME NEW i \in 1..n PROVE f[i] = 10 * f[i - 1] + d[i]
  <2>1. i \in Nat /\ i - 1 \in Nat /\ prev[i] = i - 1
    BY <1>3
  <2>2. prev[i] < i /\ f[i - 1] \in Nat
    BY <2>1
  <2> QED
    BY <1>4, <1>5, <2>1, <2>2 DEF Computes
<1> DEFINE v == [i \in 0..n |-> f[i]]
<1>8. v \in [0..n -> Nat] /\ v[0] = 0 /\ \A i \in 1..n : v[i] = f[i] /\ v[i - 1] = f[i - 1]
  BY <1>6
<1> HIDE DEF v
<1> QED
  BY <1>7, <1>8 DEF Sums

LEMMA SumsAreUnique ==
  \A n \in Nat : \A d \in [1..n -> Nat] : \A v, w :
    Sums(v, n, d) /\ Sums(w, n, d) => \A i \in 0..n : v[i] = w[i]
<1> SUFFICES ASSUME NEW n \in Nat, NEW d \in [1..n -> Nat], NEW v, NEW w,
                    Sums(v, n, d), Sums(w, n, d)
             PROVE  \A i \in 0..n : v[i] = w[i]
  OBVIOUS
<1> DEFINE T == {i \in 0..n : v[i] # w[i]}
<1> SUFFICES ASSUME T # {} PROVE FALSE
  OBVIOUS
<1>1. PICK x \in T : \A y \in T : x <= y
  <2>1. T \subseteq Nat
    OBVIOUS
  <2> HIDE DEF T
  <2> QED
    BY <2>1, LeastNat
<1>2. x \in 0..n /\ v[x] # w[x]
  OBVIOUS
<1>3. x \in 1..n /\ x - 1 \in 0..n
  BY <1>2 DEF Sums
<1>4. x - 1 \notin T
  <2> HIDE DEF T
  <2>1. ~(x <= x - 1)
    BY <1>2
  <2> QED
    BY <1>1, <2>1
<1>5. v[x - 1] = w[x - 1]
  BY <1>3, <1>4
<1>6. v[x] = 10 * v[x - 1] + d[x] /\ w[x] = 10 * w[x - 1] + d[x]
  BY <1>3 DEF Sums
<1> QED
  BY <1>2, <1>5, <1>6

\* m_nbr in integer_builder::operator<<, after each character of the line.
LEMMA DigitsHaveValue ==
  ASSUME NEW line \in Seq(Digit)
  PROVE  \E v \in [0..Len(line) -> Nat] :
           /\ v[0] = 0
           /\ \A i \in 1..Len(line) : v[i] = 10 * v[i - 1] + (line[i] - 48)
           /\ Integer(line) = v[Len(line)]
<1> DEFINE Step(f, i) == IF i = 0 THEN 0
                         ELSE IF line[i] = Dash THEN f[i - 1]
                         ELSE 10 * f[i - 1] + (line[i] - 48)
           m_nbr[i \in 0..Len(line)] ==
             IF i = 0 THEN 0
             ELSE IF line[i] = Dash THEN m_nbr[i - 1]
             ELSE 10 * m_nbr[i - 1] + (line[i] - 48)
           n == Len(line)
           d == [i \in 1..n |-> line[i] - 48]
<1>1. n \in Nat /\ \A i \in 1..n : line[i] \in Int /\ line[i] - 48 \in Nat /\ line[i] # 45
  <2>1. n \in Nat
    BY LenProperties
  <2>2. ASSUME NEW i \in 1..n PROVE line[i] \in 48..57
    BY ElementOfSeq DEF Digit
  <2> QED
    BY <2>1, <2>2
<1>2. d \in [1..n -> Nat] /\ \A i \in 1..n : d[i] = line[i] - 48
  BY <1>1
<1>3. Integer(line) = m_nbr[n]
  <2>1. line # <<>> => line[1] # Dash
    BY <1>1, EmptySeq DEF Dash
  <2> QED
    BY <2>1 DEF Integer
<1> HIDE DEF d
<1>4. PICK v \in [0..n -> Nat] : Sums(v, n, d)
  <2> HIDE DEF n
  <2> QED
    BY <1>1, <1>2, DigitSums
<1>5. v = [i \in 0..n |-> Step(v, i)]
  <2>1. ASSUME NEW i \in 0..n PROVE v[i] = Step(v, i)
    <3>1. CASE i = 0
      BY <1>4, <3>1 DEF Sums
    <3>2. CASE i # 0
      <4>1. i \in 1..n
        BY <1>1, <3>2
      <4> QED
        BY <1>1, <1>2, <1>4, <3>2, <4>1 DEF Dash, Sums
    <3> QED
      BY <3>1, <3>2
  <2>2. v = [i \in 0..n |-> v[i]]
    OBVIOUS
  <2> HIDE DEF Step
  <2> QED
    BY <2>1, <2>2
<1>6. m_nbr = [i \in 0..n |-> Step(m_nbr, i)]
  BY <1>5, Zenon
<1> HIDE DEF m_nbr
<1>7. Sums(m_nbr, n, d)
  <2>1. m_nbr[0] = 0
    BY <1>1, <1>6
  <2>2. ASSUME NEW i \in 1..n PROVE m_nbr[i] = 10 * m_nbr[i - 1] + d[i]
    <3>1. i \in 0..n /\ i # 0 /\ line[i] # Dash /\ d[i] = line[i] - 48
      BY <1>1, <1>2 DEF Dash
    <3> QED
      BY <1>6, <3>1
  <2> QED
    BY <2>1, <2>2 DEF Sums
<1>8. \A i \in 0..n : m_nbr[i] = v[i]
  <2>1. n \in Nat /\ d \in [1..n -> Nat]
    BY <1>1, <1>2
  <2> HIDE DEF n
  <2>2. Sums(v, n, d)
    BY <1>4
  <2>3. Sums(m_nbr, n, d)
    BY <1>7
  <2>4. \A w1, w2 : Sums(w1, n, d) /\ Sums(w2, n, d) => \A i \in 0..n : w1[i] = w2[i]
    BY <2>1, SumsAreUnique
  <2> QED
    BY <2>2, <2>3, <2>4
<1>9. v[0] = 0 /\ m_nbr[n] = v[n]
  BY <1>1, <1>4, <1>8 DEF Sums
<1>10. ASSUME NEW i \in 1..n PROVE v[i] = 10 * v[i - 1] + (line[i] - 48)
  BY <1>2, <1>4 DEF Sums
<1> QED
  BY <1>3, <1>9, <1>10, Zenon

LEMMA IntegerInNat ==
  ASSUME NEW line \in Seq(Digit)
  PROVE  Integer(line) \in Nat
<1>1. PICK v \in [0..Len(line) -> Nat] : Integer(line) = v[Len(line)]
  BY DigitsHaveValue
<1>2. Len(line) \in 0..Len(line)
  BY LenProperties
<1> QED
  BY <1>1, <1>2

LEMMA IntegerEmpty == Integer(<<>>) = 0
<1>1. <<>> \in Seq(Digit) /\ Len(<<>>) = 0
  BY EmptySeq
<1>2. PICK v \in [0..Len(<<>>) -> Nat] : v[0] = 0 /\ Integer(<<>>) = v[Len(<<>>)]
  BY <1>1, DigitsHaveValue
<1> QED
  BY <1>1, <1>2

LEMMA IntegerAppend ==
  ASSUME NEW line \in Seq(Digit), NEW c \in Digit
  PROVE  Integer(Append(line, c)) = 10 * Integer(line) + (c - 48)
<1> DEFINE n == Len(line)
           longer == Append(line, c)
           d == [i \in 1..n |-> line[i] - 48]
<1>1. /\ n \in Nat /\ longer \in Seq(Digit) /\ Len(longer) = n + 1 /\ longer[n + 1] = c
      /\ \A i \in 1..n : longer[i] = line[i]
  BY LenProperties, AppendProperties
<1>2. PICK v \in [0..n -> Nat] :
           /\ v[0] = 0
           /\ \A i \in 1..n : v[i] = 10 * v[i - 1] + (line[i] - 48)
           /\ Integer(line) = v[n]
  BY DigitsHaveValue
<1>3. PICK w \in [0..Len(longer) -> Nat] :
           /\ w[0] = 0
           /\ \A i \in 1..Len(longer) : w[i] = 10 * w[i - 1] + (longer[i] - 48)
           /\ Integer(longer) = w[Len(longer)]
  BY <1>1, DigitsHaveValue
<1>4. d \in [1..n -> Nat] /\ \A i \in 1..n : d[i] = line[i] - 48
  <2>1. ASSUME NEW i \in 1..n PROVE line[i] - 48 \in Nat
    <3>1. line[i] \in 48..57
      BY ElementOfSeq DEF Digit
    <3> QED
      BY <3>1
  <2> HIDE DEF n
  <2> QED
    BY <2>1
<1> HIDE DEF d, n, longer
<1>5. Sums(v, n, d) /\ Sums(w, n, d)
  <2>1. ASSUME NEW i \in 1..n PROVE v[i] = 10 * v[i - 1] + d[i] /\ w[i] = 10 * w[i - 1] + d[i]
    <3>1. i \in 1..Len(longer) /\ longer[i] = line[i] /\ d[i] = line[i] - 48
      BY <1>1, <1>4
    <3> QED
      BY <1>2, <1>3, <3>1
  <2> QED
    BY <1>2, <1>3, <2>1 DEF Sums
<1>6. \A i \in 0..n : v[i] = w[i]
  <2>1. \A w1, w2 : Sums(w1, n, d) /\ Sums(w2, n, d) => \A i \in 0..n : w1[i] = w2[i]
    BY <1>1, <1>4, SumsAreUnique
  <2> QED
    BY <1>5, <2>1
<1>7. n + 1 \in 1..Len(longer) /\ (n + 1) - 1 = n /\ n \in 0..n
  BY <1>1
<1>8. w[n + 1] = 10 * w[n] + (c - 48)
  BY <1>1, <1>3, <1>7
<1>9. Integer(longer) = 10 * Integer(line) + (c - 48)
  BY <1>1, <1>2, <1>3, <1>6, <1>7, <1>8
<1> QED
  BY <1>9 DEF longer

-----------------------------------------------------------------------------
(* The digits of a number.                                                 *)

LEMMA DecimalIs ==
  \A n \in Nat :
    Decimal[n] = IF n < 10 THEN <<48 + n>> ELSE Append(Decimal[n \div 10], 48 + (n % 10))
<1> DEFINE Step(f, n) == IF n < 10 THEN <<48 + n>> ELSE Append(f[n \div 10], 48 + (n % 10))
           prev == [n \in Nat |-> IF n < 10 THEN n ELSE n \div 10]
           base == [n \in Nat |-> IF n < 10 THEN <<48 + n>> ELSE <<>>]
           step == [n \in Nat |-> [l \in Seq(Int) |-> Append(l, 48 + (n % 10))]]
<1>1. \A n \in Nat : n \div 10 \in Nat /\ n % 10 \in 0..9 /\ (n >= 10 => n \div 10 < n)
                     /\ n = 10 * (n \div 10) + (n % 10)
  OBVIOUS
<1>2. prev \in [Nat -> Nat]
  BY <1>1
<1>3. base \in [Nat -> Seq(Int)]
  OBVIOUS
<1>4. step \in [Nat -> [Seq(Int) -> Seq(Int)]]
  <2>1. ASSUME NEW n \in Nat, NEW l \in Seq(Int) PROVE Append(l, 48 + (n % 10)) \in Seq(Int)
    BY <1>1, AppendProperties
  <2> QED
    BY <2>1
<1>5. \A n \in Nat : IF n < 10 THEN prev[n] = n /\ base[n] = <<48 + n>> ELSE prev[n] = n \div 10
  OBVIOUS
<1>6. \A n \in Nat : \A l \in Seq(Int) : step[n][l] = Append(l, 48 + (n % 10))
  OBVIOUS
<1> HIDE DEF prev, base, step
<1>7. PICK f \in [Nat -> Seq(Int)] : Computes(f, prev, base, step)
  BY <1>2, <1>3, <1>4, Recursion, Zenon
<1>8. f = [n \in Nat |-> Step(f, n)]
  <2>1. ASSUME NEW n \in Nat PROVE f[n] = Step(f, n)
    <3>1. f[n] = IF prev[n] < n THEN step[n][f[prev[n]]] ELSE base[n]
      BY <1>7 DEF Computes
    <3>2. CASE n < 10
      <4>1. prev[n] = n /\ base[n] = <<48 + n>>
        BY <1>5, <3>2
      <4>2. f[n] = <<48 + n>>
        BY <3>1, <4>1
      <4> QED
        BY <3>2, <4>2
    <3>3. CASE ~(n < 10)
      <4>1. prev[n] = n \div 10 /\ n \div 10 < n /\ f[n \div 10] \in Seq(Int)
        <5>1. n \div 10 \in Nat /\ n \div 10 < n
          BY <1>1, <3>3
        <5> HIDE DEF Step
        <5> QED
          BY <1>5, <3>3, <5>1
      <4>2. f[n] = step[n][f[n \div 10]]
        BY <3>1, <4>1
      <4>3. step[n][f[n \div 10]] = Append(f[n \div 10], 48 + (n % 10))
        BY <1>6, <4>1, Zenon
      <4> QED
        BY <3>3, <4>2, <4>3, Zenon
    <3> QED
      BY <3>2, <3>3
  <2> HIDE DEF Step
  <2> QED
    BY <2>1
<1>9. Decimal = [n \in Nat |-> Step(Decimal, n)]
  BY <1>8, Zenon DEF Decimal
<1> QED
  BY <1>9

\* integer_builder reads back the number that was written, of any length.
THEOREM NumbersAreReadBack ==
  \A n \in Nat : Decimal[n] \in Seq(Digit) /\ Decimal[n] # <<>> /\ Integer(Decimal[n]) = n
<1> DEFINE Right(n) == Decimal[n] \in Seq(Digit) /\ Decimal[n] # <<>> /\ Integer(Decimal[n]) = n
           T == {n \in Nat : ~Right(n)}
<1> SUFFICES ASSUME T # {} PROVE FALSE
  OBVIOUS
<1>1. PICK x \in T : \A y \in T : x <= y
  <2>1. T \subseteq Nat
    OBVIOUS
  <2> HIDE DEF T
  <2> QED
    BY <2>1, LeastNat
<1>2. x \in Nat /\ ~Right(x)
  OBVIOUS
<1>3. CASE x < 10
  <2> HIDE DEF T, Right
  <2>1. Decimal[x] = <<48 + x>> /\ 48 + x \in Digit
    <3>1. Decimal[x] = <<48 + x>>
      BY <1>2, <1>3, DecimalIs
    <3>2. 48 + x \in 48..57
      BY <1>2, <1>3
    <3> QED
      BY <3>1, <3>2 DEF Digit
  <2>2. /\ <<>> \in Seq(Digit) /\ <<48 + x>> = Append(<<>>, 48 + x)
        /\ <<48 + x>> \in Seq(Digit) /\ <<48 + x>> # <<>>
    BY <2>1
  <2>3. Integer(<<48 + x>>) = 10 * 0 + ((48 + x) - 48)
    <3> DEFINE none == <<>>
               c == 48 + x
    <3>1. none \in Seq(Digit) /\ c \in Digit /\ <<c>> = Append(none, c) /\ Integer(none) = 0
      BY <2>1, <2>2, IntegerEmpty, Zenon
    <3> HIDE DEF none, c
    <3>2. Integer(Append(none, c)) = 10 * Integer(none) + (c - 48)
      BY <3>1, IntegerAppend
    <3> QED
      BY <3>1, <3>2 DEF c
  <2>4. Integer(<<48 + x>>) = x
    BY <1>2, <2>3
  <2> QED
    BY <1>2, <2>1, <2>2, <2>4 DEF Right
<1>4. CASE ~(x < 10)
  <2> DEFINE q == x \div 10
             r == x % 10
  <2>1. q \in Nat /\ q < x /\ r \in 0..9 /\ x = 10 * q + r
    BY <1>2, <1>4
  <2>2. Decimal[x] = Append(Decimal[q], 48 + r)
    BY <1>2, <1>4, DecimalIs
  <2> HIDE DEF q, r
  <2>3. Right(q)
    <3>1. ~(x <= q)
      BY <1>2, <2>1
    <3> HIDE DEF Right
    <3> QED
      BY <1>1, <2>1, <3>1
  <2>4. 48 + r \in Digit
    BY <2>1 DEF Digit
  <2>5. Decimal[x] \in Seq(Digit) /\ Decimal[x] # <<>>
    BY <2>2, <2>3, <2>4
  <2>6. Integer(Decimal[x]) = 10 * q + ((48 + r) - 48)
    BY <2>2, <2>3, <2>4, IntegerAppend
  <2>7. Integer(Decimal[x]) = x
    BY <2>1, <2>6
  <2> QED
    BY <1>2, <2>5, <2>7
<1> QED
  BY <1>3, <1>4

-----------------------------------------------------------------------------
(* A number reply and its bytes.                                           *)

NumberReply(n) == [type |-> Number, val |-> n]

Symbol == {Number, CR, LF} \cup Digit

LEMMA EncodedNumber ==
  \A n \in Nat : Encoded(NumberReply(n)) = <<Number>> \o (Decimal[n] \o <<CR, LF>>)
<1> SUFFICES ASSUME NEW n \in Nat
             PROVE  Encoded(NumberReply(n)) = <<Number>> \o (Decimal[n] \o <<CR, LF>>)
  OBVIOUS
<1>1. NumberReply(n).type = Number /\ NumberReply(n).val = n
  BY DEF NumberReply
<1>2. Number # Array /\ Number \notin {SimpleString, Error}
  BY DEF Number, Array, SimpleString, Error
<1>3. EncodedInt(n) = Decimal[n]
  BY DEF EncodedInt
<1>4. Encoded(NumberReply(n)) = EncodedFlat(NumberReply(n))
  BY <1>1, <1>2 DEF Encoded
<1>5. EncodedFlat(NumberReply(n)) = <<Number>> \o EndLine(EncodedInt(n))
  BY <1>1, <1>2, Zenon DEF EncodedFlat
<1> QED
  BY <1>3, <1>4, <1>5 DEF EndLine

LEMMA EncodedNumberIsSymbols ==
  \A n \in Nat : Encoded(NumberReply(n)) \in Seq(Symbol)
<1> SUFFICES ASSUME NEW n \in Nat PROVE Encoded(NumberReply(n)) \in Seq(Symbol)
  OBVIOUS
<1>1. Decimal[n] \in Seq(Symbol)
  <2>1. Decimal[n] \in Seq(Digit) /\ Digit \subseteq Symbol
    BY NumbersAreReadBack DEF Symbol
  <2> QED
    BY <2>1, SeqMonotonic
<1>2. <<Number>> \in Seq(Symbol) /\ <<CR, LF>> \in Seq(Symbol)
  BY DEF Symbol
<1>3. Decimal[n] \o <<CR, LF>> \in Seq(Symbol)
  BY <1>1, <1>2, ConcatProperties
<1>4. <<Number>> \o (Decimal[n] \o <<CR, LF>>) \in Seq(Symbol)
  BY <1>2, <1>3, ConcatProperties
<1> QED
  BY <1>4, EncodedNumber

-----------------------------------------------------------------------------
(* A decoder that is given nothing but the bytes of number replies.        *)

NumberBuilder == [id |-> Number, size |-> Unknown, rows |-> <<>>]

NumberDecoder ==
  [m_buffer : Seq(Symbol), m_builder : {<<>>, <<NumberBuilder>>},
   replies : Seq([type : {Number}, val : Nat]), thrown : BOOLEAN]

LineEnd(b) == Min(Ends(b.m_buffer))
Line(b) == SubSeq(b.m_buffer, 1, LineEnd(b) - 1)
AfterLine(b) == Dropped(b.m_buffer, LineEnd(b) + 1)

Created(b) == [b EXCEPT !.m_buffer = Tail(b.m_buffer), !.m_builder = <<NumberBuilder>>]
Finished(b) ==
  [b EXCEPT !.m_buffer = AfterLine(b), !.m_builder = <<>>,
            !.replies = Append(b.replies, NumberReply(Integer(Line(b))))]

LEMMA BuildCreates ==
  ASSUME NEW b \in NumberDecoder, ~b.thrown, b.m_builder = <<>>
  PROVE  Build(b) = IF b.m_buffer = <<>> THEN b
                    ELSE IF Head(b.m_buffer) = Number THEN Created(b) ELSE Throw(b)
<1>1. b.m_buffer \in Seq(Symbol)
  BY DEF NumberDecoder
<1>2. Build(b) = CreateBuilder(b)
  BY DEF Build
<1>3. CASE b.m_buffer = <<>>
  BY <1>2, <1>3 DEF CreateBuilder
<1>4. CASE b.m_buffer # <<>>
  <2>1. Head(b.m_buffer) \in Symbol
    BY <1>1, <1>4, HeadTailProperties
  <2>2. /\ Symbol \cap {SimpleString, Error, Number, BulkString, Array} = {Number}
    BY DEF Symbol, Digit, SimpleString, Error, Number, BulkString, Array, CR, LF
  <2>3. CASE Head(b.m_buffer) = Number
    <3>1. CreateBuilder(b) =
            [b EXCEPT !.m_buffer = Tail(@),
              !.m_builder = Append(@, [id |-> Head(b.m_buffer), size |-> Unknown, rows |-> <<>>])]
      BY <1>4, <2>3 DEF CreateBuilder
    <3>2. Append(b.m_builder, [id |-> Head(b.m_buffer), size |-> Unknown, rows |-> <<>>])
            = <<NumberBuilder>>
      BY <2>3 DEF NumberBuilder
    <3> QED
      BY <1>2, <1>4, <2>3, <3>1, <3>2 DEF Created
  <2>4. CASE Head(b.m_buffer) # Number
    BY <1>2, <1>4, <2>1, <2>2, <2>4 DEF CreateBuilder
  <2> QED
    BY <2>3, <2>4
<1> QED
  BY <1>3, <1>4

LEMMA BuildReads ==
  ASSUME NEW b \in NumberDecoder, ~b.thrown, b.m_builder # <<>>
  PROVE  Build(b) = IF Ends(b.m_buffer) = {} THEN b
                    ELSE IF IsInteger(Line(b)) THEN Finished(b) ELSE Throw(b)
<1>1. b.m_builder = <<NumberBuilder>>
  BY DEF NumberDecoder
<1>2. Last(b.m_builder) = NumberBuilder /\ Front(b.m_builder) = <<>>
  BY <1>1 DEF Last, Front
<1>3. NumberBuilder.size = Unknown /\ NumberBuilder.id = Number
  BY DEF NumberBuilder
<1>4. Build(b) = ReadLine(b, Number)
  BY <1>2, <1>3 DEF Build
<1>5. Number \notin {SimpleString, Error}
  BY DEF Number, SimpleString, Error
<1>6. ReadLine(b, Number) =
        IF Ends(b.m_buffer) = {} THEN b
        ELSE IF IsInteger(Line(b))
             THEN Ready(b, AfterLine(b), [type |-> Number, val |-> Integer(Line(b))])
             ELSE Throw(b)
  BY <1>5, Zenon DEF ReadLine, Line, LineEnd, AfterLine
<1>7. Ready(b, AfterLine(b), [type |-> Number, val |-> Integer(Line(b))]) = Finished(b)
  BY <1>2, Zenon DEF Ready, Finished, NumberReply
<1> QED
  BY <1>4, <1>6, <1>7

LEMMA LineEndIsFirst ==
  ASSUME NEW b \in NumberDecoder, Ends(b.m_buffer) # {}
  PROVE  /\ LineEnd(b) \in Ends(b.m_buffer) /\ LineEnd(b) \in 1..Len(b.m_buffer) - 1
         /\ \A i \in Ends(b.m_buffer) : LineEnd(b) <= i
<1> DEFINE T == Ends(b.m_buffer)
<1>1. Len(b.m_buffer) \in Nat
  BY LenProperties DEF NumberDecoder
<1>2. T \subseteq 1..Len(b.m_buffer) - 1
  BY DEF Ends
<1>3. T \subseteq Nat
  BY <1>1, <1>2
<1> HIDE DEF T
<1>4. \E x \in T : \A y \in T : x <= y
  BY <1>3, LeastNat DEF T
<1>5. Min(T) \in T /\ \A y \in T : Min(T) <= y
  BY <1>4 DEF Min
<1> QED
  BY <1>2, <1>5 DEF LineEnd, T

LEMMA LineIsCut ==
  ASSUME NEW b \in NumberDecoder, Ends(b.m_buffer) # {}
  PROVE  /\ Line(b) \in Seq(Symbol) /\ AfterLine(b) \in Seq(Symbol)
         /\ Len(Line(b)) = LineEnd(b) - 1 /\ \A i \in 1..LineEnd(b) - 1 : Line(b)[i] = b.m_buffer[i]
         /\ Len(AfterLine(b)) = Len(b.m_buffer) - (LineEnd(b) + 1)
         /\ \A i \in 1..Len(AfterLine(b)) : AfterLine(b)[i] = b.m_buffer[LineEnd(b) + 1 + i]
<1> DEFINE s == b.m_buffer
           n == Len(s)
           l == LineEnd(b)
<1>1. s \in Seq(Symbol) /\ n \in Nat /\ \A i \in 1..n : s[i] \in Symbol
  BY LenProperties, ElementOfSeq DEF NumberDecoder
<1>2. l \in 1..n - 1
  BY LineEndIsFirst
<1> HIDE DEF s, n, l
<1>3. l \in Int /\ l - 1 \in Int /\ 1 \in Int /\ n \in Int /\ (l + 1) + 1 \in Int
  BY <1>1, <1>2
<1>4. (\A i \in 1..l - 1 : s[i] \in Symbol) /\ \A i \in (l + 1) + 1..n : s[i] \in Symbol
  BY <1>1, <1>2
<1>5. /\ SubSeq(s, 1, l - 1) \in Seq(Symbol)
      /\ Len(SubSeq(s, 1, l - 1)) = IF 1 <= l - 1 THEN (l - 1) - 1 + 1 ELSE 0
      /\ \A i \in 1..((l - 1) - 1 + 1) : SubSeq(s, 1, l - 1)[i] = s[1 + i - 1]
  BY <1>3, <1>4, SubSeqProperties
<1>6. /\ SubSeq(s, (l + 1) + 1, n) \in Seq(Symbol)
      /\ Len(SubSeq(s, (l + 1) + 1, n)) = IF (l + 1) + 1 <= n THEN n - ((l + 1) + 1) + 1 ELSE 0
      /\ \A i \in 1..(n - ((l + 1) + 1) + 1) : SubSeq(s, (l + 1) + 1, n)[i] = s[((l + 1) + 1) + i - 1]
  BY <1>3, <1>4, SubSeqProperties
<1>7. Line(b) = SubSeq(s, 1, l - 1) /\ AfterLine(b) = SubSeq(s, (l + 1) + 1, n)
  BY DEF Line, AfterLine, Dropped, s, n, l
<1>8. Len(Line(b)) = l - 1 /\ Len(AfterLine(b)) = n - (l + 1)
  BY <1>1, <1>2, <1>5, <1>6, <1>7
<1>9. ASSUME NEW i \in 1..l - 1 PROVE Line(b)[i] = s[i]
  <2>1. i \in 1..((l - 1) - 1 + 1) /\ 1 + i - 1 = i
    BY <1>3
  <2> QED
    BY <1>5, <1>7, <2>1
<1>10. ASSUME NEW i \in 1..Len(AfterLine(b)) PROVE AfterLine(b)[i] = s[l + 1 + i]
  <2>1. i \in 1..(n - ((l + 1) + 1) + 1) /\ ((l + 1) + 1) + i - 1 = l + 1 + i
    BY <1>3, <1>8
  <2> QED
    BY <1>6, <1>7, <2>1
<1> QED
  BY <1>5, <1>6, <1>7, <1>8, <1>9, <1>10 DEF s, n, l

\* No minus sign is among the symbols.
LEMMA IntegerLineIsDigits ==
  ASSUME NEW line \in Seq(Symbol), IsInteger(line)
  PROVE  line \in Seq(Digit)
<1>1. \A i \in 1..Len(line) : line[i] \in Digit
  <2>1. ASSUME NEW i \in 1..Len(line) PROVE line[i] \in Digit
    <3>1. line[i] \in Symbol /\ DOMAIN line = 1..Len(line)
      BY ElementOfSeq, LenProperties
    <3>2. Dash \notin Symbol
      BY DEF Dash, Symbol, Number, CR, LF, Digit
    <3> QED
      BY <3>1, <3>2 DEF IsInteger
  <2> QED
    BY <2>1
<1>2. line = [i \in 1..Len(line) |-> line[i]] /\ Len(line) \in Nat
  BY LenProperties
<1>3. [i \in 1..Len(line) |-> line[i]] \in Seq(Digit)
  BY <1>1, <1>2
<1> QED
  BY <1>2, <1>3

LEMMA BuildStaysNumberDecoder ==
  ASSUME NEW b \in NumberDecoder
  PROVE  Build(b) \in NumberDecoder
<1>1. /\ b.m_buffer \in Seq(Symbol) /\ b.m_builder \in {<<>>, <<NumberBuilder>>}
      /\ b.replies \in Seq([type : {Number}, val : Nat]) /\ b.thrown \in BOOLEAN
  BY DEF NumberDecoder
<1>2. Throw(b) \in NumberDecoder
  BY DEF Throw, NumberDecoder
<1>3. CASE b.thrown
  BY <1>3 DEF Build
<1>4. CASE ~b.thrown /\ b.m_builder = <<>>
  <2>1. ASSUME b.m_buffer # <<>> PROVE Created(b) \in NumberDecoder
    <3>1. Tail(b.m_buffer) \in Seq(Symbol)
      BY <1>1, <2>1, HeadTailProperties
    <3>2. <<NumberBuilder>> \in {<<>>, <<NumberBuilder>>}
      OBVIOUS
    <3> QED
      BY <3>1, <3>2 DEF NumberDecoder, Created
  <2> QED
    BY <1>2, <1>4, <2>1, BuildCreates
<1>5. CASE ~b.thrown /\ b.m_builder # <<>>
  <2>1. ASSUME Ends(b.m_buffer) # {}, IsInteger(Line(b)) PROVE Finished(b) \in NumberDecoder
    <3>1. Line(b) \in Seq(Symbol) /\ AfterLine(b) \in Seq(Symbol)
      BY <2>1, LineIsCut
    <3>2. Integer(Line(b)) \in Nat
      BY <2>1, <3>1, IntegerLineIsDigits, IntegerInNat
    <3>3. NumberReply(Integer(Line(b))) \in [type : {Number}, val : Nat]
      BY <3>2 DEF NumberReply
    <3>4. Append(b.replies, NumberReply(Integer(Line(b)))) \in Seq([type : {Number}, val : Nat])
      BY <1>1, <3>3, AppendProperties
    <3> QED
      BY <3>1, <3>4 DEF NumberDecoder, Finished
  <2> QED
    BY <1>2, <1>5, <2>1, BuildReads
<1> QED
  BY <1>1, <1>3, <1>4, <1>5

-----------------------------------------------------------------------------
(* The bytes of several number replies, one after the other.               *)

Bytes(n) == Encoded(NumberReply(n))

LEMMA BytesShape ==
  ASSUME NEW n \in Nat
  PROVE  /\ Bytes(n) \in Seq(Symbol)
         /\ Decimal[n] \in Seq(Digit) /\ Len(Decimal[n]) \in Nat
         /\ Len(Bytes(n)) = Len(Decimal[n]) + 3
         /\ Bytes(n)[1] = Number
         /\ \A i \in 1..Len(Decimal[n]) : Bytes(n)[i + 1] = Decimal[n][i]
         /\ Bytes(n)[Len(Decimal[n]) + 2] = CR
         /\ Bytes(n)[Len(Decimal[n]) + 3] = LF
<1> DEFINE d == Decimal[n]
           l == Len(d)
           t == <<CR, LF>>
           h == <<Number>>
<1>1. d \in Seq(Digit) /\ Digit \subseteq Symbol
  BY NumbersAreReadBack DEF Symbol
<1>2. d \in Seq(Symbol) /\ l \in Nat
  BY <1>1, SeqMonotonic, LenProperties
<1>3. /\ t \in Seq(Symbol) /\ Len(t) = 2 /\ t[1] = CR /\ t[2] = LF
      /\ h \in Seq(Symbol) /\ Len(h) = 1 /\ h[1] = Number
  BY DEF Symbol
<1>4. Bytes(n) = h \o (d \o t) /\ Bytes(n) \in Seq(Symbol)
  BY EncodedNumber, EncodedNumberIsSymbols DEF Bytes
<1> HIDE DEF t, h, d
<1>5. /\ d \o t \in Seq(Symbol) /\ Len(d \o t) = l + 2
      /\ \A i \in 1..l + 2 : (d \o t)[i] = IF i <= l THEN d[i] ELSE t[i - l]
  <2>1. /\ d \o t \in Seq(Symbol) /\ Len(d \o t) = Len(d) + Len(t)
        /\ \A i \in 1..Len(d) + Len(t) : (d \o t)[i] = IF i <= Len(d) THEN d[i] ELSE t[i - Len(d)]
    BY <1>2, <1>3, ConcatProperties
  <2> QED
    BY <1>3, <2>1
<1>6. /\ Len(Bytes(n)) = 1 + (l + 2)
      /\ \A i \in 1..1 + (l + 2) : Bytes(n)[i] = IF i <= 1 THEN h[i] ELSE (d \o t)[i - 1]
  <2> DEFINE s == d \o t
  <2>1. s \in Seq(Symbol) /\ Len(s) = l + 2 /\ Bytes(n) = h \o s
    BY <1>4, <1>5
  <2> HIDE DEF s
  <2>2. /\ Len(h \o s) = Len(h) + Len(s)
        /\ \A i \in 1..Len(h) + Len(s) : (h \o s)[i] = IF i <= Len(h) THEN h[i] ELSE s[i - Len(h)]
    <3>1. h \in Seq(Symbol) /\ s \in Seq(Symbol)
      BY <1>3, <2>1
    <3> QED
      BY <3>1, ConcatProperties
  <2> HIDE DEF l
  <2>3. /\ Len(Bytes(n)) = 1 + (l + 2)
        /\ \A i \in 1..1 + (l + 2) : Bytes(n)[i] = IF i <= 1 THEN h[i] ELSE s[i - 1]
    BY <1>3, <2>1, <2>2
  <2> QED
    BY <2>3 DEF s
<1> HIDE DEF l
<1>7. Len(Bytes(n)) = l + 3 /\ Bytes(n)[1] = Number
  BY <1>2, <1>3, <1>6
<1>8. ASSUME NEW i \in 1..l + 2 PROVE Bytes(n)[i + 1] = IF i <= l THEN d[i] ELSE t[i - l]
  <2>1. i + 1 \in 1..1 + (l + 2) /\ ~(i + 1 <= 1) /\ (i + 1) - 1 = i
    BY <1>2
  <2> QED
    BY <1>5, <1>6, <2>1
<1>9. \A i \in 1..l : Bytes(n)[i + 1] = d[i]
  BY <1>2, <1>8
<1>10. Bytes(n)[l + 2] = CR
  <2>1. l + 1 \in 1..l + 2 /\ ~(l + 1 <= l) /\ (l + 1) - l = 1 /\ (l + 1) + 1 = l + 2
    BY <1>2
  <2> QED
    BY <1>3, <1>8, <2>1
<1>11. Bytes(n)[l + 3] = LF
  <2>1. l + 2 \in 1..l + 2 /\ ~(l + 2 <= l) /\ (l + 2) - l = 2 /\ (l + 2) + 1 = l + 3
    BY <1>2
  <2> QED
    BY <1>3, <1>8, <2>1
<1> QED
  BY <1>1, <1>2, <1>4, <1>7, <1>9, <1>10, <1>11 DEF d, l

\* at[i] bytes are those of the first i numbers.
CutsAt(at, bytes, numbers) ==
  /\ at \in [0..Len(numbers) -> Nat]
  /\ at[0] = 0 /\ at[Len(numbers)] = Len(bytes)
  /\ \A i \in 1..Len(numbers) :
       /\ at[i] = at[i - 1] + Len(Bytes(numbers[i])) /\ at[i] <= Len(bytes)
       /\ \A j \in 1..Len(Bytes(numbers[i])) : bytes[at[i - 1] + j] = Bytes(numbers[i])[j]

Streams(bytes, numbers) == \E at : CutsAt(at, bytes, numbers)

LEMMA NoNumbersNoBytes ==
  ASSUME NEW bytes \in Seq(Symbol)
  PROVE  Streams(bytes, <<>>) <=> bytes = <<>>
<1>1. Len(<<>>) = 0 /\ 1..0 = {} /\ 0..0 = {0}
  OBVIOUS
<1>2. ASSUME Streams(bytes, <<>>) PROVE bytes = <<>>
  <2>1. PICK at : CutsAt(at, bytes, <<>>)
    BY <1>2 DEF Streams
  <2>2. Len(bytes) = 0
    BY <1>1, <2>1 DEF CutsAt
  <2> QED
    BY <2>2, EmptySeq
<1>3. ASSUME bytes = <<>> PROVE Streams(bytes, <<>>)
  <2> DEFINE at == [i \in 0..0 |-> 0]
  <2>1. at \in [0..0 -> Nat] /\ at[0] = 0
    OBVIOUS
  <2>2. CutsAt(at, bytes, <<>>)
    BY <1>1, <1>3, <2>1 DEF CutsAt
  <2> QED
    BY <2>2 DEF Streams
<1> QED
  BY <1>2, <1>3

LEMMA StreamGrows ==
  ASSUME NEW bytes \in Seq(Symbol), NEW numbers \in Seq(Nat), NEW n \in Nat, Streams(bytes, numbers)
  PROVE  Streams(bytes \o Bytes(n), Append(numbers, n))
<1> DEFINE k == Len(numbers)
           more == Append(numbers, n)
           longer == bytes \o Bytes(n)
<1>1. /\ k \in Nat /\ Len(more) = k + 1 /\ more[k + 1] = n
      /\ \A i \in 1..k : more[i] = numbers[i] /\ numbers[i] \in Nat
  BY LenProperties, AppendProperties, ElementOfSeq
<1>2. Bytes(n) \in Seq(Symbol) /\ Len(Bytes(n)) \in Nat /\ Len(bytes) \in Nat
  BY BytesShape, LenProperties
<1>3. /\ Len(longer) = Len(bytes) + Len(Bytes(n))
      /\ \A i \in 1..Len(bytes) + Len(Bytes(n)) :
           longer[i] = IF i <= Len(bytes) THEN bytes[i] ELSE Bytes(n)[i - Len(bytes)]
  BY <1>2, ConcatProperties
<1>4. PICK at : CutsAt(at, bytes, numbers)
  BY DEF Streams
<1> DEFINE cuts == [i \in 0..k + 1 |-> IF i <= k THEN at[i] ELSE Len(longer)]
<1>5. at \in [0..k -> Nat] /\ at[0] = 0 /\ at[k] = Len(bytes)
  BY <1>4 DEF CutsAt
<1> HIDE DEF k, more, longer
<1>6. cuts \in [0..k + 1 -> Nat] /\ cuts[k + 1] = Len(longer) /\ \A i \in 0..k : cuts[i] = at[i]
  BY <1>1, <1>2, <1>3, <1>5
<1> HIDE DEF cuts
<1>7. ASSUME NEW i \in 1..k
      PROVE  /\ cuts[i] = cuts[i - 1] + Len(Bytes(more[i])) /\ cuts[i] <= Len(longer)
             /\ \A j \in 1..Len(Bytes(more[i])) : longer[cuts[i - 1] + j] = Bytes(more[i])[j]
  <2>1. /\ at[i] = at[i - 1] + Len(Bytes(numbers[i])) /\ at[i] <= Len(bytes)
        /\ \A j \in 1..Len(Bytes(numbers[i])) : bytes[at[i - 1] + j] = Bytes(numbers[i])[j]
    BY <1>4 DEF CutsAt, k
  <2>2. i \in 0..k /\ i - 1 \in 0..k /\ more[i] = numbers[i] /\ at[i] \in Nat /\ at[i - 1] \in Nat
    BY <1>1, <1>5
  <2>3. cuts[i] = at[i] /\ cuts[i - 1] = at[i - 1]
    BY <1>6, <2>2
  <2>4. Len(Bytes(numbers[i])) \in Nat
    BY <1>1, BytesShape
  <2>5. ASSUME NEW j \in 1..Len(Bytes(numbers[i])) PROVE longer[at[i - 1] + j] = bytes[at[i - 1] + j]
    <3>1. at[i] = at[i - 1] + Len(Bytes(numbers[i])) /\ at[i] <= Len(bytes)
      BY <2>1
    <3>2. at[i - 1] + j \in 1..Len(bytes)
      BY <1>2, <2>2, <2>4, <3>1
    <3>3. at[i - 1] + j \in 1..Len(bytes) + Len(Bytes(n)) /\ at[i - 1] + j <= Len(bytes)
      BY <1>2, <3>2
    <3> QED
      BY <1>3, <3>3
  <2>6. at[i] <= Len(longer)
    BY <1>2, <1>3, <2>1, <2>2
  <2> QED
    BY <2>1, <2>2, <2>3, <2>5, <2>6
<1>8. /\ cuts[k + 1] = cuts[k] + Len(Bytes(more[k + 1])) /\ cuts[k + 1] <= Len(longer)
      /\ \A j \in 1..Len(Bytes(more[k + 1])) : longer[cuts[k] + j] = Bytes(more[k + 1])[j]
  <2>1. cuts[k] = Len(bytes) /\ cuts[k + 1] = Len(bytes) + Len(Bytes(n)) /\ more[k + 1] = n
    BY <1>1, <1>3, <1>5, <1>6
  <2>2. ASSUME NEW j \in 1..Len(Bytes(n)) PROVE longer[Len(bytes) + j] = Bytes(n)[j]
    <3>1. /\ Len(bytes) + j \in 1..Len(bytes) + Len(Bytes(n)) /\ ~(Len(bytes) + j <= Len(bytes))
          /\ (Len(bytes) + j) - Len(bytes) = j
      BY <1>2
    <3> QED
      BY <1>3, <3>1
  <2> QED
    BY <1>2, <1>3, <2>1, <2>2
<1>9. cuts[0] = 0 /\ cuts[Len(more)] = Len(longer) /\ cuts \in [0..Len(more) -> Nat]
  BY <1>1, <1>5, <1>6
<1>10. ASSUME NEW i \in 1..Len(more)
       PROVE  /\ cuts[i] = cuts[i - 1] + Len(Bytes(more[i])) /\ cuts[i] <= Len(longer)
              /\ \A j \in 1..Len(Bytes(more[i])) : longer[cuts[i - 1] + j] = Bytes(more[i])[j]
  <2>1. i \in 1..k \/ (i = k + 1 /\ i - 1 = k)
    BY <1>1
  <2> QED
    BY <1>7, <1>8, <2>1
<1>11. CutsAt(cuts, longer, more)
  BY <1>9, <1>10 DEF CutsAt
<1> QED
  BY <1>11 DEF Streams, longer, more

LEMMA StreamBegins ==
  ASSUME NEW bytes \in Seq(Symbol), NEW numbers \in Seq(Nat), Streams(bytes, numbers),
         numbers # <<>>
  PROVE  /\ numbers[1] \in Nat /\ Len(Bytes(numbers[1])) <= Len(bytes)
         /\ \A j \in 1..Len(Bytes(numbers[1])) : bytes[j] = Bytes(numbers[1])[j]
<1>1. 1 \in 1..Len(numbers) /\ 1 - 1 = 0
  BY EmptySeq, LenProperties
<1>2. numbers[1] \in Nat
  BY <1>1, ElementOfSeq
<1>3. PICK at : CutsAt(at, bytes, numbers)
  BY DEF Streams
<1>4. Len(Bytes(numbers[1])) \in Nat
  BY <1>2, BytesShape
<1>5. /\ at[1] = 0 + Len(Bytes(numbers[1])) /\ at[1] <= Len(bytes)
      /\ \A j \in 1..Len(Bytes(numbers[1])) : bytes[0 + j] = Bytes(numbers[1])[j]
  BY <1>1, <1>3 DEF CutsAt
<1> QED
  BY <1>2, <1>4, <1>5

LEMMA StreamGoesOn ==
  ASSUME NEW bytes \in Seq(Symbol), NEW numbers \in Seq(Nat), Streams(bytes, numbers),
         numbers # <<>>
  PROVE  Streams(Dropped(bytes, Len(Bytes(numbers[1]))), Tail(numbers))
<1> DEFINE k == Len(numbers)
           b == Len(Bytes(numbers[1]))
           rest == Dropped(bytes, b)
           fewer == Tail(numbers)
<1>1. /\ k \in Nat /\ k >= 1 /\ Len(fewer) = k - 1
      /\ \A i \in 1..k - 1 : fewer[i] = numbers[i + 1]
      /\ \A i \in 1..k : numbers[i] \in Nat
  <2>1. k \in Nat /\ k >= 1
    BY EmptySeq, LenProperties
  <2>2. Len(fewer) = k - 1 /\ \A i \in 1..Len(fewer) : fewer[i] = numbers[i + 1]
    BY HeadTailProperties
  <2>3. \A i \in 1..k : numbers[i] \in Nat
    BY ElementOfSeq
  <2> QED
    BY <2>1, <2>2, <2>3
<1>2. PICK at : CutsAt(at, bytes, numbers)
  BY DEF Streams
<1>3. b \in Nat /\ b <= Len(bytes) /\ Len(bytes) \in Nat
  BY StreamBegins, BytesShape, LenProperties
<1>4. at[1] = b
  <2>1. 1 \in 1..k /\ 1 - 1 = 0
    BY <1>1
  <2> QED
    BY <1>2, <1>3, <2>1 DEF CutsAt
<1>5. /\ Len(rest) = Len(bytes) - b
      /\ \A i \in 1..Len(bytes) - b : rest[i] = bytes[b + i]
  <2> HIDE DEF b
  <2>1. /\ b + 1 \in Int /\ Len(bytes) \in Int
        /\ \A i \in b + 1..Len(bytes) : bytes[i] \in Symbol
    BY <1>3, ElementOfSeq
  <2>2. /\ Len(SubSeq(bytes, b + 1, Len(bytes)))
             = IF b + 1 <= Len(bytes) THEN Len(bytes) - (b + 1) + 1 ELSE 0
        /\ \A i \in 1..(Len(bytes) - (b + 1) + 1) :
             SubSeq(bytes, b + 1, Len(bytes))[i] = bytes[(b + 1) + i - 1]
    BY <2>1, SubSeqProperties
  <2>3. Len(rest) = Len(bytes) - b
    BY <1>3, <2>2 DEF Dropped
  <2>4. ASSUME NEW i \in 1..Len(bytes) - b PROVE rest[i] = bytes[b + i]
    <3>1. i \in 1..(Len(bytes) - (b + 1) + 1) /\ (b + 1) + i - 1 = b + i
      BY <1>3
    <3> QED
      BY <2>2, <3>1 DEF Dropped
  <2> QED
    BY <2>3, <2>4
<1>6. /\ at \in [0..k -> Nat] /\ at[k] = Len(bytes)
      /\ \A i \in 1..k : /\ at[i] = at[i - 1] + Len(Bytes(numbers[i])) /\ at[i] <= Len(bytes)
                         /\ \A j \in 1..Len(Bytes(numbers[i])) :
                              bytes[at[i - 1] + j] = Bytes(numbers[i])[j]
  BY <1>2 DEF CutsAt
<1>7. \A i \in 1..k : Len(Bytes(numbers[i])) \in Nat
  BY <1>1, BytesShape
<1> HIDE DEF k, b, rest, fewer
\* The cuts never go back.
<1>8. \A i \in 1..k : b <= at[i]
  <2> DEFINE T == {i \in 1..k : ~(b <= at[i])}
  <2> SUFFICES ASSUME T # {} PROVE FALSE
    OBVIOUS
  <2>1. PICK x \in T : \A y \in T : x <= y
    <3>1. T \subseteq Nat
      BY <1>1
    <3> HIDE DEF T
    <3> QED
      BY <3>1, LeastNat
  <2>2. x \in 1..k /\ ~(b <= at[x])
    OBVIOUS
  <2>3. x - 1 \notin T
    <3> HIDE DEF T
    <3>1. ~(x <= x - 1)
      BY <2>2
    <3> QED
      BY <2>1, <3>1
  <2>4. x # 1
    BY <1>3, <1>4, <2>2
  <2>5. x - 1 \in 1..k
    BY <1>1, <2>2, <2>4
  <2>6. b <= at[x - 1]
    BY <2>3, <2>5
  <2> HIDE DEF T
  <2>7. at[x] = at[x - 1] + Len(Bytes(numbers[x])) /\ at[x - 1] \in Nat
    <3>1. x - 1 \in 0..k
      BY <1>1, <2>5
    <3> QED
      BY <1>6, <2>2, <3>1
  <2> QED
    BY <1>3, <1>7, <2>2, <2>6, <2>7
<1> DEFINE cuts == [i \in 0..k - 1 |-> at[i + 1] - b]
<1>9. \A i \in 0..k - 1 : i + 1 \in 1..k /\ at[i + 1] \in Nat
  <2>1. k \in Nat /\ at \in [0..k -> Nat]
    BY <1>1, <1>6
  <2>2. \A i \in 0..k - 1 : i + 1 \in 1..k /\ i + 1 \in 0..k
    BY <2>1
  <2> QED
    BY <2>1, <2>2
<1>10. cuts \in [0..k - 1 -> Nat] /\ \A i \in 0..k - 1 : cuts[i] = at[i + 1] - b
  BY <1>3, <1>8, <1>9
<1> HIDE DEF cuts
<1>11. cuts[0] = 0 /\ cuts[k - 1] = Len(rest)
  <2>1. 0 \in 0..k - 1 /\ 0 + 1 = 1 /\ k - 1 \in 0..k - 1 /\ (k - 1) + 1 = k
    BY <1>1
  <2>2. cuts[0] = at[1] - b /\ cuts[k - 1] = at[k] - b
    BY <1>10, <2>1
  <2> QED
    BY <1>3, <1>4, <1>5, <1>6, <2>2
<1>12. ASSUME NEW i \in 1..k - 1
       PROVE  /\ cuts[i] = cuts[i - 1] + Len(Bytes(fewer[i])) /\ cuts[i] <= Len(rest)
              /\ \A j \in 1..Len(Bytes(fewer[i])) : rest[cuts[i - 1] + j] = Bytes(fewer[i])[j]
  <2>1. /\ i \in 0..k - 1 /\ i - 1 \in 0..k - 1 /\ (i - 1) + 1 = i /\ (i + 1) - 1 = i
        /\ i \in 1..k /\ i + 1 \in 1..k
    BY <1>1
  <2>2. /\ at[i + 1] = at[i] + Len(Bytes(numbers[i + 1])) /\ at[i + 1] <= Len(bytes)
        /\ \A j \in 1..Len(Bytes(numbers[i + 1])) : bytes[at[i] + j] = Bytes(numbers[i + 1])[j]
    <3> DEFINE x == i + 1
    <3>1. x \in 1..k /\ x - 1 = i
      BY <2>1
    <3> HIDE DEF x
    <3>2. /\ at[x] = at[x - 1] + Len(Bytes(numbers[x])) /\ at[x] <= Len(bytes)
          /\ \A j \in 1..Len(Bytes(numbers[x])) : bytes[at[x - 1] + j] = Bytes(numbers[x])[j]
      BY <1>6, <3>1
    <3> QED
      BY <3>1, <3>2, Zenon DEF x
  <2>3. cuts[i] = at[i + 1] - b /\ cuts[i - 1] = at[i] - b /\ fewer[i] = numbers[i + 1]
    BY <1>1, <1>10, <2>1
  <2>4. /\ at[i] \in Nat /\ at[i + 1] \in Nat /\ b <= at[i]
        /\ Len(Bytes(numbers[i + 1])) \in Nat
    BY <1>7, <1>8, <1>9, <2>1
  <2>5. ASSUME NEW j \in 1..Len(Bytes(numbers[i + 1]))
        PROVE  rest[(at[i] - b) + j] = bytes[at[i] + j]
    <3> DEFINE x == at[i]
               y == at[i + 1]
               m == Len(Bytes(numbers[i + 1]))
    <3>1. x \in Nat /\ y \in Nat /\ m \in Nat /\ y = x + m /\ y <= Len(bytes) /\ b <= x
      BY <2>2, <2>4
    <3>2. j \in 1..m
      OBVIOUS
    <3> HIDE DEF x, y, m
    <3>3. (x - b) + j \in 1..Len(bytes) - b /\ b + ((x - b) + j) = x + j
      BY <1>3, <3>1, <3>2
    <3>4. (at[i] - b) + j \in 1..Len(bytes) - b /\ b + ((at[i] - b) + j) = at[i] + j
      BY <3>3 DEF x
    <3> QED
      BY <1>5, <3>4
  <2>6. cuts[i] = cuts[i - 1] + Len(Bytes(fewer[i])) /\ cuts[i] <= Len(rest)
    <3> DEFINE x == at[i]
               y == at[i + 1]
               m == Len(Bytes(numbers[i + 1]))
               l == Len(bytes)
    <3>1. /\ x \in Nat /\ y \in Nat /\ m \in Nat /\ y = x + m /\ y <= l /\ b <= x
          /\ cuts[i] = y - b /\ cuts[i - 1] = x - b
      BY <2>2, <2>3, <2>4
    <3>2. Len(Bytes(fewer[i])) = m /\ Len(rest) = l - b /\ l \in Nat /\ b \in Nat
      BY <1>3, <1>5, <2>3
    <3> HIDE DEF x, y, m, l
    <3> QED
      BY <3>1, <3>2
  <2> QED
    BY <2>2, <2>3, <2>5, <2>6
<1>13. CutsAt(cuts, rest, fewer)
  BY <1>1, <1>10, <1>11, <1>12 DEF CutsAt
<1> QED
  BY <1>13 DEF Streams, rest, fewer, b

-----------------------------------------------------------------------------
(* The decoder in front of such a stream.                                  *)

\* The bytes of replies that the decoder has not finished.
Unfinished(b) == (IF b.m_builder = <<>> THEN <<>> ELSE <<Number>>) \o b.m_buffer

LEMMA UnfinishedIsSymbols ==
  ASSUME NEW b \in NumberDecoder
  PROVE  /\ Unfinished(b) \in Seq(Symbol) /\ b.m_buffer \in Seq(Symbol)
         /\ b.m_builder = <<>> => Unfinished(b) = b.m_buffer
         /\ b.m_builder # <<>> =>
              /\ Len(Unfinished(b)) = Len(b.m_buffer) + 1 /\ Unfinished(b)[1] = Number
              /\ \A i \in 1..Len(b.m_buffer) : Unfinished(b)[i + 1] = b.m_buffer[i]
<1> DEFINE s == b.m_buffer
           h == <<Number>>
<1>1. s \in Seq(Symbol) /\ Len(s) \in Nat
  BY LenProperties DEF NumberDecoder
<1>2. h \in Seq(Symbol) /\ Len(h) = 1 /\ h[1] = Number
  BY DEF Symbol
<1> HIDE DEF s, h
<1>3. CASE b.m_builder = <<>>
  <2>1. Unfinished(b) = <<>> \o s
    BY <1>3 DEF Unfinished, s
  <2> QED
    BY <1>1, <1>3, <2>1, ConcatEmptySeq DEF s
<1>4. CASE b.m_builder # <<>>
  <2>1. Unfinished(b) = h \o s
    BY <1>4 DEF Unfinished, s, h
  <2>2. /\ h \o s \in Seq(Symbol) /\ Len(h \o s) = Len(h) + Len(s)
        /\ \A i \in 1..Len(h) + Len(s) : (h \o s)[i] = IF i <= Len(h) THEN h[i] ELSE s[i - Len(h)]
    BY <1>1, <1>2, ConcatProperties
  <2>3. Unfinished(b) \in Seq(Symbol) /\ Len(Unfinished(b)) = Len(s) + 1 /\ Unfinished(b)[1] = Number
    BY <1>1, <1>2, <2>1, <2>2
  <2>4. ASSUME NEW i \in 1..Len(s) PROVE Unfinished(b)[i + 1] = s[i]
    <3>1. i + 1 \in 1..Len(h) + Len(s) /\ ~(i + 1 <= Len(h)) /\ (i + 1) - Len(h) = i
      BY <1>1, <1>2
    <3> QED
      BY <2>1, <2>2, <3>1
  <2> QED
    BY <1>1, <1>4, <2>3, <2>4 DEF s
<1> QED
  BY <1>3, <1>4

LEMMA CreatingKeepsBytes ==
  ASSUME NEW b \in NumberDecoder, b.m_builder = <<>>, b.m_buffer # <<>>, Head(b.m_buffer) = Number
  PROVE  Unfinished(Created(b)) = Unfinished(b)
<1> DEFINE s == b.m_buffer
           c == Created(b)
<1>1. s \in Seq(Symbol) /\ Len(s) \in Nat /\ Len(s) >= 1 /\ s[1] = Number
  BY EmptySeq, LenProperties DEF NumberDecoder
<1>2. /\ Tail(s) \in Seq(Symbol) /\ Len(Tail(s)) = Len(s) - 1
      /\ \A i \in 1..Len(Tail(s)) : Tail(s)[i] = s[i + 1]
  BY <1>1, HeadTailProperties
<1>3. c.m_buffer = Tail(s) /\ c.m_builder # <<>>
  BY DEF Created, NumberDecoder
<1>4. c \in NumberDecoder
  <2>1. <<NumberBuilder>> \in {<<>>, <<NumberBuilder>>}
    OBVIOUS
  <2> QED
    BY <1>2, <2>1 DEF Created, NumberDecoder
<1>5. /\ Unfinished(c) \in Seq(Symbol) /\ Len(Unfinished(c)) = Len(Tail(s)) + 1
      /\ Unfinished(c)[1] = Number
      /\ \A i \in 1..Len(Tail(s)) : Unfinished(c)[i + 1] = Tail(s)[i]
  BY <1>3, <1>4, UnfinishedIsSymbols
<1> HIDE DEF c
<1>6. Unfinished(b) = s
  BY UnfinishedIsSymbols
<1> HIDE DEF s
<1>7. ASSUME NEW i \in 1..Len(s) PROVE Unfinished(c)[i] = s[i]
  <2>1. CASE i = 1
    BY <1>1, <1>5, <2>1
  <2>2. CASE i # 1
    <3>1. i - 1 \in 1..Len(Tail(s)) /\ (i - 1) + 1 = i
      BY <1>1, <1>2, <2>2
    <3> QED
      BY <1>2, <1>5, <3>1
  <2> QED
    BY <2>1, <2>2
<1>8. Len(Unfinished(c)) = Len(s)
  BY <1>1, <1>2, <1>5
<1>9. Unfinished(c) = s
  BY <1>1, <1>5, <1>7, <1>8, SeqEqual
<1> QED
  BY <1>6, <1>9 DEF c

\* The first line ends where the digits of the first number do.
LEMMA LineIsTheNumber ==
  ASSUME NEW b \in NumberDecoder, b.m_builder # <<>>, Ends(b.m_buffer) # {},
         NEW later \in Seq(Symbol), NEW n \in Nat,
         Len(Bytes(n)) <= Len(Unfinished(b) \o later),
         \A j \in 1..Len(Bytes(n)) : (Unfinished(b) \o later)[j] = Bytes(n)[j]
  PROVE  Line(b) = Decimal[n] /\ LineEnd(b) = Len(Decimal[n]) + 1
<1> DEFINE s == b.m_buffer
           k == Len(s)
           d == Decimal[n]
           l == Len(d)
           e == LineEnd(b)
           all == Unfinished(b) \o later
<1>1. /\ l \in Nat /\ d \in Seq(Digit) /\ Len(Bytes(n)) = l + 3
      /\ \A i \in 1..l : Bytes(n)[i + 1] = d[i]
      /\ Bytes(n)[l + 2] = CR /\ Bytes(n)[l + 3] = LF
  BY BytesShape
<1>2. /\ e \in Ends(s) /\ e \in 1..k - 1 /\ \A i \in Ends(s) : e <= i
  BY LineEndIsFirst
<1>3. s \in Seq(Symbol) /\ k \in Nat /\ Len(later) \in Nat
  BY LenProperties DEF NumberDecoder
<1>4. ASSUME NEW i \in 1..k PROVE all[i + 1] = s[i]
  <2>1. /\ Unfinished(b) \in Seq(Symbol) /\ Len(Unfinished(b)) = k + 1
        /\ Unfinished(b)[i + 1] = s[i]
    BY UnfinishedIsSymbols
  <2> HIDE DEF s, k
  <2>2. i + 1 \in 1..(k + 1) + Len(later) /\ i + 1 <= k + 1
    BY <1>3
  <2>3. all[i + 1] = Unfinished(b)[i + 1]
    BY <2>1, <2>2, ConcatProperties
  <2> QED
    BY <2>1, <2>3
<1> HIDE DEF all, e, l, d, k, s
<1>5. \A j \in 1..l + 3 : all[j] = Bytes(n)[j]
  BY <1>1 DEF all
<1>6. l < e
  <2> SUFFICES ASSUME ~(l < e) PROVE FALSE
    OBVIOUS
  <2>1. e \in 1..l /\ e + 1 \in 1..l + 3 /\ e \in 1..k
    BY <1>1, <1>2, <1>3
  <2>2. s[e] = d[e]
    BY <1>1, <1>4, <1>5, <2>1
  <2>3. d[e] \in Digit
    BY <1>1, <2>1, ElementOfSeq DEF l
  <2>4. s[e] = CR
    BY <1>2 DEF Ends
  <2> QED
    BY <2>2, <2>3, <2>4 DEF CR, Digit
<1>7. l + 1 \in Ends(s)
  <2>1. /\ l + 1 \in 1..k - 1 /\ l + 1 \in 1..k /\ l + 2 \in 1..k
        /\ (l + 1) + 1 = l + 2 /\ (l + 2) + 1 = l + 3 /\ l + 2 \in 1..l + 3 /\ l + 3 \in 1..l + 3
    BY <1>1, <1>2, <1>3, <1>6
  <2>2. s[l + 1] = CR /\ s[l + 2] = LF
    BY <1>1, <1>4, <1>5, <2>1
  <2> QED
    BY <2>1, <2>2 DEF Ends, k
<1>8. e = l + 1
  BY <1>1, <1>2, <1>3, <1>6, <1>7
<1>9. Line(b) \in Seq(Symbol) /\ Len(Line(b)) = e - 1 /\ \A i \in 1..e - 1 : Line(b)[i] = s[i]
  BY LineIsCut DEF e, s
<1>10. ASSUME NEW i \in 1..l PROVE Line(b)[i] = d[i]
  <2>1. i \in 1..e - 1 /\ i \in 1..k /\ i + 1 \in 1..l + 3
    BY <1>1, <1>2, <1>3, <1>8
  <2> QED
    BY <1>1, <1>4, <1>5, <1>9, <2>1
<1>11. d \in Seq(Symbol)
  BY <1>1, SeqMonotonic DEF Symbol
<1>12. Line(b) = d
  <2>1. Len(Line(b)) = Len(d) /\ Len(d) = l
    BY <1>1, <1>8, <1>9 DEF l
  <2> QED
    BY <1>9, <1>10, <1>11, <2>1, SeqEqual
<1> QED
  BY <1>8, <1>12 DEF d, e, l

LEMMA FinishingTakesBytes ==
  ASSUME NEW b \in NumberDecoder, b.m_builder # <<>>, Ends(b.m_buffer) # {},
         NEW later \in Seq(Symbol), NEW l \in Nat, LineEnd(b) = l + 1
  PROVE  Unfinished(Finished(b)) \o later = Dropped(Unfinished(b) \o later, l + 3)
<1> DEFINE s == b.m_buffer
           k == Len(s)
           a == AfterLine(b)
           all == Unfinished(b) \o later
           n == Len(all)
           m == Len(later)
<1>1. s \in Seq(Symbol) /\ k \in Nat /\ m \in Nat
  BY LenProperties DEF NumberDecoder
<1>2. l + 1 \in 1..k - 1
  BY LineEndIsFirst
<1>3. /\ a \in Seq(Symbol) /\ Len(a) = k - (l + 2)
      /\ \A i \in 1..k - (l + 2) : a[i] = s[l + 2 + i]
  <2>1. /\ a \in Seq(Symbol) /\ Len(a) = k - (LineEnd(b) + 1)
        /\ \A i \in 1..Len(a) : a[i] = s[LineEnd(b) + 1 + i]
    BY LineIsCut
  <2>2. LineEnd(b) + 1 = l + 2
    OBVIOUS
  <2> HIDE DEF a, s, k
  <2> QED
    BY <2>1, <2>2
<1>4. Unfinished(Finished(b)) = a
  <2>1. Finished(b).m_buffer = a /\ Finished(b).m_builder = <<>>
    BY DEF Finished, NumberDecoder
  <2>2. Unfinished(Finished(b)) = <<>> \o a
    BY <2>1 DEF Unfinished
  <2> HIDE DEF a
  <2> QED
    BY <1>3, <2>2, ConcatEmptySeq
<1>5. /\ Unfinished(b) \in Seq(Symbol) /\ Len(Unfinished(b)) = k + 1
      /\ \A i \in 1..k : Unfinished(b)[i + 1] = s[i]
  BY UnfinishedIsSymbols
<1> HIDE DEF a, s, k
<1>6. /\ all \in Seq(Symbol) /\ n = (k + 1) + m
      /\ \A i \in 1..(k + 1) + m :
           all[i] = IF i <= k + 1 THEN Unfinished(b)[i] ELSE later[i - (k + 1)]
  <2> DEFINE u == Unfinished(b)
  <2>1. u \in Seq(Symbol) /\ Len(u) = k + 1
    BY <1>5
  <2> HIDE DEF u
  <2>2. /\ u \o later \in Seq(Symbol) /\ Len(u \o later) = Len(u) + Len(later)
        /\ \A i \in 1..Len(u) + Len(later) :
             (u \o later)[i] = IF i <= Len(u) THEN u[i] ELSE later[i - Len(u)]
    BY <2>1, ConcatProperties
  <2> QED
    BY <2>1, <2>2 DEF u
<1>7. /\ a \o later \in Seq(Symbol) /\ Len(a \o later) = Len(a) + m
      /\ \A i \in 1..Len(a) + m : (a \o later)[i] = IF i <= Len(a) THEN a[i] ELSE later[i - Len(a)]
  BY <1>3, ConcatProperties
<1> DEFINE left == a \o later
           right == SubSeq(all, (l + 3) + 1, n)
<1> HIDE DEF all, n, m
<1>8. /\ right \in Seq(Symbol) /\ Len(right) = n - (l + 3)
      /\ \A i \in 1..n - (l + 3) : right[i] = all[(l + 3) + i]
  <2>1. (l + 3) + 1 \in Int /\ n \in Int /\ \A i \in (l + 3) + 1..n : all[i] \in Symbol
    <3>1. \A i \in 1..n : all[i] \in Symbol
      BY <1>6, ElementOfSeq DEF n
    <3> QED
      BY <1>1, <1>6, <3>1
  <2>2. /\ right \in Seq(Symbol)
        /\ Len(right) = IF (l + 3) + 1 <= n THEN n - ((l + 3) + 1) + 1 ELSE 0
        /\ \A i \in 1..(n - ((l + 3) + 1) + 1) : right[i] = all[((l + 3) + 1) + i - 1]
    BY <2>1, SubSeqProperties
  <2> HIDE DEF right
  <2>3. n >= l + 3
    BY <1>1, <1>2, <1>6
  <2>4. Len(right) = n - (l + 3)
    BY <2>1, <2>2, <2>3
  <2>5. ASSUME NEW i \in 1..n - (l + 3) PROVE right[i] = all[(l + 3) + i]
    <3>1. i \in 1..(n - ((l + 3) + 1) + 1) /\ ((l + 3) + 1) + i - 1 = (l + 3) + i
      BY <2>1
    <3> QED
      BY <2>2, <3>1
  <2> QED
    BY <2>2, <2>4, <2>5
<1> HIDE DEF left, right
<1>9. left \in Seq(Symbol) /\ Len(left) = n - (l + 3)
  BY <1>1, <1>3, <1>6, <1>7 DEF left
<1>10. ASSUME NEW i \in 1..n - (l + 3) PROVE left[i] = right[i]
  <2>1. i \in 1..Len(a) + m /\ (l + 3) + i \in 1..(k + 1) + m
    BY <1>1, <1>2, <1>3, <1>6
  <2>2. CASE i <= Len(a)
    <3>1. i \in 1..k - (l + 2) /\ (l + 3) + i <= k + 1 /\ l + 2 + i \in 1..k /\ (l + 2 + i) + 1 = (l + 3) + i
      BY <1>1, <1>2, <1>3, <2>1, <2>2
    <3>2. left[i] = s[l + 2 + i]
      BY <1>3, <1>7, <2>1, <2>2, <3>1 DEF left
    <3>3. all[(l + 3) + i] = s[l + 2 + i]
      BY <1>5, <1>6, <2>1, <3>1
    <3> QED
      BY <1>8, <3>2, <3>3
  <2>3. CASE ~(i <= Len(a))
    <3>1. ~((l + 3) + i <= k + 1) /\ ((l + 3) + i) - (k + 1) = i - Len(a)
      BY <1>1, <1>2, <1>3, <2>1, <2>3
    <3>2. left[i] = later[i - Len(a)]
      BY <1>7, <2>1, <2>3 DEF left
    <3>3. all[(l + 3) + i] = later[i - Len(a)]
      BY <1>6, <2>1, <3>1
    <3> QED
      BY <1>8, <3>2, <3>3
  <2> QED
    BY <2>2, <2>3
<1>11. left = right
  BY <1>8, <1>9, <1>10, SeqEqual
<1> QED
  BY <1>4, <1>11 DEF left, right, Dropped, all, n

\* One step of a decoder of number replies, if it takes anything: it does not fail,
\* and what it has left and what is still to come are the same numbers as before,
\* or all but the first, which it has finished.  (That complete replies are handed
\* over is EveryCutDecodes.)
LEMMA DecoderFollowsStream ==
  ASSUME NEW b \in NumberDecoder, ~b.thrown,
         NEW later \in Seq(Symbol), NEW numbers \in Seq(Nat),
         Streams(Unfinished(b) \o later, numbers)
  PROVE  /\ Build(b) \in NumberDecoder /\ ~Build(b).thrown
         /\ \/ /\ Build(b).replies = b.replies
               /\ Streams(Unfinished(Build(b)) \o later, numbers)
            \/ /\ numbers # <<>>
               /\ Build(b).replies = Append(b.replies, NumberReply(numbers[1]))
               /\ Streams(Unfinished(Build(b)) \o later, Tail(numbers))
<1> DEFINE s == b.m_buffer
           u == Unfinished(b)
           all == u \o later
<1>1. s \in Seq(Symbol) /\ Len(s) \in Nat /\ u \in Seq(Symbol) /\ Len(u) \in Nat /\ Len(later) \in Nat
  BY UnfinishedIsSymbols, LenProperties
<1> HIDE DEF u
<1>2. /\ all \in Seq(Symbol) /\ Len(all) = Len(u) + Len(later)
      /\ \A i \in 1..Len(u) : all[i] = u[i]
  BY <1>1, ConcatProperties
<1> HIDE DEF all
<1>3. Streams(all, numbers)
  BY DEF all, u
<1>4. Build(b) \in NumberDecoder
  BY BuildStaysNumberDecoder
<1>5. ASSUME u # <<>>
      PROVE  /\ numbers # <<>> /\ numbers[1] \in Nat
             /\ Len(Bytes(numbers[1])) <= Len(all)
             /\ \A j \in 1..Len(Bytes(numbers[1])) : all[j] = Bytes(numbers[1])[j]
             /\ u[1] = Number
  <2>1. Len(u) >= 1
    BY <1>1, <1>5, EmptySeq
  <2>2. all # <<>>
    BY <1>1, <1>2, <2>1
  <2>3. numbers # <<>>
    BY <1>2, <1>3, <2>2, NoNumbersNoBytes
  <2>4. /\ numbers[1] \in Nat /\ Len(Bytes(numbers[1])) <= Len(all)
        /\ \A j \in 1..Len(Bytes(numbers[1])) : all[j] = Bytes(numbers[1])[j]
    BY <1>2, <1>3, <2>3, StreamBegins
  <2>5. Bytes(numbers[1])[1] = Number /\ 1 \in 1..Len(Bytes(numbers[1]))
    <3> DEFINE x == numbers[1]
    <3>1. x \in Nat
      BY <2>4
    <3> HIDE DEF x
    <3>2. Bytes(x)[1] = Number /\ Len(Decimal[x]) \in Nat /\ Len(Bytes(x)) = Len(Decimal[x]) + 3
      BY <3>1, BytesShape
    <3>3. 1 \in 1..Len(Bytes(x))
      BY <3>2
    <3> QED
      BY <3>2, <3>3 DEF x
  <2> QED
    BY <1>1, <1>2, <2>1, <2>3, <2>4, <2>5
<1>6. CASE Build(b) = b
  BY <1>4, <1>6
<1>7. CASE b.m_builder = <<>> /\ s # <<>>
  <2>1. u = s
    BY <1>7, UnfinishedIsSymbols DEF u
  <2>2. s[1] = Number /\ Head(s) = s[1]
    BY <1>1, <1>5, <1>7, <2>1
  <2>3. Build(b) = Created(b)
    BY <1>7, <2>2, BuildCreates
  <2>4. Unfinished(Created(b)) = u
    BY <1>7, <2>2, CreatingKeepsBytes DEF u
  <2>5. Created(b).replies = b.replies /\ Created(b).thrown = b.thrown
    BY DEF Created, NumberDecoder
  <2> QED
    BY <1>3, <1>4, <2>3, <2>4, <2>5 DEF all
<1>8. CASE b.m_builder # <<>> /\ Ends(s) # {}
  <2> DEFINE n == numbers[1]
             l == Len(Decimal[n])
  <2>1. u # <<>>
    <3>1. Len(u) = Len(s) + 1
      BY <1>8, UnfinishedIsSymbols DEF u
    <3> QED
      BY <1>1, <3>1
  <2>2. /\ numbers # <<>> /\ n \in Nat /\ Len(Bytes(n)) <= Len(all)
        /\ \A j \in 1..Len(Bytes(n)) : all[j] = Bytes(n)[j]
    BY <1>5, <2>1
  <2>3. /\ Decimal[n] \in Seq(Digit) /\ Integer(Decimal[n]) = n
        /\ l \in Nat /\ Len(Bytes(n)) = l + 3
    BY <2>2, NumbersAreReadBack, BytesShape
  <2> HIDE DEF n
  <2>4. Line(b) = Decimal[n] /\ LineEnd(b) = l + 1
    BY <1>8, <2>2, LineIsTheNumber DEF all, u
  <2>5. IsInteger(Line(b))
    <3>1. \A i \in DOMAIN Decimal[n] : Decimal[n][i] \in Digit
      BY <2>3, LenProperties, ElementOfSeq
    <3> QED
      BY <2>4, <3>1 DEF IsInteger
  <2>6. Build(b) = Finished(b)
    BY <1>8, <2>5, BuildReads
  <2>7. /\ Finished(b).thrown = b.thrown
        /\ Finished(b).replies = Append(b.replies, NumberReply(Integer(Line(b))))
    BY DEF Finished, NumberDecoder
  <2>8. Finished(b).replies = Append(b.replies, NumberReply(n))
    BY <2>3, <2>4, <2>7
  <2>9. Unfinished(Finished(b)) \o later = Dropped(all, Len(Bytes(n)))
    BY <1>8, <2>3, <2>4, FinishingTakesBytes DEF all, u
  <2>10. Streams(Dropped(all, Len(Bytes(n))), Tail(numbers))
    BY <1>2, <1>3, <2>2, StreamGoesOn DEF n
  <2> QED
    BY <1>4, <2>2, <2>6, <2>7, <2>8, <2>9, <2>10 DEF n
<1>9. CASE (b.m_builder = <<>> /\ s = <<>>) \/ (b.m_builder # <<>> /\ Ends(s) = {})
  BY <1>6, <1>9, BuildCreates, BuildReads
<1> QED
  BY <1>7, <1>8, <1>9

-----------------------------------------------------------------------------
(* The decoder of any replies, and its assignments.                        *)

\* A decoder, field by field, and what EXCEPT makes of it.
Fields(buffer, stack, replies, thrown) ==
  [m_buffer |-> buffer, m_builder |-> stack, replies |-> replies, thrown |-> thrown]

\* A decoder with builders of any kind in progress.
IsBuilder(e) ==
  /\ e = [id |-> e.id, size |-> e.size, rows |-> e.rows]
  /\ e.size = Unknown \/ \E n \in Int : e.size = <<n>>

IsStack(s) == \E S : s \in Seq(S) /\ \A e \in S : IsBuilder(e)

IsDecoder(b) ==
  /\ b = Fields(b.m_buffer, b.m_builder, b.replies, b.thrown)
  /\ b.m_buffer \in Seq(Byte)
  /\ IsStack(b.m_builder)
  /\ b.thrown \in BOOLEAN

\* More bytes behind those the decoder has.
More(b, bytes) == [b EXCEPT !.m_buffer = @ \o bytes]

\* Bytes are numbers.
LEMMA BytesAreInt == \A x \in Byte : x \in Int
  BY DEF Byte

\* The value of a line with a sign, too, is an integer.
LEMMA IntegerIsInt ==
  \A line \in Seq(Byte) : IsInteger(line) => Integer(line) \in Int
<1> SUFFICES ASSUME NEW line \in Seq(Byte), IsInteger(line) PROVE Integer(line) \in Int
  OBVIOUS
<1> DEFINE n == Len(line)
           prev == [i \in Nat |-> IF i = 0 THEN 0 ELSE i - 1]
           base == [i \in Nat |-> 0]
           step == [i \in Nat |-> [m \in Int |-> IF i \in 1..n THEN
                                     IF line[i] = Dash THEN m ELSE 10 * m + (line[i] - 48) ELSE 0]]
           Step(f, i) == IF i = 0 THEN 0
                         ELSE IF line[i] = Dash THEN f[i - 1]
                         ELSE 10 * f[i - 1] + (line[i] - 48)
           m_nbr[i \in 0..Len(line)] ==
             IF i = 0 THEN 0
             ELSE IF line[i] = Dash THEN m_nbr[i - 1]
             ELSE 10 * m_nbr[i - 1] + (line[i] - 48)
<1>1. n \in Nat /\ \A i \in 1..n : line[i] \in Int
  <2>1. ASSUME NEW i \in 1..n PROVE line[i] \in Int
    <3>1. line[i] \in Byte
      BY ElementOfSeq
    <3> QED
      BY <3>1, BytesAreInt, Zenon
  <2>2. n \in Nat
    BY LenProperties
  <2> HIDE DEF n
  <2> QED
    BY <2>1, <2>2
<1>2. prev \in [Nat -> Nat] /\ base \in [Nat -> Int] /\ step \in [Nat -> [Int -> Int]]
  <2>1. ASSUME NEW i \in Nat, NEW m \in Int
        PROVE  (IF i \in 1..n THEN IF line[i] = Dash THEN m ELSE 10 * m + (line[i] - 48) ELSE 0) \in Int
    <3>1. ASSUME i \in 1..n PROVE 10 * m + (line[i] - 48) \in Int
      <4>1. line[i] \in Int
        BY <1>1, <3>1
      <4> QED
        BY <4>1
    <3> HIDE DEF n
    <3> QED
      BY <3>1
  <2> QED
    BY <2>1
<1>3. prev[0] = 0 /\ base[0] = 0
  OBVIOUS
<1>4. \A i \in 1..n : prev[i] = i - 1 /\ i - 1 \in Nat
  OBVIOUS
<1>5. \A i \in 1..n : \A m \in Int : step[i][m] = IF line[i] = Dash THEN m ELSE 10 * m + (line[i] - 48)
  OBVIOUS
<1> HIDE DEF prev, base, step
<1>6. PICK f \in [Nat -> Int] : Computes(f, prev, base, step)
  BY <1>2, Recursion, Zenon
<1>7. f[0] = 0
  BY <1>3, <1>6 DEF Computes
<1>8. ASSUME NEW i \in 1..n PROVE f[i] = IF line[i] = Dash THEN f[i - 1] ELSE 10 * f[i - 1] + (line[i] - 48)
  <2>1. i \in Nat /\ i - 1 \in Nat /\ prev[i] = i - 1
    BY <1>4
  <2>2. prev[i] < i /\ f[i - 1] \in Int
    BY <2>1
  <2>3. f[i] = step[i][f[i - 1]]
    <3>1. f[i] = IF prev[i] < i THEN step[i][f[prev[i]]] ELSE base[i]
      BY <1>6, <2>1, Zenon DEF Computes
    <3> QED
      BY <2>1, <2>2, <3>1
  <2> HIDE DEF n
  <2>4. step[i][f[i - 1]] = IF line[i] = Dash THEN f[i - 1] ELSE 10 * f[i - 1] + (line[i] - 48)
    BY <1>5, <2>2
  <2> QED
    BY <2>3, <2>4
<1> DEFINE v == [i \in 0..n |-> f[i]]
<1>9. v = [i \in 0..n |-> Step(v, i)]
  <2>1. ASSUME NEW i \in 0..n PROVE v[i] = Step(v, i)
    <3>1. CASE i = 0
      BY <1>7, <3>1
    <3>2. CASE i # 0
      <4>1. i \in 1..n /\ i - 1 \in 0..n
        BY <1>1, <3>2
      <4> QED
        BY <1>8, <3>2, <4>1
    <3> QED
      BY <3>1, <3>2
  <2>2. v = [i \in 0..n |-> v[i]]
    OBVIOUS
  <2> HIDE DEF Step, v
  <2> QED
    BY <2>1, <2>2
<1>10. m_nbr = [i \in 0..n |-> Step(m_nbr, i)]
  BY <1>9, Zenon
<1>11. Integer(line) = IF line # <<>> /\ line[1] = Dash THEN -m_nbr[n] ELSE m_nbr[n]
  BY Zenon DEF Integer
<1> HIDE DEF m_nbr
<1>12. \A i \in 0..n : m_nbr[i] \in Int
  <2> DEFINE T == {i \in 0..n : m_nbr[i] \notin Int}
  <2> SUFFICES ASSUME T # {} PROVE FALSE
    OBVIOUS
  <2>1. PICK x \in T : \A y \in T : x <= y
    <3>1. T \subseteq Nat
      OBVIOUS
    <3> HIDE DEF T
    <3> QED
      BY <3>1, LeastNat
  <2>2. x \in 0..n /\ m_nbr[x] \notin Int
    OBVIOUS
  <2>3. m_nbr[x] = Step(m_nbr, x)
    <3> HIDE DEF Step
    <3> QED
      BY <1>10, <2>2
  <2>4. x # 0
    BY <2>2, <2>3
  <2>5. x - 1 \in 0..n /\ x \in 1..n /\ ~(x <= x - 1)
    BY <1>1, <2>2, <2>4
  <2>6. m_nbr[x - 1] \in Int
    BY <2>1, <2>5
  <2> HIDE DEF T
  <2>7. m_nbr[x] = IF line[x] = Dash THEN m_nbr[x - 1] ELSE 10 * m_nbr[x - 1] + (line[x] - 48)
    BY <2>3, <2>4
  <2>8. line[x] \in Int
    BY <1>1, <2>5
  <2> DEFINE a == m_nbr[x - 1]
             c == line[x]
  <2>9. a \in Int /\ c \in Int /\ m_nbr[x] = IF c = Dash THEN a ELSE 10 * a + (c - 48)
    BY <2>6, <2>7, <2>8
  <2> HIDE DEF a, c
  <2> QED
    BY <2>2, <2>9
<1>13. m_nbr[n] \in Int
  BY <1>1, <1>12
<1> QED
  BY <1>13, <1>11

\* The stack of builders: what its top, a new builder, and a new top do to it.
LEMMA StackEmpty == IsStack(<<>>) /\ Len(<<>>) = 0
<1>1. IsStack(<<>>)
  <2> SUFFICES \E S : <<>> \in Seq(S) /\ \A e \in S : IsBuilder(e)
    BY DEF IsStack
  <2> DEFINE S == {}
  <2>1. <<>> \in Seq(S) /\ \A e \in S : IsBuilder(e)
    BY EmptySeq
  <2> HIDE DEF S
  <2> QED
    BY <2>1
<1> QED
  BY <1>1

\* The builder on top can be replaced; what is below stays.
LEMMA StackTop ==
  \A s : IsStack(s) /\ s # <<>> =>
    /\ Len(s) \in Nat /\ Len(s) >= 1 /\ IsBuilder(Last(s))
    /\ IsStack(Front(s)) /\ Len(Front(s)) = Len(s) - 1
    /\ \A e : IsBuilder(e) => LET t == [s EXCEPT ![Len(s)] = e] IN
         IsStack(t) /\ Len(t) = Len(s) /\ t # <<>> /\ Last(t) = e /\ Front(t) = Front(s)
<1> SUFFICES ASSUME NEW s, NEW S, s \in Seq(S), \A e \in S : IsBuilder(e), s # <<>>
             PROVE  /\ Len(s) \in Nat /\ Len(s) >= 1 /\ IsBuilder(Last(s))
                    /\ IsStack(Front(s)) /\ Len(Front(s)) = Len(s) - 1
                    /\ \A e : IsBuilder(e) => LET t == [s EXCEPT ![Len(s)] = e] IN
                         IsStack(t) /\ Len(t) = Len(s) /\ t # <<>> /\ Last(t) = e
                         /\ Front(t) = Front(s)
  BY DEF IsStack
<1>1. Len(s) \in Nat /\ Len(s) >= 1
  BY EmptySeq, LenProperties
<1>2. Last(s) \in S
  <2>1. Len(s) \in 1..Len(s)
    BY <1>1
  <2> QED
    BY <2>1, ElementOfSeq DEF Last
<1>3. Front(s) \in Seq(S) /\ Len(Front(s)) = Len(s) - 1
      /\ \A i \in 1..Len(s) - 1 : Front(s)[i] = s[i]
  <2> DEFINE n == Len(s) - 1
  <2>1. n \in Int /\ 1 \in Int /\ \A i \in 1..n : s[i] \in S
    BY <1>1, ElementOfSeq
  <2> HIDE DEF n
  <2>2. /\ SubSeq(s, 1, n) \in Seq(S) /\ Len(SubSeq(s, 1, n)) = IF 1 <= n THEN n - 1 + 1 ELSE 0
        /\ \A i \in 1..n - 1 + 1 : SubSeq(s, 1, n)[i] = s[1 + i - 1]
    BY <2>1, SubSeqProperties
  <2>3. n \in Nat
    BY <1>1 DEF n
  <2>4. Len(SubSeq(s, 1, n)) = n /\ \A i \in 1..n : SubSeq(s, 1, n)[i] = s[i]
    BY <2>2, <2>3
  <2> QED
    BY <2>2, <2>4 DEF n, Front
<1>4. ASSUME NEW e, IsBuilder(e)
      PROVE  LET t == [s EXCEPT ![Len(s)] = e] IN
               IsStack(t) /\ Len(t) = Len(s) /\ t # <<>> /\ Last(t) = e /\ Front(t) = Front(s)
  <2> DEFINE T == S \cup {e}
             t == [s EXCEPT ![Len(s)] = e]
             n == Len(s) - 1
  <2>1. s \in Seq(T) /\ e \in T /\ Len(s) \in 1..Len(s) /\ \A x \in T : IsBuilder(x)
    BY <1>1, <1>4, SeqMonotonic
  <2> HIDE DEF T
  <2>2. t \in Seq(T) /\ Len(t) = Len(s)
        /\ \A j \in 1..Len(s) : t[j] = IF j = Len(s) THEN e ELSE s[j]
    BY <2>1, ExceptSeq
  <2> HIDE DEF t
  <2>3. t # <<>> /\ Last(t) = e
    BY <1>1, <2>1, <2>2, EmptySeq DEF Last
  <2>4. n \in Nat /\ 1 \in Int /\ \A i \in 1..n : i \in 1..Len(s) /\ i # Len(s)
    BY <1>1
  <2> HIDE DEF n
  <2>5. \A i \in 1..n : t[i] = s[i] /\ t[i] \in T
    BY <2>1, <2>2, <2>4, ElementOfSeq
  <2>6. /\ SubSeq(t, 1, n) \in Seq(T) /\ Len(SubSeq(t, 1, n)) = IF 1 <= n THEN n - 1 + 1 ELSE 0
        /\ \A i \in 1..n - 1 + 1 : SubSeq(t, 1, n)[i] = t[1 + i - 1]
    BY <2>4, <2>5, SubSeqProperties
  <2>7. Front(t) \in Seq(T) /\ Len(Front(t)) = n /\ \A i \in 1..n : Front(t)[i] = t[i]
    BY <2>2, <2>4, <2>6 DEF Front, n
  <2>8. Front(s) \in Seq(T)
    BY <1>3, SeqMonotonic DEF T
  <2>9. Front(t) = Front(s)
    <3>1. Len(Front(s)) = n /\ \A i \in 1..n : Front(t)[i] = Front(s)[i]
      BY <1>3, <2>5, <2>7 DEF n
    <3> QED
      BY <2>7, <2>8, <3>1, SeqEqual
  <2> QED
    BY <2>1, <2>2, <2>3, <2>9 DEF IsStack, t
<1> QED
  BY <1>1, <1>2, <1>3, <1>4 DEF IsStack

\* A builder on the stack, and the ones below it.
LEMMA StackPush ==
  \A s, e : IsStack(s) /\ IsBuilder(e) =>
    /\ Len(s) \in Nat /\ IsStack(Append(s, e)) /\ Len(Append(s, e)) = Len(s) + 1
    /\ Append(s, e) # <<>> /\ Last(Append(s, e)) = e /\ Front(Append(s, e)) = s
<1> SUFFICES ASSUME NEW s, NEW e, NEW S, s \in Seq(S), \A x \in S : IsBuilder(x), IsBuilder(e)
             PROVE  /\ Len(s) \in Nat /\ IsStack(Append(s, e)) /\ Len(Append(s, e)) = Len(s) + 1
                    /\ Append(s, e) # <<>> /\ Last(Append(s, e)) = e /\ Front(Append(s, e)) = s
  BY DEF IsStack
<1> DEFINE T == S \cup {e}
           t == Append(s, e)
           n == Len(s)
<1>1. s \in Seq(T) /\ e \in T /\ \A x \in T : IsBuilder(x)
  BY SeqMonotonic
<1> HIDE DEF T
<1>2. /\ n \in Nat /\ t \in Seq(T) /\ t # <<>> /\ Len(t) = n + 1
      /\ \A i \in 1..n : t[i] = s[i]
      /\ t[n + 1] = e
  BY <1>1, AppendProperties, LenProperties
<1> HIDE DEF t
<1>3. SubSeq(t, 1, n) = s
  <2> HIDE DEF n
  <2>1. n \in Int /\ 1 \in Int /\ \A i \in 1..n : t[i] \in T
    <3>1. \A i \in 1..n : i \in 1..Len(t)
      BY <1>2
    <3> QED
      BY <1>2, <3>1, ElementOfSeq
  <2>2. /\ SubSeq(t, 1, n) \in Seq(T) /\ Len(SubSeq(t, 1, n)) = IF 1 <= n THEN n - 1 + 1 ELSE 0
        /\ \A i \in 1..n - 1 + 1 : SubSeq(t, 1, n)[i] = t[1 + i - 1]
    BY <2>1, SubSeqProperties
  <2>3. Len(SubSeq(t, 1, n)) = n /\ \A i \in 1..n : SubSeq(t, 1, n)[i] = s[i]
    BY <1>2, <2>2
  <2>4. Len(s) = n
    BY DEF n
  <2> QED
    BY <1>1, <2>2, <2>3, <2>4, SeqEqual
<1>4. Last(t) = e /\ Front(t) = s
  <2>1. Len(t) - 1 = n
    BY <1>2
  <2> QED
    BY <1>2, <1>3, <2>1 DEF Last, Front
<1> QED
  BY <1>1, <1>2, <1>4 DEF IsStack, t, n

\* The depth of a stack.
LEMMA StackSize ==
  \A s : IsStack(s) => Len(s) \in Nat /\ (Len(s) = 0 <=> s = <<>>)
  BY EmptySeq, LenProperties DEF IsStack

\* The assignments of the builders, as operators the provers need not open.
WithBuffer(b, x) == [b EXCEPT !.m_buffer = x]
WithBuilder(b, x, y) == [b EXCEPT !.m_buffer = x, !.m_builder = y]
WithReplies(b, x, y, z) == [b EXCEPT !.m_buffer = x, !.m_builder = y, !.replies = z]
WithThrown(b, x) == [b EXCEPT !.thrown = x]

\* An assignment changes its fields and leaves the others.
LEMMA BufferUpdate ==
  \A b, buffer, stack, replies, thrown, x : b = Fields(buffer, stack, replies, thrown) =>
    WithBuffer(b, x) = Fields(x, stack, replies, thrown)
<1> SUFFICES ASSUME NEW b, NEW buffer, NEW stack, NEW replies, NEW thrown, NEW x,
                    b = Fields(buffer, stack, replies, thrown)
             PROVE  WithBuffer(b, x) = Fields(x, stack, replies, thrown)
  OBVIOUS
<1>1. [b EXCEPT !.m_buffer = x] = Fields(x, stack, replies, thrown)
  BY DEF Fields
<1> QED
  BY <1>1, Zenon DEF WithBuffer

\* The flag.
LEMMA ThrownUpdate ==
  \A b, buffer, stack, replies, thrown, x : b = Fields(buffer, stack, replies, thrown) =>
    WithThrown(b, x) = Fields(buffer, stack, replies, x)
<1> SUFFICES ASSUME NEW b, NEW buffer, NEW stack, NEW replies, NEW thrown, NEW x,
                    b = Fields(buffer, stack, replies, thrown)
             PROVE  WithThrown(b, x) = Fields(buffer, stack, replies, x)
  OBVIOUS
<1>1. [b EXCEPT !.thrown = x] = Fields(buffer, stack, replies, x)
  BY DEF Fields
<1> QED
  BY <1>1, Zenon DEF WithThrown

\* The buffer and the stack.
LEMMA BuilderUpdate ==
  \A b, buffer, stack, replies, thrown, x, y : b = Fields(buffer, stack, replies, thrown) =>
    WithBuilder(b, x, y) = Fields(x, y, replies, thrown)
<1> SUFFICES ASSUME NEW b, NEW buffer, NEW stack, NEW replies, NEW thrown, NEW x, NEW y,
                    b = Fields(buffer, stack, replies, thrown)
             PROVE  WithBuilder(b, x, y) = Fields(x, y, replies, thrown)
  OBVIOUS
<1> DEFINE c == [b EXCEPT !.m_buffer = x]
<1>1. c = Fields(x, stack, replies, thrown)
  BY DEF Fields
<1>2. [b EXCEPT !.m_buffer = x, !.m_builder = y] = [c EXCEPT !.m_builder = y]
  BY Zenon
<1> HIDE DEF c
<1>3. [c EXCEPT !.m_builder = y] = Fields(x, y, replies, thrown)
  BY <1>1 DEF Fields
<1> QED
  BY <1>2, <1>3, Zenon DEF WithBuilder

\* And the replies.
LEMMA RepliesUpdate ==
  \A b, buffer, stack, replies, thrown, x, y, z : b = Fields(buffer, stack, replies, thrown) =>
    WithReplies(b, x, y, z) = Fields(x, y, z, thrown)
<1> SUFFICES ASSUME NEW b, NEW buffer, NEW stack, NEW replies, NEW thrown, NEW x, NEW y, NEW z,
                    b = Fields(buffer, stack, replies, thrown)
             PROVE  WithReplies(b, x, y, z) = Fields(x, y, z, thrown)
  OBVIOUS
<1> DEFINE c == WithBuilder(b, x, y)
<1>1. c = Fields(x, y, replies, thrown)
  BY BuilderUpdate
<1>2. [b EXCEPT !.m_buffer = x, !.m_builder = y, !.replies = z] = [c EXCEPT !.replies = z]
  BY Zenon DEF WithBuilder
<1> HIDE DEF c
<1>3. [c EXCEPT !.replies = z] = Fields(x, y, z, thrown)
  BY <1>1 DEF Fields
<1> QED
  BY <1>2, <1>3, Zenon DEF WithReplies

WithRows(e, x) == [e EXCEPT !.rows = x]
WithSize(e, x) == [e EXCEPT !.size = x]

\* The same for the fields of a builder.
LEMMA BuilderUpdates ==
  \A e, x : IsBuilder(e) =>
    /\ WithRows(e, x) = [id |-> e.id, size |-> e.size, rows |-> x]
    /\ WithSize(e, x) = [id |-> e.id, size |-> x, rows |-> e.rows]
<1> SUFFICES ASSUME NEW e, NEW x, NEW id, NEW size, NEW rows, e = [id |-> id, size |-> size, rows |-> rows]
             PROVE  /\ WithRows(e, x) = [id |-> id, size |-> size, rows |-> x]
                    /\ WithSize(e, x) = [id |-> id, size |-> x, rows |-> rows]
  BY DEF IsBuilder
<1>1. [e EXCEPT !.rows = x] = [id |-> id, size |-> size, rows |-> x]
  OBVIOUS
<1>2. [e EXCEPT !.size = x] = [id |-> id, size |-> x, rows |-> rows]
  OBVIOUS
<1> QED
  BY <1>1, <1>2, Zenon DEF WithRows, WithSize

\* The fields of a decoder.
LEMMA StateFields ==
  \A b, buffer, stack, replies, thrown : b = Fields(buffer, stack, replies, thrown) =>
    b.m_buffer = buffer /\ b.m_builder = stack /\ b.replies = replies /\ b.thrown = thrown
  BY DEF Fields

\* Fields that are typed make a decoder.
LEMMA StateIsDecoder ==
  \A b, buffer, stack, replies, thrown :
    /\ b = Fields(buffer, stack, replies, thrown)
    /\ buffer \in Seq(Byte) /\ IsStack(stack) /\ thrown \in BOOLEAN
    => IsDecoder(b)
  BY StateFields DEF IsDecoder

\* Bytes that follow change the buffer and nothing else.
LEMMA MoreIs ==
  ASSUME NEW b, IsDecoder(b), NEW bytes \in Seq(Byte)
  PROVE  /\ IsDecoder(More(b, bytes))
         /\ More(b, bytes) = Fields(b.m_buffer \o bytes, b.m_builder, b.replies, b.thrown)
         /\ More(b, bytes).m_buffer = b.m_buffer \o bytes
         /\ More(b, bytes).m_builder = b.m_builder
         /\ More(b, bytes).replies = b.replies
         /\ More(b, bytes).thrown = b.thrown
<1>1. b.m_buffer \o bytes \in Seq(Byte)
  BY ConcatProperties DEF IsDecoder
<1>2. More(b, bytes) = Fields(b.m_buffer \o bytes, b.m_builder, b.replies, b.thrown)
  <2>1. More(b, bytes) = WithBuffer(b, b.m_buffer \o bytes)
    BY Zenon DEF More, WithBuffer
  <2> QED
    BY <2>1, BufferUpdate DEF IsDecoder
<1>3. IsDecoder(More(b, bytes))
  BY <1>1, <1>2, StateIsDecoder DEF IsDecoder
<1>4. \A d : d = Fields(b.m_buffer \o bytes, b.m_builder, b.replies, b.thrown) =>
        d.m_buffer = b.m_buffer \o bytes /\ d.m_builder = b.m_builder /\ d.replies = b.replies
        /\ d.thrown = b.thrown
  BY DEF Fields
<1> QED
  BY <1>2, <1>3, <1>4, Zenon

\* What a step may do: take bytes, or finish a builder.
Weight(b) == 2 * Len(b.m_buffer) + Len(b.m_builder)

\* The builder of an array gets a row.
WithRow(outer, reply) ==
  [outer EXCEPT ![Len(outer)] = [id |-> Last(outer).id, size |-> Last(outer).size,
                                 rows |-> Append(Last(outer).rows, reply)]]

\* A reply that is ready takes one builder off the stack.
LEMMA ReadyIs ==
  ASSUME NEW b, IsDecoder(b), ~b.thrown, b.m_builder # <<>>, NEW buffer \in Seq(Byte), NEW reply
  PROVE  LET c == Ready(b, buffer, reply) IN
         /\ IsDecoder(c) /\ ~c.thrown
         /\ c.m_buffer = buffer
         /\ Len(c.m_builder) = Len(b.m_builder) - 1
         /\ IF Front(b.m_builder) = <<>>
            THEN c.m_builder = <<>> /\ c.replies = Append(b.replies, reply)
            ELSE /\ c.replies = b.replies
                 /\ c.m_builder = WithRow(Front(b.m_builder), reply)
         /\ \A bytes \in Seq(Byte) : Ready(More(b, bytes), buffer \o bytes, reply) = More(c, bytes)
<1> DEFINE c == Ready(b, buffer, reply)
           outer == Front(b.m_builder)
           e == [id |-> Last(outer).id, size |-> Last(outer).size, rows |-> Append(Last(outer).rows, reply)]
           stack == IF outer = <<>> THEN <<>> ELSE [outer EXCEPT ![Len(outer)] = e]
           all == IF outer = <<>> THEN Append(b.replies, reply) ELSE b.replies
<1>1. /\ IsStack(b.m_builder) /\ IsStack(outer) /\ Len(outer) = Len(b.m_builder) - 1
      /\ b = Fields(b.m_buffer, b.m_builder, b.replies, b.thrown) /\ b.thrown \in BOOLEAN
  BY StackTop DEF IsDecoder
<1>2. outer # <<>> =>
        /\ [outer EXCEPT ![Len(outer)].rows = Append(@, reply)] = [outer EXCEPT ![Len(outer)] = e]
        /\ IsBuilder(e)
  <2> SUFFICES ASSUME outer # <<>>
               PROVE  /\ [outer EXCEPT ![Len(outer)].rows = Append(@, reply)] = [outer EXCEPT ![Len(outer)] = e]
                      /\ IsBuilder(e)
    OBVIOUS
  <2> HIDE DEF outer
  <2> DEFINE l == Last(outer)
  <2>1. l = [id |-> l.id, size |-> l.size, rows |-> l.rows]
        /\ (l.size = Unknown \/ \E n \in Int : l.size = <<n>>)
    BY <1>1, StackTop DEF IsBuilder
  <2> HIDE DEF l
  <2>2. WithRows(l, Append(l.rows, reply)) = [id |-> l.id, size |-> l.size, rows |-> Append(l.rows, reply)]
    BY <1>1, StackTop, BuilderUpdates DEF l
  <2>3. IsBuilder([id |-> l.id, size |-> l.size, rows |-> Append(l.rows, reply)])
    BY <2>1 DEF IsBuilder
  <2>4. [outer EXCEPT ![Len(outer)].rows = Append(@, reply)]
          = [outer EXCEPT ![Len(outer)] = [outer[Len(outer)] EXCEPT !.rows = Append(outer[Len(outer)].rows, reply)]]
    BY Zenon
  <2>5. l = outer[Len(outer)]
    BY DEF l, Last
  <2>6. e = [id |-> l.id, size |-> l.size, rows |-> Append(l.rows, reply)]
    BY DEF l
  <2> HIDE DEF e
  <2> QED
    BY <2>2, <2>3, <2>4, <2>5, <2>6, Zenon DEF WithRows
<1>3. IsStack(stack) /\ Len(stack) = Len(outer)
  <2> HIDE DEF outer, e
  <2>1. CASE outer = <<>>
    BY <2>1, StackEmpty
  <2>2. CASE outer # <<>>
    BY <1>1, <1>2, <2>2, StackTop
  <2> QED
    BY <2>1, <2>2
<1> HIDE DEF c, e
<1>4. ASSUME NEW s \in Seq(Byte), NEW d, d = Fields(s, b.m_builder, b.replies, b.thrown), NEW t
      PROVE  Ready(d, t, reply) = Fields(t, stack, all, b.thrown)
  <2>1. d.m_builder = b.m_builder /\ d.replies = b.replies
    BY <1>4, StateFields
  <2>2. CASE outer = <<>>
    <3>1. Ready(d, t, reply) = WithReplies(d, t, <<>>, Append(d.replies, reply))
      BY <2>1, <2>2, Zenon DEF Ready, WithReplies
    <3>2. Ready(d, t, reply) = Fields(t, <<>>, Append(b.replies, reply), b.thrown)
      BY <1>4, <2>1, <3>1, RepliesUpdate
    <3> QED
      BY <2>2, <3>2 DEF stack, all
  <2>3. CASE outer # <<>>
    <3>1. Ready(d, t, reply) = WithBuilder(d, t, [outer EXCEPT ![Len(outer)].rows = Append(@, reply)])
      BY <2>1, <2>3, Zenon DEF Ready, WithBuilder
    <3> HIDE DEF outer
    <3> DEFINE inner == [outer EXCEPT ![Len(outer)] = e]
    <3>2. Ready(d, t, reply) = WithBuilder(d, t, inner)
      BY <1>2, <2>3, <3>1, Zenon
    <3> HIDE DEF inner
    <3>3. Ready(d, t, reply) = Fields(t, inner, b.replies, b.thrown)
      BY <1>4, <3>2, BuilderUpdate
    <3> QED
      BY <2>3, <3>3 DEF stack, all, inner
  <2> QED
    BY <2>2, <2>3
<1>5. c = Fields(buffer, stack, all, b.thrown)
  BY <1>1, <1>4 DEF c, IsDecoder
<1> HIDE DEF stack, all
<1>6. IsDecoder(c)
  BY <1>1, <1>3, <1>5, StateIsDecoder
<1>7. /\ c.m_buffer = buffer /\ c.m_builder = stack /\ c.replies = all /\ c.thrown = b.thrown
  BY <1>5, StateFields
<1>8. ASSUME NEW bytes \in Seq(Byte) PROVE Ready(More(b, bytes), buffer \o bytes, reply) = More(c, bytes)
  <2>1. More(b, bytes) = Fields(b.m_buffer \o bytes, b.m_builder, b.replies, b.thrown)
        /\ b.m_buffer \o bytes \in Seq(Byte)
    BY <1>1, MoreIs DEF IsDecoder
  <2>2. More(c, bytes) = Fields(buffer \o bytes, stack, all, b.thrown)
    BY <1>6, <1>7, MoreIs
  <2> QED
    BY <1>4, <2>1, <2>2
<1> QED
  BY <1>1, <1>3, <1>6, <1>7, <1>8, Zenon DEF c, stack, all, e, WithRow

-----------------------------------------------------------------------------
(* Sequences that are continued.                                            *)

\* What is left of a sequence without its first n elements.
LEMMA DroppedIs ==
  \A S : \A s \in Seq(S) : \A n \in 0..Len(s) :
    /\ Dropped(s, n) \in Seq(S) /\ Len(Dropped(s, n)) = Len(s) - n
    /\ \A i \in 1..Len(s) - n : Dropped(s, n)[i] = s[n + i]
<1> SUFFICES ASSUME NEW S, NEW s \in Seq(S), NEW n \in 0..Len(s)
             PROVE  /\ Dropped(s, n) \in Seq(S) /\ Len(Dropped(s, n)) = Len(s) - n
                    /\ \A i \in 1..Len(s) - n : Dropped(s, n)[i] = s[n + i]
  OBVIOUS
<1> DEFINE l == Len(s)
<1>1. l \in Nat /\ n \in Nat /\ n <= l
  BY LenProperties
<1>2. \A i \in n + 1..l : s[i] \in S
  BY <1>1, ElementOfSeq
<1> HIDE DEF l
<1>3. n + 1 \in Int /\ l \in Int
  BY <1>1
<1>4. /\ SubSeq(s, n + 1, l) \in Seq(S)
      /\ Len(SubSeq(s, n + 1, l)) = IF n + 1 <= l THEN l - (n + 1) + 1 ELSE 0
      /\ \A i \in 1..l - (n + 1) + 1 : SubSeq(s, n + 1, l)[i] = s[(n + 1) + i - 1]
  BY <1>2, <1>3, SubSeqProperties
<1>5. Len(SubSeq(s, n + 1, l)) = l - n
  BY <1>1, <1>4
<1>6. ASSUME NEW i \in 1..l - n PROVE SubSeq(s, n + 1, l)[i] = s[n + i]
  <2>1. i \in 1..l - (n + 1) + 1 /\ (n + 1) + i - 1 = n + i
    BY <1>1
  <2> QED
    BY <1>4, <2>1
<1> QED
  BY <1>4, <1>5, <1>6 DEF Dropped, l

\* The front of a sequence that is continued.
LEMMA ConcatFront ==
  \A S : \A s, t \in Seq(S) : \A n \in 0..Len(s) :
    /\ SubSeq(s, 1, n) \in Seq(S) /\ Len(SubSeq(s, 1, n)) = n
    /\ \A i \in 1..n : SubSeq(s, 1, n)[i] = s[i]
    /\ SubSeq(s \o t, 1, n) = SubSeq(s, 1, n)
    /\ Dropped(s \o t, n) = Dropped(s, n) \o t
<1> SUFFICES ASSUME NEW S, NEW s \in Seq(S), NEW t \in Seq(S), NEW n \in 0..Len(s)
             PROVE  /\ SubSeq(s, 1, n) \in Seq(S) /\ Len(SubSeq(s, 1, n)) = n
                    /\ \A i \in 1..n : SubSeq(s, 1, n)[i] = s[i]
                    /\ SubSeq(s \o t, 1, n) = SubSeq(s, 1, n)
                    /\ Dropped(s \o t, n) = Dropped(s, n) \o t
  OBVIOUS
<1> DEFINE l == Len(s)
           k == Len(t)
           a == s \o t
<1>1. l \in Nat /\ n \in Nat /\ n <= l /\ k \in Nat
  BY LenProperties
<1>2. a \in Seq(S) /\ Len(a) = l + k /\ \A i \in 1..l + k : a[i] = IF i <= l THEN s[i] ELSE t[i - l]
  BY ConcatProperties
<1>3. \A i \in 1..n : s[i] \in S /\ a[i] = s[i] /\ a[i] \in S
  <2>1. ASSUME NEW i \in 1..n PROVE s[i] \in S /\ a[i] = s[i]
    <3>1. i \in 1..l /\ i \in 1..l + k /\ i <= l
      BY <1>1
    <3> QED
      BY <1>2, <3>1, ElementOfSeq
  <2> QED
    BY <2>1
<1> HIDE DEF l, k, a
<1>4. \A r : (\A i \in 1..n : r[i] \in S) =>
        /\ SubSeq(r, 1, n) \in Seq(S) /\ Len(SubSeq(r, 1, n)) = n
        /\ \A i \in 1..n : SubSeq(r, 1, n)[i] = r[i]
  <2> SUFFICES ASSUME NEW r, \A i \in 1..n : r[i] \in S
               PROVE  /\ SubSeq(r, 1, n) \in Seq(S) /\ Len(SubSeq(r, 1, n)) = n
                      /\ \A i \in 1..n : SubSeq(r, 1, n)[i] = r[i]
    OBVIOUS
  <2>1. 1 \in Int /\ n \in Int
    BY <1>1
  <2>2. /\ SubSeq(r, 1, n) \in Seq(S)
        /\ Len(SubSeq(r, 1, n)) = IF 1 <= n THEN n - 1 + 1 ELSE 0
        /\ \A i \in 1..n - 1 + 1 : SubSeq(r, 1, n)[i] = r[1 + i - 1]
    BY <2>1, SubSeqProperties
  <2> QED
    BY <1>1, <2>2
<1>5. SubSeq(a, 1, n) = SubSeq(s, 1, n)
  <2>1. /\ SubSeq(a, 1, n) \in Seq(S) /\ SubSeq(s, 1, n) \in Seq(S)
        /\ Len(SubSeq(a, 1, n)) = Len(SubSeq(s, 1, n))
        /\ \A i \in 1..Len(SubSeq(a, 1, n)) : SubSeq(a, 1, n)[i] = SubSeq(s, 1, n)[i]
    BY <1>3, <1>4
  <2> QED
    BY <2>1, SeqEqual
<1>6. Dropped(a, n) = Dropped(s, n) \o t
  <2> DEFINE d == Dropped(s, n)
             e == Dropped(a, n)
  <2>1. n \in 0..Len(s) /\ n \in 0..Len(a)
    BY <1>1, <1>2 DEF l
  <2>2. d \in Seq(S) /\ Len(d) = l - n /\ \A i \in 1..l - n : d[i] = s[n + i]
    BY <2>1, DroppedIs DEF l
  <2>3. e \in Seq(S) /\ Len(e) = l + k - n /\ \A i \in 1..l + k - n : e[i] = a[n + i]
    <3>1. e \in Seq(S) /\ Len(e) = Len(a) - n /\ \A i \in 1..Len(a) - n : e[i] = a[n + i]
      BY <1>2, <2>1, DroppedIs
    <3>2. Len(a) - n = l + k - n
      BY <1>1, <1>2
    <3> HIDE DEF e
    <3> QED
      BY <3>1, <3>2, Zenon
  <2> HIDE DEF d, e
  <2>4. /\ d \o t \in Seq(S) /\ Len(d \o t) = (l - n) + k
        /\ \A i \in 1..(l - n) + k : (d \o t)[i] = IF i <= l - n THEN d[i] ELSE t[i - (l - n)]
    <3>1. /\ d \o t \in Seq(S) /\ Len(d \o t) = Len(d) + Len(t)
          /\ \A i \in 1..Len(d) + Len(t) : (d \o t)[i] = IF i <= Len(d) THEN d[i] ELSE t[i - Len(d)]
      BY <2>2, ConcatProperties
    <3>2. Len(d) = l - n /\ Len(t) = k
      BY <2>2 DEF k
    <3> QED
      BY <3>1, <3>2, Zenon
  <2>5. Len(e) = Len(d \o t)
    BY <1>1, <2>3, <2>4
  <2>6. ASSUME NEW i \in 1..Len(e) PROVE e[i] = (d \o t)[i]
    <3>1. i \in 1..l + k - n /\ i \in 1..(l - n) + k /\ n + i \in 1..l + k
      BY <1>1, <2>3
    <3>2. e[i] = a[n + i]
      BY <2>3, <3>1
    <3>3. CASE i <= l - n
      <4>1. n + i <= l /\ i \in 1..l - n
        BY <1>1, <3>1, <3>3
      <4> QED
        BY <1>2, <2>2, <2>4, <3>1, <3>2, <3>3, <4>1
    <3>4. CASE ~(i <= l - n)
      <4>1. ~(n + i <= l) /\ (n + i) - l = i - (l - n)
        BY <1>1, <3>1, <3>4
      <4> QED
        BY <1>2, <2>4, <3>1, <3>2, <3>4, <4>1
    <3> QED
      BY <3>3, <3>4
  <2> QED
    BY <2>3, <2>4, <2>5, <2>6, SeqEqual DEF d, e
<1>7. \A i \in 1..n : s[i] \in S
  BY <1>3
<1> QED
  BY <1>4, <1>5, <1>6, <1>7 DEF a

\* The first element of a sequence that is continued, and the others.
LEMMA ConcatHeadTail ==
  \A S : \A s, t \in Seq(S) : s # <<>> =>
    /\ Head(s) \in S /\ Tail(s) \in Seq(S) /\ Len(Tail(s)) = Len(s) - 1
    /\ s \o t # <<>> /\ Head(s \o t) = Head(s) /\ Tail(s \o t) = Tail(s) \o t
<1> SUFFICES ASSUME NEW S, NEW s \in Seq(S), NEW t \in Seq(S), s # <<>>
             PROVE  /\ Head(s) \in S /\ Tail(s) \in Seq(S) /\ Len(Tail(s)) = Len(s) - 1
                    /\ s \o t # <<>> /\ Head(s \o t) = Head(s) /\ Tail(s \o t) = Tail(s) \o t
  OBVIOUS
<1>1. Head(s) \in S /\ Tail(s) \in Seq(S) /\ Len(Tail(s)) = Len(s) - 1
  BY HeadTailProperties
<1>2. s \o t \in Seq(S) /\ s \o t # <<>>
  BY ConcatProperties, ConcatEqualIffEmpty
<1>3. Len(s) \in Nat /\ Len(s) >= 1 /\ Len(t) \in Nat
  BY EmptySeq, LenProperties
<1>4. Head(s \o t) = Head(s)
  <2>1. 1 \in 1..Len(s) + Len(t) /\ 1 <= Len(s)
    BY <1>3
  <2>2. (s \o t)[1] = s[1]
    BY <2>1, ConcatProperties
  <2>3. Head(s) = s[1] /\ Head(s \o t) = (s \o t)[1]
    BY <1>2
  <2> QED
    BY <2>2, <2>3
<1>5. Tail(s \o t) = Tail(s) \o t
  <2>1. Tail(s) = Dropped(s, 1)
    BY TailIsSubSeq DEF Dropped
  <2>2. Tail(s \o t) = Dropped(s \o t, 1)
    BY <1>2, TailIsSubSeq DEF Dropped
  <2>3. 1 \in 0..Len(s)
    BY <1>3
  <2> QED
    BY <2>1, <2>2, <2>3, ConcatFront
<1> QED
  BY <1>1, <1>2, <1>4, <1>5

\* Bytes can be put together in any order.
LEMMA BytesAssociate == \A x, y, z \in Seq(Byte) : (x \o y) \o z = x \o (y \o z)
<1> SUFFICES ASSUME NEW x \in Seq(Byte), NEW y \in Seq(Byte), NEW z \in Seq(Byte)
             PROVE  (x \o y) \o z = x \o (y \o z)
  OBVIOUS
<1> QED
  BY ConcatAssociative

\* The front of bytes does not depend on what follows.
LEMMA FrontOfBytes ==
  ASSUME NEW x \in Seq(Byte), NEW y \in Seq(Byte), NEW n \in 0..Len(x)
  PROVE  SubSeq(x \o y, 1, n) = SubSeq(x, 1, n) /\ Dropped(x \o y, n) = Dropped(x, n) \o y
  BY ConcatFront

-----------------------------------------------------------------------------
(* Each operator of the builders does the same when more bytes follow.      *)

\* The first end of line, also when more bytes follow.
LEMMA FirstEnd ==
  \A s, t \in Seq(Byte) : Ends(s) # {} =>
    /\ Min(Ends(s)) \in Ends(s) /\ Min(Ends(s)) \in 1..Len(s) - 1
       /\ \A i \in Ends(s) : Min(Ends(s)) <= i
    /\ Ends(s \o t) # {} /\ Min(Ends(s \o t)) = Min(Ends(s))
<1> SUFFICES ASSUME NEW s \in Seq(Byte), NEW t \in Seq(Byte), Ends(s) # {}
             PROVE  /\ Min(Ends(s)) \in Ends(s) /\ Min(Ends(s)) \in 1..Len(s) - 1
                    /\ \A i \in Ends(s) : Min(Ends(s)) <= i
                    /\ Ends(s \o t) # {} /\ Min(Ends(s \o t)) = Min(Ends(s))
  OBVIOUS
<1> DEFINE a == s \o t
<1>1. Len(s) \in Nat /\ Len(t) \in Nat /\ a \in Seq(Byte) /\ Len(a) = Len(s) + Len(t)
      /\ \A i \in 1..Len(s) : a[i] = s[i]
  <2>1. Len(s) \in Nat /\ Len(t) \in Nat /\ a \in Seq(Byte) /\ Len(a) = Len(s) + Len(t)
        /\ \A i \in 1..Len(s) + Len(t) : a[i] = IF i <= Len(s) THEN s[i] ELSE t[i - Len(s)]
    BY LenProperties, ConcatProperties
  <2> HIDE DEF a
  <2> QED
    BY <2>1
<1> HIDE DEF a
<1>2. \A r \in Seq(Byte) : Ends(r) # {} =>
        Min(Ends(r)) \in Ends(r) /\ Min(Ends(r)) \in 1..Len(r) - 1
        /\ \A i \in Ends(r) : Min(Ends(r)) <= i
  <2> SUFFICES ASSUME NEW r \in Seq(Byte), Ends(r) # {}
               PROVE  Min(Ends(r)) \in Ends(r) /\ Min(Ends(r)) \in 1..Len(r) - 1
                      /\ \A i \in Ends(r) : Min(Ends(r)) <= i
    OBVIOUS
  <2> DEFINE T == Ends(r)
  <2>1. T \subseteq 1..Len(r) - 1 /\ Len(r) \in Nat
    BY LenProperties DEF Ends
  <2>2. T \subseteq Nat
    BY <2>1
  <2> HIDE DEF T
  <2>3. \E x \in T : \A y \in T : x <= y
    BY <2>2, LeastNat DEF T
  <2>4. Min(T) \in T /\ \A y \in T : Min(T) <= y
    BY <2>3 DEF Min
  <2> QED
    BY <2>1, <2>4 DEF T
<1> DEFINE m == Min(Ends(s))
           k == Min(Ends(a))
<1>3. m \in Ends(s) /\ m \in 1..Len(s) - 1 /\ \A i \in Ends(s) : m <= i
  BY <1>2
<1>4. \A i \in 1..Len(s) - 1 : i \in 1..Len(s) /\ i + 1 \in 1..Len(s) /\ i \in 1..Len(a) - 1
  BY <1>1
<1>5. \A i \in 1..Len(s) - 1 : i \in Ends(s) <=> i \in Ends(a)
  BY <1>1, <1>4 DEF Ends
<1>6. m \in Ends(a)
  BY <1>3, <1>5
<1>7. k \in Ends(a) /\ k \in 1..Len(a) - 1 /\ \A i \in Ends(a) : k <= i
  BY <1>1, <1>2, <1>6
<1> HIDE DEF m, k
<1>8. k <= m
  BY <1>6, <1>7
<1>9. k \in 1..Len(s) - 1
  BY <1>1, <1>3, <1>7, <1>8
<1>10. m <= k
  BY <1>3, <1>5, <1>7, <1>9
<1>11. k = m
  BY <1>3, <1>7, <1>8, <1>10
<1> QED
  BY <1>3, <1>6, <1>11 DEF m, k, a

\* An error leaves all but the flag.
LEMMA ThrowIs ==
  ASSUME NEW b, IsDecoder(b)
  PROVE  /\ IsDecoder(Throw(b)) /\ Throw(b).thrown
         /\ Throw(b).m_builder = b.m_builder /\ Throw(b).replies = b.replies
         /\ \A bytes \in Seq(Byte) : Throw(More(b, bytes)) = More(Throw(b), bytes)
<1> DEFINE on == TRUE
           c == Fields(b.m_buffer, b.m_builder, b.replies, on)
<1>1. on \in BOOLEAN /\ Throw(b) = WithThrown(b, on) /\ on
  BY Zenon DEF Throw, WithThrown
<1>2. \A d : Throw(d) = WithThrown(d, on)
  BY Zenon DEF Throw, WithThrown
<1>3. on
  OBVIOUS
<1> HIDE DEF on
<1>4. Throw(b) = c
  <2>1. b = Fields(b.m_buffer, b.m_builder, b.replies, b.thrown)
    BY DEF IsDecoder
  <2>2. WithThrown(b, on) = c
    BY <2>1, ThrownUpdate
  <2> QED
    BY <1>2, <2>2, Zenon
<1>5. IsDecoder(c)
  BY <1>1, StateIsDecoder DEF IsDecoder
<1>6. c.m_buffer = b.m_buffer /\ c.m_builder = b.m_builder /\ c.replies = b.replies /\ c.thrown = on
  BY DEF Fields
<1> HIDE DEF c
<1>7. ASSUME NEW bytes \in Seq(Byte) PROVE Throw(More(b, bytes)) = More(c, bytes)
  <2> DEFINE s == b.m_buffer \o bytes
  <2>1. More(b, bytes) = Fields(s, b.m_builder, b.replies, b.thrown)
    BY MoreIs
  <2>2. More(c, bytes) = Fields(s, b.m_builder, b.replies, on)
    BY <1>5, <1>6, MoreIs
  <2> HIDE DEF s
  <2>3. WithThrown(More(b, bytes), on) = Fields(s, b.m_builder, b.replies, on)
    BY <2>1, ThrownUpdate
  <2> QED
    BY <1>2, <2>2, <2>3, Zenon
<1> QED
  BY <1>3, <1>4, <1>5, <1>6, <1>7, Zenon

Ids == {SimpleString, Error, Number, BulkString, Array}
NewBuilder(id) == [id |-> id, size |-> Unknown, rows |-> <<>>]

\* A known id in front becomes a builder.
LEMMA CreateIs ==
  ASSUME NEW b, IsDecoder(b), b.m_buffer # <<>>
  PROVE  /\ IsDecoder(CreateBuilder(b))
         /\ IF Head(b.m_buffer) \in Ids
            THEN CreateBuilder(b) = Fields(Tail(b.m_buffer), Append(b.m_builder, NewBuilder(Head(b.m_buffer))),
                                          b.replies, b.thrown)
            ELSE CreateBuilder(b) = Throw(b)
         /\ \A bytes \in Seq(Byte) : CreateBuilder(More(b, bytes)) = More(CreateBuilder(b), bytes)
<1> DEFINE s == b.m_buffer
           h == Head(s)
           stack == Append(b.m_builder, NewBuilder(h))
           c == Fields(Tail(s), stack, b.replies, b.thrown)
<1>1. s \in Seq(Byte) /\ s # <<>> /\ IsStack(b.m_builder)
      /\ b = Fields(s, b.m_builder, b.replies, b.thrown)
  BY DEF IsDecoder
<1>2. IsStack(stack)
  <2>1. IsBuilder(NewBuilder(h))
    BY DEF IsBuilder, NewBuilder
  <2> QED
    BY <1>1, <2>1, StackPush
<1>3. \A d : d.m_buffer # <<>> =>
        CreateBuilder(d) = IF Head(d.m_buffer) \in Ids
                           THEN WithBuilder(d, Tail(d.m_buffer), Append(d.m_builder, NewBuilder(Head(d.m_buffer))))
                           ELSE Throw(d)
  <2> SUFFICES ASSUME NEW d, d.m_buffer # <<>>
               PROVE  CreateBuilder(d) =
                        IF Head(d.m_buffer) \in Ids
                        THEN WithBuilder(d, Tail(d.m_buffer), Append(d.m_builder, NewBuilder(Head(d.m_buffer))))
                        ELSE Throw(d)
    OBVIOUS
  <2>1. CASE Head(d.m_buffer) \in Ids
    BY <2>1, Zenon DEF CreateBuilder, Ids, WithBuilder, NewBuilder
  <2>2. CASE Head(d.m_buffer) \notin Ids
    BY <2>2, Zenon DEF CreateBuilder, Ids
  <2> QED
    BY <2>1, <2>2
<1>4. ASSUME NEW bytes \in Seq(Byte)
      PROVE  LET d == More(b, bytes) IN
             /\ d.m_buffer # <<>> /\ Head(d.m_buffer) = h /\ Tail(d.m_buffer) = Tail(s) \o bytes
             /\ d.m_builder = b.m_builder
             /\ d = Fields(s \o bytes, b.m_builder, b.replies, b.thrown)
  <2>1. s \o bytes # <<>> /\ Head(s \o bytes) = h /\ Tail(s \o bytes) = Tail(s) \o bytes
    BY <1>1, ConcatHeadTail
  <2> QED
    BY <2>1, MoreIs
<1>5. CASE h \in Ids
  <2>1. CreateBuilder(b) = WithBuilder(b, Tail(s), stack)
    BY <1>1, <1>3, <1>5
  <2>2. Tail(s) \in Seq(Byte)
    BY <1>1, ConcatHeadTail
  <2> HIDE DEF stack
  <2>3. CreateBuilder(b) = c
    BY <1>1, <2>1, BuilderUpdate
  <2>4. IsDecoder(c) /\ c.m_buffer = Tail(s) /\ c.m_builder = stack /\ c.replies = b.replies
        /\ c.thrown = b.thrown
    <3>1. b.thrown \in BOOLEAN
      BY DEF IsDecoder
    <3>2. IsDecoder(c)
      BY <1>2, <2>2, <3>1, StateIsDecoder
    <3> QED
      BY <3>2 DEF Fields
  <2> HIDE DEF c, s, h
  <2>5. ASSUME NEW bytes \in Seq(Byte) PROVE CreateBuilder(More(b, bytes)) = More(c, bytes)
    <3> DEFINE d == More(b, bytes)
    <3>1. /\ d.m_buffer # <<>> /\ Head(d.m_buffer) = h /\ Tail(d.m_buffer) = Tail(s) \o bytes
          /\ d.m_builder = b.m_builder
          /\ d = Fields(s \o bytes, b.m_builder, b.replies, b.thrown)
      BY <1>4
    <3> HIDE DEF d
    <3>2. CreateBuilder(d) = WithBuilder(d, Tail(s) \o bytes, stack)
      BY <1>3, <1>5, <3>1 DEF stack
    <3>3. CreateBuilder(d) = Fields(Tail(s) \o bytes, stack, b.replies, b.thrown)
      BY <3>1, <3>2, BuilderUpdate
    <3>4. More(c, bytes) = Fields(c.m_buffer \o bytes, c.m_builder, c.replies, c.thrown)
      BY <2>4, MoreIs
    <3> QED
      BY <2>4, <3>3, <3>4, Zenon DEF d
  <2> QED
    BY <1>5, <2>3, <2>4, <2>5 DEF c, s, h, stack
<1>6. CASE h \notin Ids
  <2>1. CreateBuilder(b) = Throw(b)
    BY <1>1, <1>3, <1>6
  <2> HIDE DEF h
  <2>2. ASSUME NEW bytes \in Seq(Byte) PROVE CreateBuilder(More(b, bytes)) = Throw(More(b, bytes))
    BY <1>3, <1>4, <1>6
  <2> QED
    BY <1>6, <2>1, <2>2, ThrowIs DEF h
<1> QED
  BY <1>5, <1>6

\* A size that was read leaves the depth of the stack.
LEMMA SizedIs ==
  ASSUME NEW b, IsDecoder(b), b.m_builder # <<>>, NEW buffer \in Seq(Byte), NEW n \in Int
  PROVE  /\ IsDecoder(Sized(b, buffer, n))
         /\ Sized(b, buffer, n).thrown = b.thrown /\ Sized(b, buffer, n).replies = b.replies
         /\ Sized(b, buffer, n).m_buffer = buffer
         /\ Sized(b, buffer, n).m_builder # <<>>
         /\ Len(Sized(b, buffer, n).m_builder) = Len(b.m_builder)
         /\ \A bytes \in Seq(Byte) : Sized(More(b, bytes), buffer \o bytes, n) = More(Sized(b, buffer, n), bytes)
<1> DEFINE c == Sized(b, buffer, n)
           l == Last(b.m_builder)
           top == [id |-> l.id, size |-> <<n>>, rows |-> l.rows]
           stack == [b.m_builder EXCEPT ![Len(b.m_builder)] = top]
<1>1. /\ IsStack(b.m_builder) /\ IsBuilder(l) /\ b.thrown \in BOOLEAN
      /\ b = Fields(b.m_buffer, b.m_builder, b.replies, b.thrown)
  BY StackTop DEF IsDecoder
<1> HIDE DEF l
<1>2. IsBuilder(top)
  BY DEF IsBuilder
<1>3. WithSize(l, <<n>>) = top
  BY <1>1, BuilderUpdates
<1> HIDE DEF top
<1>4. IsStack(stack) /\ Len(stack) = Len(b.m_builder) /\ stack # <<>> /\ Last(stack) = top
      /\ Front(stack) = Front(b.m_builder)
  BY <1>1, <1>2, StackTop
<1> HIDE DEF c
<1>5. ASSUME NEW d, NEW s, NEW t, d = Fields(s, b.m_builder, b.replies, b.thrown)
      PROVE  Sized(d, t, n) = Fields(t, stack, b.replies, b.thrown)
  <2>1. d.m_builder = b.m_builder
    BY <1>5, StateFields
  <2>2. Sized(d, t, n) = WithBuilder(d, t, [d.m_builder EXCEPT ![Len(d.m_builder)] = WithSize(d.m_builder[Len(d.m_builder)], <<n>>)])
    BY Zenon DEF Sized, WithBuilder, WithSize
  <2>3. Sized(d, t, n) = WithBuilder(d, t, stack)
    BY <1>3, <2>1, <2>2, Zenon DEF l, Last
  <2> HIDE DEF stack
  <2> QED
    BY <1>5, <2>3, BuilderUpdate
<1> HIDE DEF stack
<1>6. c = Fields(buffer, stack, b.replies, b.thrown)
  BY <1>1, <1>5, Zenon DEF c
<1>7. IsDecoder(c)
  BY <1>1, <1>4, <1>6, StateIsDecoder
<1>8. c.m_buffer = buffer /\ c.m_builder = stack /\ c.replies = b.replies /\ c.thrown = b.thrown
  BY <1>6, StateFields
<1>9. ASSUME NEW bytes \in Seq(Byte) PROVE Sized(More(b, bytes), buffer \o bytes, n) = More(c, bytes)
  <2>1. More(b, bytes) = Fields(b.m_buffer \o bytes, b.m_builder, b.replies, b.thrown)
    BY MoreIs
  <2>2. More(c, bytes) = Fields(c.m_buffer \o bytes, c.m_builder, c.replies, c.thrown)
    BY <1>7, MoreIs
  <2> QED
    BY <1>5, <1>8, <2>1, <2>2, Zenon
<1> QED
  BY <1>4, <1>7, <1>8, <1>9, Zenon DEF c

-----------------------------------------------------------------------------
(* Every step takes bytes or finishes a builder, and looks no further.      *)

\* The replies a step hands over: none, or one that closes the outermost builder.
Answers(b, c) ==
  \/ c.replies = b.replies /\ (b.m_builder # <<>> => c.m_builder # <<>>)
  \/ b.m_builder # <<>> /\ c.m_builder = <<>> /\ \E reply : c.replies = Append(b.replies, reply)

\* A step takes bytes or finishes a builder, or it fails.
Moves(b, c) ==
  /\ IsDecoder(c) /\ Answers(b, c)
  /\ IF c.thrown THEN Weight(b) >= 1 ELSE Weight(c) < Weight(b)

\* The order of the weights.
LEMMA Lighter ==
  \A l, k \in Nat :
    /\ 2 * l + k \in Nat
    /\ l >= 1 \/ k >= 1 => 2 * l + k >= 1
    /\ 2 * l + k = 0 => l = 0 /\ k = 0
    /\ \A m, n \in Nat : (m < l /\ n <= k + 1) \/ (m <= l /\ n < k) => 2 * m + n < 2 * l + k
  OBVIOUS

\* Nothing but an empty decoder has no weight.
LEMMA WeightIsNat ==
  \A b : IsDecoder(b) => /\ Len(b.m_buffer) \in Nat /\ Len(b.m_builder) \in Nat /\ Weight(b) \in Nat
                         /\ b.m_builder # <<>> => Len(b.m_builder) >= 1 /\ Weight(b) >= 1
                         /\ b.m_buffer # <<>> => Len(b.m_buffer) >= 1 /\ Weight(b) >= 1
                         /\ Weight(b) = 0 => b.m_buffer = <<>> /\ b.m_builder = <<>>
<1> SUFFICES ASSUME NEW b, IsDecoder(b)
             PROVE  /\ Len(b.m_buffer) \in Nat /\ Len(b.m_builder) \in Nat /\ Weight(b) \in Nat
                    /\ b.m_builder # <<>> => Len(b.m_builder) >= 1 /\ Weight(b) >= 1
                    /\ b.m_buffer # <<>> => Len(b.m_buffer) >= 1 /\ Weight(b) >= 1
                    /\ Weight(b) = 0 => b.m_buffer = <<>> /\ b.m_builder = <<>>
  OBVIOUS
<1>1. Len(b.m_builder) \in Nat /\ (b.m_builder # <<>> => Len(b.m_builder) >= 1)
  BY StackSize DEF IsDecoder
<1>2. Len(b.m_buffer) \in Nat /\ (b.m_buffer # <<>> => Len(b.m_buffer) >= 1)
  BY LenProperties, EmptySeq DEF IsDecoder
<1>3. Len(b.m_builder) = 0 => b.m_builder = <<>>
  BY StackSize DEF IsDecoder
<1>4. Len(b.m_buffer) = 0 => b.m_buffer = <<>>
  BY EmptySeq DEF IsDecoder
<1> QED
  BY <1>1, <1>2, <1>3, <1>4, Lighter DEF Weight

\* A builder is created for a byte.
LEMMA CreateMoves ==
  ASSUME NEW b, IsDecoder(b), ~b.thrown, b.m_buffer # <<>>
  PROVE  /\ Moves(b, CreateBuilder(b))
         /\ CreateBuilder(b).thrown \/ CreateBuilder(b).m_builder # <<>>
<1> DEFINE s == b.m_buffer
           stack == Append(b.m_builder, NewBuilder(Head(s)))
           c == CreateBuilder(b)
<1>1. Weight(b) >= 1 /\ Len(s) \in Nat /\ Len(s) >= 1 /\ Len(b.m_builder) \in Nat
  BY WeightIsNat
<1>2. IsDecoder(c)
  BY CreateIs
<1>3. CASE Head(s) \in Ids
  <2>1. c = Fields(Tail(s), stack, b.replies, b.thrown)
    BY <1>3, CreateIs
  <2>2. Len(stack) = Len(b.m_builder) + 1 /\ stack # <<>>
    <3>1. IsBuilder(NewBuilder(Head(s)))
      BY DEF IsBuilder, NewBuilder
    <3> QED
      BY <3>1, StackPush DEF IsDecoder
  <2>3. Len(Tail(s)) = Len(s) - 1
    BY ConcatHeadTail, EmptySeq DEF IsDecoder
  <2> HIDE DEF c, stack
  <2>4. c.m_buffer = Tail(s) /\ c.m_builder = stack /\ c.replies = b.replies /\ c.thrown = b.thrown
    BY <2>1, StateFields
  <2>5. Weight(c) < Weight(b)
    <3>1. Len(Tail(s)) \in Nat /\ Len(stack) \in Nat /\ Len(Tail(s)) < Len(s)
          /\ Len(stack) <= Len(b.m_builder) + 1
      BY <1>1, <2>2, <2>3
    <3> QED
      BY <1>1, <2>4, <3>1, Lighter, Zenon DEF Weight
  <2>6. Answers(b, c)
    BY <2>2, <2>4 DEF Answers
  <2>7. ~c.thrown
    BY <2>4, Zenon
  <2> QED
    BY <1>2, <2>2, <2>4, <2>5, <2>6, <2>7, Zenon DEF Moves, c
<1>4. CASE Head(s) \notin Ids
  <2>1. c = Throw(b)
    BY <1>4, CreateIs
  <2>2. c.thrown /\ c.replies = b.replies /\ c.m_builder = b.m_builder
    BY <2>1, ThrowIs
  <2> QED
    BY <1>1, <1>2, <2>2, Zenon DEF Moves, Answers
<1> QED
  BY <1>3, <1>4

\* An error is a step.
LEMMA ThrowMoves ==
  ASSUME NEW b, IsDecoder(b), b.m_builder # <<>>
  PROVE  Moves(b, Throw(b))
<1>1. Weight(b) >= 1
  BY WeightIsNat
<1> QED
  BY <1>1, ThrowIs, Zenon DEF Moves, Answers

\* A finished builder is a step.
LEMMA ReadyMoves ==
  ASSUME NEW b, IsDecoder(b), ~b.thrown, b.m_builder # <<>>,
         NEW buffer \in Seq(Byte), Len(buffer) <= Len(b.m_buffer), NEW reply
  PROVE  Moves(b, Ready(b, buffer, reply))
<1> DEFINE c == Ready(b, buffer, reply)
           outer == Front(b.m_builder)
<1>1. /\ IsDecoder(c) /\ ~c.thrown /\ c.m_buffer = buffer
      /\ Len(c.m_builder) = Len(b.m_builder) - 1
  BY ReadyIs
<1>2. IF outer = <<>> THEN c.m_builder = <<>> /\ c.replies = Append(b.replies, reply)
      ELSE c.replies = b.replies
  BY ReadyIs
<1>3. outer # <<>> => c.m_builder # <<>>
  <2>1. IsStack(outer) /\ Len(outer) = Len(b.m_builder) - 1
    BY StackTop DEF IsDecoder
  <2> HIDE DEF outer, c
  <2>2. outer # <<>> => Len(outer) # 0
    BY <2>1, StackSize
  <2> QED
    BY <1>1, <2>1, <2>2, EmptySeq
<1> HIDE DEF c, outer
<1>4. Answers(b, c)
  BY <1>2, <1>3 DEF Answers
<1>5. Weight(c) < Weight(b)
  <2>1. Len(b.m_buffer) \in Nat /\ Len(b.m_builder) \in Nat /\ Len(b.m_builder) >= 1
    BY WeightIsNat
  <2>2. Len(buffer) \in Nat
    BY LenProperties
  <2>3. Len(c.m_builder) \in Nat /\ Len(c.m_builder) < Len(b.m_builder)
    BY <1>1, <2>1
  <2> QED
    BY <1>1, <2>1, <2>2, <2>3, Lighter, Zenon DEF Weight
<1> QED
  BY <1>1, <1>4, <1>5, Zenon DEF Moves, c

\* What ReadLine does with a line.
Cut(b, id, line, rest) ==
  IF id \in {SimpleString, Error} THEN Ready(b, rest, [type |-> id, str |-> line])
  ELSE IF ~IsInteger(line) THEN Throw(b)
  ELSE IF id = Number THEN Ready(b, rest, [type |-> id, val |-> Integer(line)])
  ELSE IF id = BulkString /\ Integer(line) = -1
  THEN Ready(b, rest, [type |-> id, str |-> <<>>, is_null |-> TRUE])
  ELSE IF id = Array /\ Integer(line) < 0 THEN Throw(Sized(b, rest, Integer(line)))
  ELSE Sized(b, rest, Integer(line))

\* A size that is read takes its line.
LEMMA SizedMoves ==
  ASSUME NEW b, IsDecoder(b), ~b.thrown, b.m_builder # <<>>,
         NEW buffer \in Seq(Byte), Len(buffer) < Len(b.m_buffer), NEW n \in Int
  PROVE  Moves(b, Sized(b, buffer, n))
<1> DEFINE c == Sized(b, buffer, n)
<1>1. /\ IsDecoder(c) /\ ~c.thrown /\ c.replies = b.replies /\ c.m_buffer = buffer
      /\ c.m_builder # <<>> /\ Len(c.m_builder) = Len(b.m_builder)
  <2>1. c.thrown = b.thrown
    BY SizedIs
  <2>2. IsDecoder(c) /\ c.replies = b.replies /\ c.m_buffer = buffer
    <3>1. IsDecoder(c)
      BY SizedIs
    <3>2. c.replies = b.replies
      BY SizedIs
    <3>3. c.m_buffer = buffer
      BY SizedIs
    <3> QED
      BY <3>1, <3>2, <3>3
  <2>3. c.m_builder # <<>> /\ Len(c.m_builder) = Len(b.m_builder)
    <3>1. c.m_builder # <<>>
      BY SizedIs
    <3>2. Len(c.m_builder) = Len(b.m_builder)
      BY SizedIs
    <3> QED
      BY <3>1, <3>2
  <2> HIDE DEF c
  <2> QED
    BY <2>1, <2>2, <2>3, Zenon
<1> HIDE DEF c
<1>2. Weight(c) < Weight(b)
  <2>1. /\ Len(b.m_buffer) \in Nat /\ Len(b.m_builder) \in Nat
        /\ Len(c.m_buffer) \in Nat /\ Len(c.m_builder) \in Nat
    BY <1>1, WeightIsNat
  <2>2. Len(c.m_buffer) < Len(b.m_buffer) /\ Len(c.m_builder) <= Len(b.m_builder) + 1
    BY <1>1, <2>1
  <2> QED
    BY <2>1, <2>2, Lighter, Zenon DEF Weight
<1> QED
  BY <1>1, <1>2, Zenon DEF Moves, Answers, c

\* So does one that is no size of an array, which then is an error.
LEMMA SizedThrows ==
  ASSUME NEW b, IsDecoder(b), ~b.thrown, b.m_builder # <<>>, NEW buffer \in Seq(Byte), NEW n \in Int
  PROVE  /\ Moves(b, Throw(Sized(b, buffer, n)))
         /\ \A bytes \in Seq(Byte) :
              Throw(Sized(More(b, bytes), buffer \o bytes, n)) = More(Throw(Sized(b, buffer, n)), bytes)
<1> DEFINE c == Sized(b, buffer, n)
<1>1. IsDecoder(c) /\ c.replies = b.replies
  BY SizedIs
<1>2. c.m_builder # <<>>
  BY SizedIs
<1>3. ASSUME NEW bytes \in Seq(Byte) PROVE Sized(More(b, bytes), buffer \o bytes, n) = More(c, bytes)
  BY SizedIs
<1> HIDE DEF c
<1>4. /\ IsDecoder(Throw(c)) /\ Throw(c).thrown
      /\ Throw(c).m_builder = c.m_builder /\ Throw(c).replies = c.replies
  BY <1>1, ThrowIs
<1>5. \A bytes \in Seq(Byte) : Throw(More(c, bytes)) = More(Throw(c), bytes)
  BY <1>1, ThrowIs
<1>6. Weight(b) >= 1
  BY WeightIsNat
<1>7. Moves(b, Throw(c))
  BY <1>1, <1>2, <1>4, <1>6, Zenon DEF Moves, Answers
<1> QED
  BY <1>3, <1>5, <1>7, Zenon DEF c

\* A line is read in one step, whatever follows it.
LEMMA CutIs ==
  ASSUME NEW b, IsDecoder(b), ~b.thrown, b.m_builder # <<>>, NEW id, NEW line \in Seq(Byte),
         NEW rest \in Seq(Byte), Len(rest) < Len(b.m_buffer)
  PROVE  /\ Moves(b, Cut(b, id, line, rest))
         /\ \A bytes \in Seq(Byte) : Cut(More(b, bytes), id, line, rest \o bytes) = More(Cut(b, id, line, rest), bytes)
<1>1. Len(rest) <= Len(b.m_buffer)
  BY WeightIsNat, LenProperties
<1> DEFINE text == [type |-> id, str |-> line]
           number == [type |-> id, val |-> Integer(line)]
           null == [type |-> id, str |-> <<>>, is_null |-> TRUE]
<1> HIDE DEF text, number, null
<1>2. \A reply :
        /\ Moves(b, Ready(b, rest, reply))
        /\ \A bytes \in Seq(Byte) : Ready(More(b, bytes), rest \o bytes, reply) = More(Ready(b, rest, reply), bytes)
  BY <1>1, ReadyIs, ReadyMoves
<1>3. Moves(b, Throw(b)) /\ \A bytes \in Seq(Byte) : Throw(More(b, bytes)) = More(Throw(b), bytes)
  BY ThrowIs, ThrowMoves
<1>4. IsInteger(line) =>
        /\ Moves(b, Sized(b, rest, Integer(line)))
        /\ \A bytes \in Seq(Byte) : Sized(More(b, bytes), rest \o bytes, Integer(line)) = More(Sized(b, rest, Integer(line)), bytes)
  <2> SUFFICES ASSUME IsInteger(line)
               PROVE  /\ Moves(b, Sized(b, rest, Integer(line)))
                      /\ \A bytes \in Seq(Byte) :
                           Sized(More(b, bytes), rest \o bytes, Integer(line)) = More(Sized(b, rest, Integer(line)), bytes)
    OBVIOUS
  <2> DEFINE n == Integer(line)
  <2>1. n \in Int
    BY IntegerIsInt
  <2> HIDE DEF n
  <2>2. Moves(b, Sized(b, rest, n))
    BY <2>1, SizedMoves
  <2>3. ASSUME NEW bytes \in Seq(Byte)
        PROVE  Sized(More(b, bytes), rest \o bytes, n) = More(Sized(b, rest, n), bytes)
    BY <2>1, SizedIs
  <2> QED
    BY <2>2, <2>3 DEF n
<1>5. \A d, t : Cut(d, id, line, t) =
        IF id \in {SimpleString, Error} THEN Ready(d, t, text)
        ELSE IF ~IsInteger(line) THEN Throw(d)
        ELSE IF id = Number THEN Ready(d, t, number)
        ELSE IF id = BulkString /\ Integer(line) = -1 THEN Ready(d, t, null)
        ELSE IF id = Array /\ Integer(line) < 0 THEN Throw(Sized(d, t, Integer(line)))
        ELSE Sized(d, t, Integer(line))
  BY Zenon DEF Cut, text, number, null
<1>6. CASE id \in {SimpleString, Error}
  <2>1. \A d, t : Cut(d, id, line, t) = Ready(d, t, text)
    BY <1>5, <1>6, Zenon
  <2> QED
    BY <1>2, <2>1, Zenon
<1>7. CASE id \notin {SimpleString, Error} /\ ~IsInteger(line)
  <2>1. \A d, t : Cut(d, id, line, t) = Throw(d)
    BY <1>5, <1>7, Zenon
  <2> QED
    BY <1>3, <2>1, Zenon
<1>8. CASE id \notin {SimpleString, Error} /\ IsInteger(line) /\ id = Number
  <2>1. \A d, t : Cut(d, id, line, t) = Ready(d, t, number)
    BY <1>5, <1>8, Zenon
  <2> QED
    BY <1>2, <2>1, Zenon
<1>9. CASE id \notin {SimpleString, Error} /\ IsInteger(line) /\ id # Number /\ id = BulkString
           /\ Integer(line) = -1
  <2>1. \A d, t : Cut(d, id, line, t) = Ready(d, t, null)
    BY <1>5, <1>9, Zenon
  <2> QED
    BY <1>2, <2>1, Zenon
<1>10. CASE /\ id \notin {SimpleString, Error} /\ IsInteger(line) /\ id # Number
            /\ ~(id = BulkString /\ Integer(line) = -1) /\ id = Array /\ Integer(line) < 0
  <2> DEFINE n == Integer(line)
  <2>1. \A d, t : Cut(d, id, line, t) = Throw(Sized(d, t, n))
    BY <1>5, <1>10, Zenon
  <2>2. n \in Int
    BY <1>10, IntegerIsInt
  <2> HIDE DEF n
  <2>3. Moves(b, Throw(Sized(b, rest, n)))
    BY <2>2, SizedThrows
  <2>4. ASSUME NEW bytes \in Seq(Byte)
        PROVE  Throw(Sized(More(b, bytes), rest \o bytes, n)) = More(Throw(Sized(b, rest, n)), bytes)
    BY <2>2, SizedThrows
  <2> QED
    BY <2>1, <2>3, <2>4, Zenon
<1>11. CASE /\ id \notin {SimpleString, Error} /\ IsInteger(line) /\ id # Number
            /\ ~(id = BulkString /\ Integer(line) = -1) /\ ~(id = Array /\ Integer(line) < 0)
  <2>1. \A d, t : Cut(d, id, line, t) = Sized(d, t, Integer(line))
    BY <1>5, <1>11, Zenon
  <2> QED
    BY <1>4, <1>11, <2>1, Zenon
<1> QED
  BY <1>6, <1>7, <1>8, <1>9, <1>10, <1>11, Zenon

\* Without a whole line nothing happens; with one, what follows does not matter.
LEMMA ReadLineIs ==
  ASSUME NEW b, IsDecoder(b), ~b.thrown, b.m_builder # <<>>, NEW id
  PROVE  \/ ReadLine(b, id) = b
         \/ /\ Moves(b, ReadLine(b, id))
            /\ \A bytes \in Seq(Byte) : ReadLine(More(b, bytes), id) = More(ReadLine(b, id), bytes)
<1> DEFINE s == b.m_buffer
           last == Min(Ends(s))
           line == SubSeq(s, 1, last - 1)
           rest == Dropped(s, last + 1)
<1>1. \A d : ReadLine(d, id) = IF Ends(d.m_buffer) = {} THEN d
                               ELSE Cut(d, id, SubSeq(d.m_buffer, 1, Min(Ends(d.m_buffer)) - 1),
                                        Dropped(d.m_buffer, Min(Ends(d.m_buffer)) + 1))
  BY Zenon DEF ReadLine, Cut
<1>2. CASE Ends(s) = {}
  BY <1>1, <1>2
<1>3. CASE Ends(s) # {}
  <2>1. s \in Seq(Byte)
    BY DEF IsDecoder
  <2>2. last \in 1..Len(s) - 1 /\ Len(s) \in Nat
    BY <1>3, <2>1, FirstEnd, EmptySeq, LenProperties
  <2>3. last - 1 \in 0..Len(s) /\ last + 1 \in 0..Len(s)
    BY <2>2
  <2>4. line \in Seq(Byte) /\ rest \in Seq(Byte) /\ Len(rest) = Len(s) - (last + 1)
    <3> DEFINE before == last - 1
               after == last + 1
    <3>1. before \in 0..Len(s) /\ after \in 0..Len(s) /\ <<>> \in Seq(Byte)
      BY <2>3, EmptySeq
    <3> HIDE DEF before, after, s, last
    <3>2. SubSeq(s, 1, before) \in Seq(Byte)
      BY <2>1, <3>1, ConcatFront, Zenon
    <3>3. Dropped(s, after) \in Seq(Byte) /\ Len(Dropped(s, after)) = Len(s) - after
      BY <2>1, <3>1, DroppedIs, Zenon
    <3> QED
      BY <3>2, <3>3 DEF before, after
  <2>5. Len(rest) < Len(s)
    BY <2>2, <2>4
  <2>6. ReadLine(b, id) = Cut(b, id, line, rest)
    BY <1>1, <1>3
  <2>7. ASSUME NEW bytes \in Seq(Byte) PROVE ReadLine(More(b, bytes), id) = Cut(More(b, bytes), id, line, rest \o bytes)
    <3> DEFINE d == More(b, bytes)
               a == s \o bytes
    <3>1. d.m_buffer = a
      BY MoreIs
    <3>2. Ends(a) # {} /\ Min(Ends(a)) = last
      BY <1>3, <2>1, FirstEnd
    <3>3. SubSeq(a, 1, last - 1) = line /\ Dropped(a, last + 1) = rest \o bytes
      <4> DEFINE before == last - 1
                 after == last + 1
      <4>1. before \in 0..Len(s) /\ after \in 0..Len(s)
        BY <2>3
      <4> HIDE DEF before, after, s, last
      <4>2. SubSeq(s \o bytes, 1, before) = SubSeq(s, 1, before)
            /\ Dropped(s \o bytes, after) = Dropped(s, after) \o bytes
        BY <2>1, <4>1, FrontOfBytes
      <4> QED
        BY <4>2 DEF before, after
    <3> HIDE DEF d, a, s, last, line, rest
    <3>4. ReadLine(d, id) = Cut(d, id, SubSeq(a, 1, last - 1), Dropped(a, last + 1))
      BY <1>1, <3>1, <3>2
    <3> QED
      BY <3>3, <3>4 DEF d
  <2>8. Len(rest) < Len(b.m_buffer)
    BY <2>5
  <2> HIDE DEF line, rest, last, s
  <2>9. /\ Moves(b, Cut(b, id, line, rest))
        /\ \A bytes \in Seq(Byte) : Cut(More(b, bytes), id, line, rest \o bytes) = More(Cut(b, id, line, rest), bytes)
    <3>1. Moves(b, Cut(b, id, line, rest))
      BY <2>4, <2>8, CutIs
    <3>2. ASSUME NEW bytes \in Seq(Byte)
          PROVE  Cut(More(b, bytes), id, line, rest \o bytes) = More(Cut(b, id, line, rest), bytes)
      BY <2>4, <2>8, CutIs
    <3> QED
      BY <3>1, <3>2
  <2> QED
    BY <2>6, <2>7, <2>9, Zenon
<1> QED
  BY <1>2, <1>3

\* The same for the text of a bulk string and its end.
LEMMA ReadTextIs ==
  ASSUME NEW b, IsDecoder(b), ~b.thrown, b.m_builder # <<>>, NEW size \in Int
  PROVE  \/ ReadText(b, size) = b
         \/ /\ Moves(b, ReadText(b, size))
            /\ \A bytes \in Seq(Byte) : ReadText(More(b, bytes), size) = More(ReadText(b, size), bytes)
<1> DEFINE s == b.m_buffer
           rest == Dropped(s, size + 2)
           TextOf(r) == [type |-> BulkString, str |-> SubSeq(r, 1, size), is_null |-> FALSE]
<1>1. s \in Seq(Byte) /\ Len(s) \in Nat
  BY LenProperties DEF IsDecoder
<1>2. \A d : ReadText(d, size) =
        IF size = -2 THEN Throw(d)
        ELSE IF size < 0 \/ Len(d.m_buffer) < size + 2 THEN d
        ELSE IF d.m_buffer[size + 1] # CR \/ d.m_buffer[size + 2] # LF THEN Throw(d)
        ELSE Ready(d, Dropped(d.m_buffer, size + 2), TextOf(d.m_buffer))
  BY Zenon DEF ReadText
<1> HIDE DEF TextOf
<1>m. CASE size = -2
  <2>1. \A d : ReadText(d, size) = Throw(d)
    BY <1>2, <1>m, Zenon
  <2>2. Moves(b, Throw(b)) /\ \A bytes \in Seq(Byte) : Throw(More(b, bytes)) = More(Throw(b), bytes)
    BY ThrowIs, ThrowMoves
  <2> QED
    BY <2>1, <2>2, Zenon
<1>3. CASE size # -2 /\ (size < 0 \/ Len(s) < size + 2)
  BY <1>2, <1>3, Zenon
<1>4. CASE ~(size < 0 \/ Len(s) < size + 2)
  <2>1. size + 2 \in 0..Len(s) /\ size \in 0..Len(s) /\ size + 1 \in 1..Len(s)
        /\ size + 2 \in 1..Len(s)
    BY <1>1, <1>4
  <2>n. size # -2
    BY <1>4
  <2>2. ASSUME NEW bytes \in Seq(Byte)
        PROVE  LET d == More(b, bytes) IN
               /\ ~(size < 0 \/ Len(d.m_buffer) < size + 2)
               /\ d.m_buffer[size + 1] = s[size + 1] /\ d.m_buffer[size + 2] = s[size + 2]
               /\ Dropped(d.m_buffer, size + 2) = rest \o bytes
               /\ TextOf(d.m_buffer) = TextOf(s)
    <3> DEFINE a == s \o bytes
    <3>1. More(b, bytes).m_buffer = a
      BY MoreIs
    <3>2. Len(bytes) \in Nat /\ Len(a) = Len(s) + Len(bytes)
          /\ \A i \in 1..Len(s) + Len(bytes) : a[i] = IF i <= Len(s) THEN s[i] ELSE bytes[i - Len(s)]
      BY <1>1, ConcatProperties, LenProperties
    <3>3. Dropped(a, size + 2) = rest \o bytes /\ SubSeq(a, 1, size) = SubSeq(s, 1, size)
      <4> HIDE DEF s
      <4>1. \A n \in 0..Len(s) : Dropped(a, n) = Dropped(s, n) \o bytes
            /\ SubSeq(a, 1, n) = SubSeq(s, 1, n)
        BY <1>1, FrontOfBytes
      <4> HIDE DEF a
      <4> QED
        BY <2>1, <4>1, Zenon
    <3> HIDE DEF a, s
    <3>4. a[size + 1] = s[size + 1] /\ a[size + 2] = s[size + 2]
      BY <1>1, <2>1, <3>2
    <3>5. ~(size < 0 \/ Len(a) < size + 2)
      BY <1>1, <1>4, <3>2
    <3>6. TextOf(a) = TextOf(s)
      BY <3>3, Zenon DEF TextOf
    <3> QED
      BY <3>1, <3>3, <3>4, <3>5, <3>6, Zenon
  <2>3. CASE s[size + 1] # CR \/ s[size + 2] # LF
    <3>1. ReadText(b, size) = Throw(b)
      BY <1>2, <1>4, <2>3, <2>n, Zenon
    <3> HIDE DEF rest
    <3>2. ASSUME NEW bytes \in Seq(Byte) PROVE ReadText(More(b, bytes), size) = Throw(More(b, bytes))
      BY <1>2, <2>2, <2>3, <2>n, Zenon
    <3>3. Moves(b, Throw(b))
          /\ \A bytes \in Seq(Byte) : Throw(More(b, bytes)) = More(Throw(b), bytes)
      BY ThrowIs, ThrowMoves
    <3> QED
      BY <3>1, <3>2, <3>3, Zenon
  <2>4. CASE ~(s[size + 1] # CR \/ s[size + 2] # LF)
    <3> DEFINE reply == TextOf(s)
    <3>1. ReadText(b, size) = Ready(b, rest, reply)
      BY <1>2, <1>4, <2>4, <2>n, Zenon
    <3>2. ASSUME NEW bytes \in Seq(Byte) PROVE ReadText(More(b, bytes), size) = Ready(More(b, bytes), rest \o bytes, reply)
      BY <1>2, <2>2, <2>4, <2>n, Zenon
    <3> HIDE DEF reply
    <3>3. rest \in Seq(Byte) /\ Len(rest) = Len(s) - (size + 2)
      BY <1>1, <2>1, DroppedIs
    <3>4. Len(rest) <= Len(s)
      BY <1>1, <2>1, <3>3
    <3> HIDE DEF rest
    <3>5. /\ Moves(b, Ready(b, rest, reply))
          /\ \A bytes \in Seq(Byte) : Ready(More(b, bytes), rest \o bytes, reply) = More(Ready(b, rest, reply), bytes)
      BY <3>3, <3>4, ReadyIs, ReadyMoves
    <3> QED
      BY <3>1, <3>2, <3>5, Zenon
  <2> QED
    BY <2>3, <2>4
<1> QED
  BY <1>m, <1>3, <1>4

\* A step of the decoder that does something does the same when more bytes follow
\* those it has: no builder looks past the end of what it takes.
LEMMA BuildIs ==
  ASSUME NEW b, IsDecoder(b), ~b.thrown
  PROVE  \/ Build(b) = b
         \/ /\ Moves(b, Build(b))
            /\ \A bytes \in Seq(Byte) : Build(More(b, bytes)) = More(Build(b), bytes)
<1> DEFINE s == b.m_builder
           top == Last(s)
<1>1. ASSUME NEW bytes \in Seq(Byte)
      PROVE  ~More(b, bytes).thrown /\ More(b, bytes).m_builder = s
  BY MoreIs, Zenon
<1>2. b.m_buffer # <<>> =>
        /\ Moves(b, CreateBuilder(b))
        /\ \A bytes \in Seq(Byte) : CreateBuilder(More(b, bytes)) = More(CreateBuilder(b), bytes)
  BY CreateIs, CreateMoves
<1>3. b.m_buffer = <<>> => CreateBuilder(b) = b
  BY Zenon DEF CreateBuilder
<1>4. CASE s = <<>>
  <2>1. Build(b) = CreateBuilder(b)
    BY <1>4, Zenon DEF Build
  <2>2. ASSUME NEW bytes \in Seq(Byte) PROVE Build(More(b, bytes)) = CreateBuilder(More(b, bytes))
    BY <1>1, <1>4, Zenon DEF Build
  <2> QED
    BY <1>2, <1>3, <2>1, <2>2, Zenon
<1>5. CASE s # <<>>
  <2>1. IsBuilder(top)
    BY <1>5, StackTop DEF IsDecoder
  <2> HIDE DEF top
  <2>2. \A d : ~d.thrown /\ d.m_builder = s =>
          Build(d) = IF top.size = Unknown THEN ReadLine(d, top.id)
                     ELSE IF top.id = BulkString THEN ReadText(d, top.size[1])
                     ELSE IF <<Len(top.rows)>> = top.size
                     THEN Ready(d, d.m_buffer, [type |-> Array, rows |-> top.rows])
                     ELSE CreateBuilder(d)
    BY <1>5, Zenon DEF Build, top
  <2> DEFINE array == [type |-> Array, rows |-> top.rows]
             n == top.size[1]
  <2> HIDE DEF array
  <2>3. CASE top.size = Unknown
    <3>1. \A d : ~d.thrown /\ d.m_builder = s => Build(d) = ReadLine(d, top.id)
      BY <2>2, <2>3, Zenon
    <3>2. \/ ReadLine(b, top.id) = b
          \/ /\ Moves(b, ReadLine(b, top.id))
             /\ \A bytes \in Seq(Byte) : ReadLine(More(b, bytes), top.id) = More(ReadLine(b, top.id), bytes)
      BY <1>5, ReadLineIs
    <3> QED
      BY <1>1, <3>1, <3>2, Zenon
  <2>4. CASE top.size # Unknown /\ top.id = BulkString
    <3>1. n \in Int
      BY <2>1, <2>4 DEF IsBuilder
    <3> HIDE DEF n
    <3>2. \A d : ~d.thrown /\ d.m_builder = s => Build(d) = ReadText(d, n)
      BY <2>2, <2>4, Zenon DEF n
    <3>3. \/ ReadText(b, n) = b
          \/ /\ Moves(b, ReadText(b, n))
             /\ \A bytes \in Seq(Byte) : ReadText(More(b, bytes), n) = More(ReadText(b, n), bytes)
      BY <1>5, <3>1, ReadTextIs
    <3> QED
      BY <1>1, <3>2, <3>3, Zenon
  <2>5. CASE top.size # Unknown /\ top.id # BulkString /\ <<Len(top.rows)>> = top.size
    <3>1. \A d : ~d.thrown /\ d.m_builder = s => Build(d) = Ready(d, d.m_buffer, array)
      BY <2>2, <2>5, Zenon DEF array
    <3>2. b.m_buffer \in Seq(Byte) /\ Len(b.m_buffer) <= Len(b.m_buffer)
      BY LenProperties DEF IsDecoder
    <3>3. Moves(b, Ready(b, b.m_buffer, array))
      BY <1>5, <3>2, ReadyMoves
    <3>4. ASSUME NEW bytes \in Seq(Byte)
          PROVE  Ready(More(b, bytes), More(b, bytes).m_buffer, array) = More(Ready(b, b.m_buffer, array), bytes)
      <4>1. More(b, bytes).m_buffer = b.m_buffer \o bytes
        BY MoreIs
      <4>2. Ready(More(b, bytes), b.m_buffer \o bytes, array) = More(Ready(b, b.m_buffer, array), bytes)
        BY <1>5, <3>2, ReadyIs
      <4> QED
        BY <4>1, <4>2, Zenon
    <3> QED
      BY <1>1, <3>1, <3>3, <3>4, Zenon
  <2>6. CASE top.size # Unknown /\ top.id # BulkString /\ <<Len(top.rows)>> # top.size
    <3>1. \A d : ~d.thrown /\ d.m_builder = s => Build(d) = CreateBuilder(d)
      BY <2>2, <2>6, Zenon
    <3> QED
      BY <1>1, <1>2, <1>3, <3>1, Zenon
  <2> QED
    BY <2>3, <2>4, <2>5, <2>6, Zenon
<1> QED
  BY <1>4, <1>5

\* Every byte in front of no builder is taken.
LEMMA BuildTakes ==
  ASSUME NEW b, IsDecoder(b), ~b.thrown, b.m_builder = <<>>, Build(b) = b
  PROVE  b.m_buffer = <<>>
<1>1. Build(b) = CreateBuilder(b)
  BY Zenon DEF Build
<1> QED
  BY <1>1, CreateMoves, Zenon

-----------------------------------------------------------------------------
(* The run of steps of operator<<, and where it ends.                       *)

\* operator<< builds step after step.
IsRun(start, f) == f = [i \in Nat |-> IF i = 0 THEN start ELSE Build(f[i - 1])]
IsRunTo(n, start, g) == g = [i \in 0..n |-> IF i = 0 THEN start ELSE Build(g[i - 1])]

\* There is such a run, from every decoder.
LEMMA RunExists == \A start : \E f : IsRun(start, f)
<1> SUFFICES ASSUME NEW start PROVE \E f : IsRun(start, f)
  OBVIOUS
<1>1. ASSUME NEW n \in Nat, NEW g, IsRunTo(n, start, g)
      PROVE  g[0] = start /\ \A i \in 1..n : g[i] = Build(g[i - 1])
  <2>1. 0 \in 0..n /\ \A i \in 1..n : i \in 0..n /\ i # 0
    OBVIOUS
  <2> QED
    BY <1>1, <2>1 DEF IsRunTo
<1>2. \A n \in Nat : \E g : IsRunTo(n, start, g)
  <2> DEFINE T == {n \in Nat : ~\E g : IsRunTo(n, start, g)}
  <2> SUFFICES ASSUME T # {} PROVE FALSE
    OBVIOUS
  <2>1. PICK n \in T : \A m \in T : n <= m
    <3>1. T \subseteq Nat
      OBVIOUS
    <3> HIDE DEF T
    <3> QED
      BY <3>1, LeastNat
  <2>2. n \in Nat
    OBVIOUS
  <2>3. n # 0
    <3> DEFINE g == [i \in 0..0 |-> start]
    <3>1. g = [i \in 0..0 |-> IF i = 0 THEN start ELSE Build(g[i - 1])]
      <4>1. \A i \in 0..0 : i = 0
        OBVIOUS
      <4>2. ASSUME NEW i \in 0..0 PROVE (IF i = 0 THEN start ELSE Build(g[i - 1])) = start
        BY <4>1
      <4> HIDE DEF g
      <4>3. g = [i \in 0..0 |-> start]
        BY DEF g
      <4> QED
        BY <4>2, <4>3, Zenon
    <3>2. IsRunTo(0, start, g)
      BY <3>1, Zenon DEF IsRunTo
    <3> QED
      BY <3>2, Zenon
  <2>4. n - 1 \in Nat /\ ~(n <= n - 1)
    BY <2>2, <2>3
  <2>5. PICK g : IsRunTo(n - 1, start, g)
    BY <2>1, <2>4
  <2> DEFINE h == [i \in 0..n |-> IF i = n THEN Build(g[n - 1]) ELSE g[i]]
  <2>6. h = [i \in 0..n |-> IF i = 0 THEN start ELSE Build(h[i - 1])]
    <3>1. ASSUME NEW i \in 0..n PROVE h[i] = IF i = 0 THEN start ELSE Build(h[i - 1])
      <4>1. g[0] = start /\ \A j \in 1..n - 1 : g[j] = Build(g[j - 1])
        BY <1>1, <2>4, <2>5
      <4>2. CASE i = 0
        BY <2>3, <4>1, <4>2
      <4>3. CASE i # 0
        <5>1. i - 1 \in 0..n /\ i - 1 # n
          BY <4>3, <2>2
        <5>2. h[i - 1] = g[i - 1]
          BY <5>1
        <5>3. CASE i = n
          BY <4>3, <5>2, <5>3
        <5>4. CASE i # n
          <6>1. i \in 1..n - 1
            BY <4>3, <5>4, <2>2
          <6>2. h[i] = g[i]
            BY <5>4
          <6> HIDE DEF h
          <6> QED
            BY <4>1, <4>3, <5>2, <6>1, <6>2
        <5> QED
          BY <5>3, <5>4
      <4> QED
        BY <4>2, <4>3
    <3>2. h = [i \in 0..n |-> h[i]]
      OBVIOUS
    <3> HIDE DEF h
    <3> QED
      BY <3>1, <3>2
  <2>7. IsRunTo(n, start, h)
    BY <2>6, Zenon DEF IsRunTo
  <2> HIDE DEF h
  <2> QED
    BY <2>7
<1>3. ASSUME NEW m \in Nat, NEW n \in Nat, m <= n, NEW g, IsRunTo(m, start, g), NEW h, IsRunTo(n, start, h)
      PROVE  \A i \in 0..m : g[i] = h[i]
  <2> DEFINE T == {i \in 0..m : g[i] # h[i]}
  <2> SUFFICES ASSUME T # {} PROVE FALSE
    OBVIOUS
  <2>1. PICK i \in T : \A j \in T : i <= j
    <3>1. T \subseteq Nat
      OBVIOUS
    <3> HIDE DEF T
    <3> QED
      BY <3>1, LeastNat
  <2>2. i \in 0..m /\ g[i] # h[i]
    OBVIOUS
  <2>3. /\ g[0] = start /\ \A j \in 1..m : g[j] = Build(g[j - 1])
        /\ h[0] = start /\ \A j \in 1..n : h[j] = Build(h[j - 1])
    BY <1>1, <1>3
  <2>4. i # 0
    BY <2>2, <2>3
  <2>5. i \in 1..m /\ i \in 1..n /\ i - 1 \in 0..m /\ ~(i <= i - 1)
    BY <1>3, <2>2, <2>4
  <2>6. g[i - 1] = h[i - 1]
    BY <2>1, <2>5
  <2> HIDE DEF T
  <2> QED
    BY <2>2, <2>3, <2>5, <2>6
<1> DEFINE G(n) == CHOOSE g : IsRunTo(n, start, g)
           f == [n \in Nat |-> G(n)[n]]
<1>4. \A n \in Nat : IsRunTo(n, start, G(n))
  BY <1>2, Zenon
<1> HIDE DEF G
<1>5. ASSUME NEW i \in Nat PROVE f[i] = IF i = 0 THEN start ELSE Build(f[i - 1])
  <2>1. G(i)[0] = start /\ \A j \in 1..i : G(i)[j] = Build(G(i)[j - 1])
    BY <1>1, <1>4
  <2>2. CASE i = 0
    BY <2>1, <2>2
  <2>3. CASE i # 0
    <3>1. i - 1 \in Nat /\ i - 1 <= i /\ i - 1 \in 0..i - 1 /\ i \in 1..i
      BY <2>3
    <3>2. G(i - 1)[i - 1] = G(i)[i - 1]
      <4>1. \A j \in 0..i - 1 : G(i - 1)[j] = G(i)[j]
        BY <1>3, <1>4, <3>1
      <4> QED
        BY <3>1, <4>1
    <3>3. f[i] = G(i)[i] /\ f[i - 1] = G(i - 1)[i - 1]
      BY <3>1
    <3> HIDE DEF f
    <3> QED
      BY <2>1, <2>3, <3>1, <3>2, <3>3
  <2> QED
    BY <2>2, <2>3
<1>6. f = [i \in Nat |-> f[i]]
  OBVIOUS
<1> HIDE DEF f
<1>7. f = [i \in Nat |-> IF i = 0 THEN start ELSE Build(f[i - 1])]
  BY <1>5, <1>6
<1> QED
  BY <1>7, Zenon DEF IsRun

\* A run, step by step.
LEMMA RunIs ==
  ASSUME NEW start, NEW f, IsRun(start, f)
  PROVE  f[0] = start /\ \A i \in Nat : f[i + 1] = Build(f[i])
<1>1. \A i \in Nat : f[i] = IF i = 0 THEN start ELSE Build(f[i - 1])
  BY DEF IsRun
<1>2. ASSUME NEW i \in Nat PROVE f[i + 1] = Build(f[i])
  <2>1. i + 1 \in Nat /\ i + 1 # 0 /\ (i + 1) - 1 = i
    OBVIOUS
  <2> QED
    BY <1>1, <2>1
<1> QED
  BY <1>1, <1>2

Settled(b) == Build(b) = b

\* Every step of a run takes from the weight, until one changes nothing.
LEMMA RunSettles ==
  ASSUME NEW start, IsDecoder(start), NEW f, IsRun(start, f)
  PROVE  /\ \A i \in Nat : IsDecoder(f[i])
         /\ Settled(f[Weight(start)])
<1> DEFINE w == Weight(start)
           Good(i) == IsDecoder(f[i]) /\ (Settled(f[i]) \/ Weight(f[i]) + i <= w)
           T == {i \in Nat : ~Good(i)}
<1>1. f[0] = start /\ \A i \in Nat : f[i + 1] = Build(f[i])
  BY RunIs
<1>2. w \in Nat
  BY WeightIsNat
<1> HIDE DEF w
<1>3. Good(0)
  <2>1. Weight(f[0]) = w
    BY <1>1 DEF w
  <2> QED
    BY <1>1, <1>2, <2>1
<1>4. ASSUME NEW i \in Nat, Good(i) PROVE Good(i + 1)
  <2> DEFINE b == f[i]
             c == f[i + 1]
  <2>1. IsDecoder(b) /\ c = Build(b)
    BY <1>1, <1>4
  <2>2. Weight(b) \in Nat
    BY <2>1, WeightIsNat
  <2>3. CASE Settled(b)
    BY <1>4, <2>1, <2>3 DEF Settled
  <2>4. CASE ~Settled(b)
    <3>1. ~b.thrown
      BY <2>4, Zenon DEF Settled, Build
    <3>2. Moves(b, c)
      BY <2>1, <2>4, <3>1, BuildIs DEF Settled
    <3>3. Weight(b) + i <= w
      BY <1>4, <2>4
    <3> HIDE DEF b, c
    <3>4. IsDecoder(c) /\ (c.thrown \/ Weight(c) < Weight(b))
      BY <3>2, Zenon DEF Moves
    <3>5. CASE c.thrown
      <4>1. Settled(c)
        BY <3>5, Zenon DEF Settled, Build
      <4> QED
        BY <3>4, <4>1 DEF c
    <3>6. CASE Weight(c) < Weight(b)
      <4>1. Weight(c) \in Nat
        BY <3>4, WeightIsNat
      <4>2. Weight(c) + (i + 1) <= w
        BY <1>2, <2>2, <3>3, <3>6, <4>1
      <4> QED
        BY <3>4, <4>2 DEF c
    <3> QED
      BY <3>4, <3>5, <3>6
  <2> QED
    BY <2>3, <2>4
<1> HIDE DEF Good
<1>5. \A i \in Nat : Good(i)
  <2> SUFFICES ASSUME T # {} PROVE FALSE
    OBVIOUS
  <2>1. PICK i \in T : \A j \in T : i <= j
    <3>1. T \subseteq Nat
      OBVIOUS
    <3> HIDE DEF T
    <3> QED
      BY <3>1, LeastNat
  <2>2. i \in Nat /\ ~Good(i)
    OBVIOUS
  <2>3. i # 0
    BY <1>3, <2>2
  <2>4. i - 1 \in Nat /\ (i - 1) + 1 = i /\ ~(i <= i - 1)
    BY <2>2, <2>3
  <2>5. Good(i - 1)
    BY <2>1, <2>4
  <2> QED
    BY <1>4, <2>2, <2>4, <2>5
<1>6. Settled(f[w])
  <2> SUFFICES ASSUME ~Settled(f[w]) PROVE FALSE
    OBVIOUS
  <2> DEFINE b == f[w]
  <2>1. IsDecoder(b) /\ Weight(b) + w <= w
    BY <1>2, <1>5 DEF Good
  <2> HIDE DEF b
  <2>2. Weight(b) = 0
    <3>1. Weight(b) \in Nat
      BY <2>1, WeightIsNat
    <3> QED
      BY <1>2, <2>1, <3>1
  <2>3. b.m_buffer = <<>> /\ b.m_builder = <<>>
    BY <2>1, <2>2, WeightIsNat
  <2>4. Build(b) = b
    BY <2>3, Zenon DEF Build, CreateBuilder
  <2> QED
    BY <2>4 DEF Settled, b
<1> QED
  BY <1>5, <1>6 DEF Good, w

\* A run that has settled stays where it is.
LEMMA RunStays ==
  ASSUME NEW start, NEW f, IsRun(start, f), NEW k \in Nat, Settled(f[k])
  PROVE  \A n \in Nat : n >= k => f[n] = f[k]
<1> DEFINE T == {n \in Nat : n >= k /\ f[n] # f[k]}
<1> SUFFICES ASSUME T # {} PROVE FALSE
  OBVIOUS
<1>1. PICK n \in T : \A m \in T : n <= m
  <2>1. T \subseteq Nat
    OBVIOUS
  <2> HIDE DEF T
  <2> QED
    BY <2>1, LeastNat
<1>2. n \in Nat /\ n >= k /\ f[n] # f[k]
  OBVIOUS
<1>3. n - 1 \in Nat /\ n - 1 >= k /\ (n - 1) + 1 = n /\ ~(n <= n - 1)
  <2>1. n # k
    BY <1>2
  <2> QED
    BY <1>2, <2>1
<1>4. f[n - 1] = f[k]
  BY <1>1, <1>3
<1>5. f[n] = Build(f[n - 1])
  <2>1. \A i \in Nat : f[i + 1] = Build(f[i])
    BY RunIs
  <2> QED
    BY <1>3, <2>1
<1> HIDE DEF T
<1> QED
  BY <1>2, <1>4, <1>5 DEF Settled

\* There is one run only.
LEMMA RunsAgree ==
  ASSUME NEW start, NEW f, IsRun(start, f), NEW g, IsRun(start, g)
  PROVE  \A n \in Nat : f[n] = g[n]
<1> DEFINE T == {n \in Nat : f[n] # g[n]}
<1> SUFFICES ASSUME T # {} PROVE FALSE
  OBVIOUS
<1>1. PICK n \in T : \A m \in T : n <= m
  <2>1. T \subseteq Nat
    OBVIOUS
  <2> HIDE DEF T
  <2> QED
    BY <2>1, LeastNat
<1>2. n \in Nat /\ f[n] # g[n]
  OBVIOUS
<1>3. /\ f[0] = start /\ \A i \in Nat : f[i + 1] = Build(f[i])
      /\ g[0] = start /\ \A i \in Nat : g[i + 1] = Build(g[i])
  BY RunIs
<1>4. n # 0
  BY <1>2, <1>3
<1>5. n - 1 \in Nat /\ (n - 1) + 1 = n /\ ~(n <= n - 1)
  BY <1>2, <1>4
<1>6. f[n - 1] = g[n - 1]
  BY <1>1, <1>5
<1> HIDE DEF T
<1>7. f[n] = Build(f[n - 1]) /\ g[n] = Build(g[n - 1])
  <2>1. \A i \in Nat : i + 1 = n => f[n] = Build(f[i]) /\ g[n] = Build(g[i])
    BY <1>3
  <2> QED
    BY <1>5, <2>1
<1> QED
  BY <1>2, <1>6, <1>7

\* It settles in one state only.
LEMMA RunEnds ==
  ASSUME NEW start, NEW f, IsRun(start, f), NEW k \in Nat, Settled(f[k]), NEW m \in Nat, Settled(f[m])
  PROVE  f[k] = f[m]
<1>1. CASE m >= k
  BY <1>1, RunStays
<1>2. CASE k >= m
  BY <1>2, RunStays
<1> QED
  BY <1>1, <1>2

\* m_buffer += data.
LEMMA GivenIs ==
  ASSUME NEW b, IsDecoder(b), NEW x \in Seq(Byte)
  PROVE  LET c == Given(b, x) IN
         /\ IsDecoder(c) /\ ~c.thrown
         /\ c.m_buffer = b.m_buffer \o x /\ c.m_builder = b.m_builder /\ c.replies = b.replies
         /\ \A y \in Seq(Byte) : Given(b, x \o y) = More(c, y)
         /\ ~b.thrown => c = More(b, x)
<1> DEFINE off == FALSE
<1>1. ~off /\ off \in BOOLEAN
  OBVIOUS
<1>2. \A s : Given(b, s) = WithThrown(WithBuffer(b, b.m_buffer \o s), off)
  BY Zenon DEF Given, WithThrown, WithBuffer
<1> HIDE DEF off
<1>3. \A s : Given(b, s) = Fields(b.m_buffer \o s, b.m_builder, b.replies, off)
  <2> SUFFICES ASSUME NEW s PROVE Given(b, s) = Fields(b.m_buffer \o s, b.m_builder, b.replies, off)
    OBVIOUS
  <2> DEFINE t == b.m_buffer \o s
             d == WithBuffer(b, t)
  <2>1. b = Fields(b.m_buffer, b.m_builder, b.replies, b.thrown)
    BY DEF IsDecoder
  <2> HIDE DEF t
  <2>2. d = Fields(t, b.m_builder, b.replies, b.thrown)
    BY <2>1, BufferUpdate
  <2> HIDE DEF d
  <2>3. WithThrown(d, off) = Fields(t, b.m_builder, b.replies, off)
    BY <2>2, ThrownUpdate
  <2> QED
    BY <1>2, <2>3, Zenon DEF t, d
<1> DEFINE c == Given(b, x)
<1>4. c = Fields(b.m_buffer \o x, b.m_builder, b.replies, off)
  BY <1>3, Zenon
<1> HIDE DEF c
<1>5. b.m_buffer \in Seq(Byte) /\ b.m_buffer \o x \in Seq(Byte)
  BY ConcatProperties DEF IsDecoder
<1>6. c.m_buffer = b.m_buffer \o x /\ c.m_builder = b.m_builder /\ c.replies = b.replies
      /\ c.thrown = off
  BY <1>4 DEF Fields
<1>7. IsDecoder(c)
  BY <1>1, <1>4, <1>5, StateIsDecoder DEF IsDecoder
<1>8. ASSUME NEW y \in Seq(Byte) PROVE Given(b, x \o y) = More(c, y)
  <2>1. b.m_buffer \o (x \o y) = (b.m_buffer \o x) \o y
    <3> DEFINE s == b.m_buffer
    <3>1. s \in Seq(Byte)
      BY <1>5
    <3> HIDE DEF s
    <3>2. (s \o x) \o y = s \o (x \o y)
      BY <3>1, ConcatAssociative
    <3> QED
      BY <3>2 DEF s
  <2>2. More(c, y) = Fields((b.m_buffer \o x) \o y, b.m_builder, b.replies, off)
    BY <1>6, <1>7, MoreIs
  <2> QED
    BY <1>3, <2>1, <2>2, Zenon
<1>9. ASSUME ~b.thrown PROVE c = More(b, x)
  <2>1. b.thrown = off
    <3>1. b.thrown \in BOOLEAN
      BY DEF IsDecoder
    <3> QED
      BY <1>1, <1>9, <3>1
  <2>2. More(b, x) = Fields(b.m_buffer \o x, b.m_builder, b.replies, b.thrown)
    BY MoreIs
  <2> QED
    BY <1>4, <2>1, <2>2, Zenon
<1>10. ~c.thrown
  BY <1>1, <1>6, Zenon
<1> QED
  BY <1>6, <1>7, <1>8, <1>9, <1>10 DEF c

\* What is fed is where the run ends.
LEMMA FedIs ==
  ASSUME NEW b, IsDecoder(b), NEW x \in Seq(Byte), NEW f, IsRun(Given(b, x), f)
  PROVE  /\ IsDecoder(Fed(b, x)) /\ Settled(Fed(b, x))
         /\ \A k \in Nat : Settled(f[k]) => Fed(b, x) = f[k]
<1> DEFINE start == Given(b, x)
           after[i \in Nat] == IF i = 0 THEN start ELSE Build(after[i - 1])
           n == 2 * Len(start.m_buffer) + Len(b.m_builder)
<1>1. Fed(b, x) = after[n]
  BY Zenon DEF Fed
<1>2. IsDecoder(start) /\ start.m_builder = b.m_builder
  BY GivenIs
<1>3. n = Weight(start)
  BY <1>2 DEF Weight
<1>4. IsRun(start, after)
  <2>1. f = [i \in Nat |-> IF i = 0 THEN start ELSE Build(f[i - 1])]
    BY DEF IsRun
  <2>2. after = [i \in Nat |-> IF i = 0 THEN start ELSE Build(after[i - 1])]
    BY <2>1, Zenon
  <2> HIDE DEF after
  <2> QED
    BY <2>2, Zenon DEF IsRun
<1>5. IsRun(start, f)
  OBVIOUS
<1> HIDE DEF after, start, n
<1>6. (\A i \in Nat : IsDecoder(after[i])) /\ Settled(after[n])
  BY <1>2, <1>3, <1>4, RunSettles
<1>7. n \in Nat
  BY <1>2, <1>3, WeightIsNat
<1>8. ASSUME NEW k \in Nat, Settled(f[k]) PROVE Fed(b, x) = f[k]
  <2>1. f[k] = after[k]
    BY <1>4, <1>5, RunsAgree
  <2> QED
    BY <1>1, <1>4, <1>6, <1>7, <1>8, <2>1, RunEnds
<1> QED
  BY <1>1, <1>6, <1>7, <1>8

\* operator<< ends: the steps that Fed takes are enough for every decoder and all
\* data, no step is left that would do something.
THEOREM FeedingSettles ==
  \A b : IsDecoder(b) => \A x \in Seq(Byte) : IsDecoder(Fed(b, x)) /\ Build(Fed(b, x)) = Fed(b, x)
<1> SUFFICES ASSUME NEW b, IsDecoder(b), NEW x \in Seq(Byte)
             PROVE  IsDecoder(Fed(b, x)) /\ Build(Fed(b, x)) = Fed(b, x)
  OBVIOUS
<1>1. PICK f : IsRun(Given(b, x), f)
  BY RunExists
<1> QED
  BY <1>1, FedIs DEF Settled

\* With more bytes, the run goes on where it would settle without them.
LEMMA RunAhead ==
  ASSUME NEW b, IsDecoder(b), NEW x \in Seq(Byte), NEW y \in Seq(Byte), NEW g, IsRun(Given(b, x \o y), g)
  PROVE  \E k \in Nat : g[k] = More(Fed(b, x), y)
<1> DEFINE start == Given(b, x)
           c == Fed(b, x)
<1>1. IsDecoder(start) /\ Given(b, x \o y) = More(start, y)
  BY GivenIs
<1>2. PICK f : IsRun(start, f)
  BY RunExists
<1>3. IsDecoder(c) /\ \A k \in Nat : Settled(f[k]) => c = f[k]
  BY <1>2, FedIs
<1>4. /\ f[0] = start /\ \A i \in Nat : f[i + 1] = Build(f[i])
      /\ g[0] = More(start, y) /\ \A i \in Nat : g[i + 1] = Build(g[i])
  <2>1. f[0] = start /\ \A i \in Nat : f[i + 1] = Build(f[i])
    BY <1>2, RunIs
  <2>2. g[0] = Given(b, x \o y) /\ \A i \in Nat : g[i + 1] = Build(g[i])
    BY RunIs
  <2> QED
    BY <1>1, <2>1, <2>2
<1>5. PICK k \in Nat : Settled(f[k]) /\ \A j \in Nat : Settled(f[j]) => k <= j
  <2> DEFINE T == {i \in Nat : Settled(f[i])}
  <2>1. Weight(start) \in Nat /\ Settled(f[Weight(start)])
    BY <1>1, <1>2, RunSettles, WeightIsNat
  <2>2. T \subseteq Nat /\ T # {}
    BY <2>1
  <2>3. \E i \in T : \A j \in T : i <= j
    <3> HIDE DEF T
    <3> QED
      BY <2>2, LeastNat
  <2> QED
    BY <2>3
<1>6. f[k] = c
  BY <1>3, <1>5
<1>7. \A i \in Nat : IsDecoder(f[i])
  BY <1>1, <1>2, RunSettles
<1> HIDE DEF start, c
<1>8. \A i \in Nat : i <= k => g[i] = More(f[i], y)
  <2> DEFINE T == {i \in Nat : i <= k /\ g[i] # More(f[i], y)}
  <2> SUFFICES ASSUME T # {} PROVE FALSE
    OBVIOUS
  <2>1. PICK i \in T : \A j \in T : i <= j
    <3>1. T \subseteq Nat
      OBVIOUS
    <3> HIDE DEF T
    <3> QED
      BY <3>1, LeastNat
  <2>2. i \in Nat /\ i <= k /\ g[i] # More(f[i], y)
    OBVIOUS
  <2>3. i # 0
    BY <1>4, <2>2
  <2> DEFINE j == i - 1
  <2>4. j \in Nat /\ j + 1 = i /\ j <= k /\ ~(i <= j) /\ ~(k <= j)
    BY <2>2, <2>3
  <2>5. g[j] = More(f[j], y)
    BY <2>1, <2>4
  <2> HIDE DEF j, T
  <2>6. ~Settled(f[j])
    BY <1>5, <2>4
  <2>7. g[i] = Build(g[j]) /\ f[i] = Build(f[j])
    BY <1>4, <2>4
  <2>8. ~f[j].thrown
    BY <2>6, Zenon DEF Settled, Build
  <2> DEFINE d == f[j]
  <2>9. IsDecoder(d)
    BY <1>7, <2>4
  <2>10. ~d.thrown /\ Build(d) # d
    BY <2>6, <2>8 DEF Settled
  <2> HIDE DEF d
  <2>11. Build(More(d, y)) = More(Build(d), y)
    BY <2>9, <2>10, BuildIs
  <2> QED
    BY <2>2, <2>5, <2>7, <2>11 DEF d
<1>9. g[k] = More(c, y)
  <2>1. k <= k
    OBVIOUS
  <2>2. g[k] = More(f[k], y)
    BY <1>8, <2>1, Zenon
  <2> QED
    BY <1>6, <2>2, Zenon
<1> QED
  BY <1>9 DEF c

\* Where the data is cut does not matter, whatever it is: operator<< on x and then on y
\* leaves the state that one operator<< on x y does, unless x makes the decoder throw
\* (the next operator<< would then go on from where it stopped).
THEOREM FeedingInParts ==
  \A b : IsDecoder(b) => \A x, y \in Seq(Byte) :
    ~Fed(b, x).thrown => Fed(Fed(b, x), y) = Fed(b, x \o y)
<1> SUFFICES ASSUME NEW b, IsDecoder(b), NEW x \in Seq(Byte), NEW y \in Seq(Byte), ~Fed(b, x).thrown
             PROVE  Fed(Fed(b, x), y) = Fed(b, x \o y)
  OBVIOUS
<1> DEFINE c == Fed(b, x)
<1>1. x \o y \in Seq(Byte)
  BY ConcatProperties
<1>2. PICK g : IsRun(Given(b, x \o y), g)
  BY RunExists
<1>3. PICK h : IsRun(Given(c, y), h)
  BY RunExists
<1>4. IsDecoder(c)
  BY FeedingSettles
<1>5. /\ \A i \in Nat : g[i + 1] = Build(g[i])
      /\ h[0] = Given(c, y) /\ \A i \in Nat : h[i + 1] = Build(h[i])
  <2>1. \A i \in Nat : g[i + 1] = Build(g[i])
    BY <1>2, RunIs
  <2>2. h[0] = Given(c, y) /\ \A i \in Nat : h[i + 1] = Build(h[i])
    BY <1>3, RunIs
  <2> QED
    BY <2>1, <2>2
<1>6. Given(c, y) = More(c, y)
  <2> HIDE DEF c
  <2>1. ~c.thrown
    BY DEF c
  <2> QED
    BY <1>4, <2>1, GivenIs
<1>7. PICK k \in Nat : g[k] = More(c, y)
  BY <1>2, RunAhead
<1> HIDE DEF c
<1>8. g[k] = h[0]
  BY <1>5, <1>7, <1>6
<1>9. \A i \in Nat : g[k + i] = h[i]
  <2> DEFINE T == {i \in Nat : g[k + i] # h[i]}
  <2> SUFFICES ASSUME T # {} PROVE FALSE
    OBVIOUS
  <2>1. PICK i \in T : \A j \in T : i <= j
    <3>1. T \subseteq Nat
      OBVIOUS
    <3> HIDE DEF T
    <3> QED
      BY <3>1, LeastNat
  <2>2. i \in Nat /\ g[k + i] # h[i]
    OBVIOUS
  <2>3. i # 0
    BY <1>8, <2>2
  <2> DEFINE j == i - 1
  <2>4. j \in Nat /\ j + 1 = i /\ ~(i <= j) /\ k + j \in Nat /\ (k + j) + 1 = k + i
    BY <2>2, <2>3
  <2>5. g[k + j] = h[j]
    BY <2>1, <2>4
  <2> HIDE DEF j, T
  <2>6. g[(k + j) + 1] = Build(g[k + j]) /\ h[j + 1] = Build(h[j])
    BY <1>5, <2>4
  <2> QED
    BY <2>2, <2>4, <2>5, <2>6
<1> DEFINE m == Weight(Given(c, y))
<1>10. m \in Nat /\ Settled(h[m])
  BY <1>3, <1>4, GivenIs, RunSettles, WeightIsNat
<1> HIDE DEF m
<1>11. Fed(c, y) = h[m]
  BY <1>3, <1>4, <1>10, FedIs
<1>12. k + m \in Nat /\ g[k + m] = h[m]
  BY <1>9, <1>10
<1>13. Fed(b, x \o y) = g[k + m]
  <2> DEFINE all == x \o y
             e == k + m
  <2>1. all \in Seq(Byte) /\ IsRun(Given(b, all), g) /\ e \in Nat /\ Settled(g[e])
    BY <1>1, <1>2, <1>10, <1>12
  <2> HIDE DEF all, e
  <2>2. Fed(b, all) = g[e]
    BY <2>1, FedIs
  <2> QED
    BY <2>2 DEF all, e
<1> QED
  BY <1>11, <1>12, <1>13 DEF c

-----------------------------------------------------------------------------
(* What Redis writes: sequences that are joined, lines, and numbers.         *)

\* F[j] are the first j sequences of e, one after another.
IsJoin(F, S, e) ==
  /\ F \in [0..Len(e) -> Seq(S)] /\ F[0] = <<>>
  /\ \A j \in 1..Len(e) : F[j] = F[j - 1] \o e[j]

\* Every sequence of sequences can be joined.
LEMMA JoinExists ==
  \A S : \A e \in Seq(Seq(S)) : \E F : IsJoin(F, S, e)
<1> SUFFICES ASSUME NEW S, NEW e \in Seq(Seq(S)) PROVE \E F : IsJoin(F, S, e)
  OBVIOUS
<1> DEFINE n == Len(e)
           prev == [i \in Nat |-> IF i = 0 THEN 0 ELSE i - 1]
           base == [i \in Nat |-> <<>>]
           step == [i \in Nat |-> [t \in Seq(S) |-> IF i \in 1..n THEN t \o e[i] ELSE <<>>]]
<1>1. n \in Nat /\ (\A i \in 1..n : e[i] \in Seq(S)) /\ <<>> \in Seq(S)
  BY LenProperties, ElementOfSeq, EmptySeq
<1> HIDE DEF n
<1>2. prev \in [Nat -> Nat] /\ base \in [Nat -> Seq(S)] /\ step \in [Nat -> [Seq(S) -> Seq(S)]]
  <2>1. \A i \in Nat : \A t \in Seq(S) : (IF i \in 1..n THEN t \o e[i] ELSE <<>>) \in Seq(S)
    BY <1>1, ConcatProperties
  <2> QED
    BY <1>1, <2>1
<1>3. base[0] = <<>> /\ prev[0] = 0
  OBVIOUS
<1>4. \A i \in 1..n : prev[i] = i - 1 /\ \A t \in Seq(S) : step[i][t] = t \o e[i]
  <2> HIDE DEF step
  <2>1. \A i \in 1..n : prev[i] = i - 1
    OBVIOUS
  <2>2. \A i \in 1..n : \A t \in Seq(S) : step[i][t] = t \o e[i]
    BY DEF step
  <2> QED
    BY <2>1, <2>2
<1> HIDE DEF prev, base, step
<1>5. PICK f \in [Nat -> Seq(S)] : Computes(f, prev, base, step)
  BY <1>2, Recursion, Zenon
<1> DEFINE F == [i \in 0..n |-> f[i]]
<1>6. f[0] = <<>>
  BY <1>3, <1>5 DEF Computes
<1>7. ASSUME NEW i \in 1..n PROVE f[i] = f[i - 1] \o e[i]
  <2>1. i \in Nat /\ i - 1 \in Nat /\ prev[i] = i - 1 /\ prev[i] < i
    BY <1>4
  <2>2. f[i] = step[i][f[i - 1]] /\ f[i - 1] \in Seq(S)
    BY <1>5, <2>1 DEF Computes
  <2> QED
    BY <1>4, <2>2
<1>8. F \in [0..n -> Seq(S)] /\ F[0] = <<>>
  BY <1>1, <1>6
<1>9. ASSUME NEW j \in 1..n PROVE F[j] = F[j - 1] \o e[j]
  <2>1. j \in 0..n /\ j - 1 \in 0..n
    BY <1>1
  <2> QED
    BY <1>7, <2>1
<1> HIDE DEF F
<1>10. IsJoin(F, S, e)
  BY <1>8, <1>9 DEF IsJoin, n
<1> QED
  BY <1>10

\* FlattenSeq joins them.
LEMMA JoinIsFlatten ==
  ASSUME NEW S, NEW e \in Seq(Seq(S)), NEW F, IsJoin(F, S, e)
  PROVE  F[Len(e)] = FlattenSeq(e)
<1> DEFINE n == Len(e)
           Step(g, i) == IF i = 1 THEN e[i] ELSE g[i - 1] \o e[i]
           flatten[i \in 1..Len(e)] == IF i = 1 THEN e[i] ELSE flatten[i - 1] \o e[i]
<1>1. /\ n \in Nat /\ \A i \in 1..n : e[i] \in Seq(S)
      /\ F[0] = <<>> /\ (\A i \in 0..n : F[i] \in Seq(S)) /\ \A j \in 1..n : F[j] = F[j - 1] \o e[j]
  BY LenProperties, ElementOfSeq DEF IsJoin
<1>2. FlattenSeq(e) = IF Len(e) = 0 THEN e ELSE flatten[Len(e)]
  BY Zenon DEF FlattenSeq
<1>3. CASE n = 0
  <2>1. e = <<>>
    BY <1>3, EmptySeq
  <2> QED
    BY <1>1, <1>2, <1>3, <2>1
<1>4. CASE n # 0
  <2> DEFINE v == [i \in 1..n |-> F[i]]
  <2> HIDE DEF flatten
  <2>1. ASSUME NEW i \in 1..n PROVE F[i] = IF i = 1 THEN e[i] ELSE v[i - 1] \o e[i]
    <3>1. CASE i = 1
      <4>1. F[i] = <<>> \o e[i] /\ e[i] \in Seq(S)
        <5>1. i - 1 = 0
          BY <3>1
        <5> QED
          BY <1>1, <5>1
      <4> QED
        BY <3>1, <4>1, ConcatEmptySeq
    <3>2. CASE i # 1
      <4>1. i - 1 \in 1..n
        BY <1>1, <3>2
      <4>2. v[i - 1] = F[i - 1]
        BY <4>1
      <4> HIDE DEF v
      <4> QED
        BY <1>1, <3>2, <4>2
    <3> QED
      BY <3>1, <3>2
  <2>2. v = [i \in 1..Len(e) |-> IF i = 1 THEN e[i] ELSE v[i - 1] \o e[i]]
    <3>1. v = [i \in 1..n |-> F[i]]
      OBVIOUS
    <3> HIDE DEF v
    <3> QED
      BY <2>1, <3>1
  <2>3. flatten = [i \in 1..Len(e) |-> IF i = 1 THEN e[i] ELSE flatten[i - 1] \o e[i]]
    BY <2>2, Zenon DEF flatten
  <2> HIDE DEF v
  <2> DEFINE T == {i \in 1..n : flatten[i] # F[i]}
  <2>4. T = {}
    <3> SUFFICES ASSUME T # {} PROVE FALSE
      OBVIOUS
    <3>1. PICK i \in T : \A j \in T : i <= j
      <4>1. T \subseteq Nat
        OBVIOUS
      <4> HIDE DEF T
      <4> QED
        BY <4>1, LeastNat
    <3>2. i \in 1..n /\ flatten[i] # F[i]
      OBVIOUS
    <3>3. flatten[i] = IF i = 1 THEN e[i] ELSE flatten[i - 1] \o e[i]
      BY <2>3, <3>2
    <3>4. i # 1
      <4> SUFFICES ASSUME i = 1 PROVE FALSE
        OBVIOUS
      <4>1. F[i] = e[i]
        BY <2>1, <3>2
      <4> QED
        BY <3>2, <3>3, <4>1
    <3>5. i - 1 \in 1..n /\ ~(i <= i - 1)
      BY <1>1, <3>2, <3>4
    <3>6. flatten[i - 1] = F[i - 1]
      BY <3>1, <3>5
    <3> HIDE DEF T
    <3> QED
      BY <1>1, <3>2, <3>3, <3>4, <3>6
  <2>5. n \in 1..n
    BY <1>1, <1>4
  <2>6. flatten[n] = F[n]
    BY <2>4, <2>5
  <2> QED
    BY <1>2, <1>4, <2>6
<1> QED
  BY <1>3, <1>4

\* FlattenSeq takes one sequence more at a time.
LEMMA FlattenIs ==
  ASSUME NEW S, NEW e \in Seq(Seq(S))
  PROVE  /\ FlattenSeq(SubSeq(e, 1, 0)) = <<>>
         /\ \A k \in 0..Len(e) : FlattenSeq(SubSeq(e, 1, k)) \in Seq(S)
         /\ \A k \in 1..Len(e) : FlattenSeq(SubSeq(e, 1, k)) = FlattenSeq(SubSeq(e, 1, k - 1)) \o e[k]
<1> DEFINE n == Len(e)
<1>1. n \in Nat
  BY LenProperties
<1>2. PICK F : IsJoin(F, S, e)
  BY JoinExists
<1>3. /\ F[0] = <<>> /\ (\A i \in 0..n : F[i] \in Seq(S)) /\ \A j \in 1..n : F[j] = F[j - 1] \o e[j]
  BY <1>2 DEF IsJoin
<1>4. ASSUME NEW k \in 0..n PROVE FlattenSeq(SubSeq(e, 1, k)) = F[k]
  <2> DEFINE d == SubSeq(e, 1, k)
             G == [i \in 0..k |-> F[i]]
  <2>1. d \in Seq(Seq(S)) /\ Len(d) = k /\ \A i \in 1..k : d[i] = e[i]
    BY EmptySeq, ConcatFront
  <2> HIDE DEF d
  <2>2. k \in Nat /\ (\A i \in 0..k : i \in 0..n) /\ \A i \in 1..k : i \in 1..n
        /\ i - 1 \in 0..k /\ i \in 0..k
    BY <1>1
  <2> HIDE DEF n
  <2>3. G \in [0..k -> Seq(S)] /\ G[0] = <<>> /\ G[k] = F[k]
    BY <1>3, <2>2
  <2>4. \A j \in 1..k : G[j] = G[j - 1] \o d[j]
    BY <1>3, <2>1, <2>2
  <2> HIDE DEF G
  <2>5. IsJoin(G, S, d)
    BY <2>1, <2>3, <2>4 DEF IsJoin
  <2>6. G[Len(d)] = FlattenSeq(d)
    BY <2>1, <2>5, JoinIsFlatten
  <2> QED
    BY <2>1, <2>3, <2>6 DEF d
<1>5. 0 \in 0..n /\ \A k \in 1..n : k \in 0..n /\ k - 1 \in 0..n
  BY <1>1
<1> QED
  BY <1>3, <1>4, <1>5

\* The decoder subtracts after a minus sign.
LEMMA SignedIs ==
  \A d \in Seq(Digit) : Integer(<<Dash>> \o d) = -Integer(d)
<1> SUFFICES ASSUME NEW d \in Seq(Digit) PROVE Integer(<<Dash>> \o d) = -Integer(d)
  OBVIOUS
<1> DEFINE n == Len(d)
           line == <<Dash>> \o d
           Step(f, i) == IF i = 0 THEN 0
                         ELSE IF line[i] = Dash THEN f[i - 1]
                         ELSE 10 * f[i - 1] + (line[i] - 48)
           m_nbr[i \in 0..Len(line)] ==
             IF i = 0 THEN 0
             ELSE IF line[i] = Dash THEN m_nbr[i - 1]
             ELSE 10 * m_nbr[i - 1] + (line[i] - 48)
<1>1. PICK v \in [0..n -> Nat] :
        v[0] = 0 /\ (\A i \in 1..n : v[i] = 10 * v[i - 1] + (d[i] - 48)) /\ Integer(d) = v[n]
  BY DigitsHaveValue
<1>2. n \in Nat /\ \A i \in 1..n : d[i] \in Digit
  BY LenProperties, ElementOfSeq
<1>3. /\ line # <<>> /\ line[1] = Dash /\ Len(line) = n + 1
      /\ \A i \in 2..n + 1 : line[i] = d[i - 1] /\ line[i] # Dash
  <2> DEFINE S == Digit \cup {Dash}
  <2>1. <<Dash>> \in Seq(S) /\ Len(<<Dash>>) = 1 /\ <<Dash>>[1] = Dash /\ d \in Seq(S)
    <3>1. d \in Seq(S)
      BY SeqMonotonic
    <3> QED
      BY <3>1
  <2>2. /\ line \in Seq(S) /\ Len(line) = 1 + n
        /\ \A i \in 1..1 + n : line[i] = IF i <= 1 THEN <<Dash>>[i] ELSE d[i - 1]
    <3> HIDE DEF S
    <3>1. /\ line \in Seq(S) /\ Len(line) = Len(<<Dash>>) + Len(d)
          /\ \A i \in 1..Len(<<Dash>>) + Len(d) : line[i] = IF i <= Len(<<Dash>>) THEN <<Dash>>[i] ELSE d[i - Len(<<Dash>>)]
      BY <2>1, ConcatProperties
    <3> HIDE DEF line
    <3> QED
      BY <2>1, <3>1
  <2> HIDE DEF line, n, S
  <2>3. line # <<>> /\ line[1] = Dash /\ Len(line) = n + 1
    <3>1. Len(line) # 0 /\ 1 \in 1..1 + n
      BY <1>2, <2>2
    <3>2. line # <<>>
      BY <3>1, EmptySeq
    <3> QED
      BY <1>2, <2>1, <2>2, <3>1, <3>2
  <2>4. ASSUME NEW i \in 2..n + 1 PROVE line[i] = d[i - 1] /\ line[i] # Dash
    <3>1. i \in 1..1 + n /\ ~(i <= 1) /\ i - 1 \in 1..n
      BY <1>2
    <3>2. line[i] = d[i - 1] /\ d[i - 1] \in Digit
      BY <1>2, <2>2, <3>1
    <3> QED
      BY <3>2 DEF Digit, Dash
  <2> QED
    BY <2>3, <2>4
<1> DEFINE m == [i \in 0..n + 1 |-> IF i = 0 THEN 0 ELSE v[i - 1]]
<1>4. m = [i \in 0..n + 1 |-> Step(m, i)]
  <2>1. ASSUME NEW i \in 0..n + 1 PROVE m[i] = Step(m, i)
    <3> HIDE DEF line, n
    <3>1. CASE i = 0
      BY <3>1
    <3>2. CASE i = 1
      <4>1. m[1] = v[0] /\ m[0] = 0
        <5>1. 1 \in 0..n + 1 /\ 0 \in 0..n + 1 /\ 1 - 1 = 0
          BY <1>2
        <5> QED
          BY <5>1
      <4>2. i - 1 = 0 /\ i # 0
        BY <3>2
      <4> HIDE DEF m
      <4> QED
        BY <1>1, <1>3, <3>2, <4>1, <4>2
    <3>3. CASE i # 0 /\ i # 1
      <4>1. i \in 2..n + 1 /\ i - 1 \in 1..n /\ i - 1 \in 0..n + 1 /\ i - 1 # 0
        BY <1>2, <3>3
      <4>2. m[i] = v[i - 1] /\ m[i - 1] = v[(i - 1) - 1]
        BY <3>3, <4>1
      <4> HIDE DEF m
      <4> QED
        BY <1>1, <1>3, <3>3, <4>1, <4>2
    <3> QED
      BY <3>1, <3>2, <3>3
  <2>2. m = [i \in 0..n + 1 |-> m[i]]
    OBVIOUS
  <2> HIDE DEF m, Step
  <2> QED
    BY <2>1, <2>2
<1>5. m_nbr = [i \in 0..n + 1 |-> Step(m_nbr, i)]
  <2>1. Len(line) = n + 1
    BY <1>3
  <2>2. m = [i \in 0..Len(line) |-> Step(m, i)]
    BY <1>4, <2>1
  <2>3. m_nbr = [i \in 0..Len(line) |-> Step(m_nbr, i)]
    <3> HIDE DEF m
    <3> QED
      BY <2>2, Zenon
  <2> QED
    BY <2>1, <2>3, Zenon
<1>6. Integer(line) = IF line # <<>> /\ line[1] = Dash THEN -m_nbr[Len(line)] ELSE m_nbr[Len(line)]
  BY Zenon DEF Integer
<1> HIDE DEF m_nbr
<1> DEFINE T == {i \in 0..n + 1 : m_nbr[i] # m[i]}
<1>7. T = {}
  <2> SUFFICES ASSUME T # {} PROVE FALSE
    OBVIOUS
  <2> HIDE DEF m, line, n
  <2>1. PICK i \in T : \A j \in T : i <= j
    <3>1. T \subseteq Nat
      BY <1>2
    <3> HIDE DEF T
    <3> QED
      BY <3>1, LeastNat
  <2>2. i \in 0..n + 1 /\ m_nbr[i] # m[i]
    OBVIOUS
  <2>3. m_nbr[i] = Step(m_nbr, i) /\ m[i] = Step(m, i)
    <3> HIDE DEF Step
    <3> QED
      BY <1>4, <1>5, <2>2
  <2>4. i # 0
    BY <2>2, <2>3
  <2>5. i - 1 \in 0..n + 1 /\ ~(i <= i - 1)
    BY <1>2, <2>2, <2>4
  <2>6. m_nbr[i - 1] = m[i - 1]
    BY <2>1, <2>5
  <2> HIDE DEF T
  <2> QED
    BY <2>2, <2>3, <2>4, <2>6
<1>8. n + 1 \in 0..n + 1 /\ n + 1 # 0 /\ (n + 1) - 1 = n
  BY <1>2
<1>9. m_nbr[n + 1] = v[n]
  BY <1>7, <1>8
<1> HIDE DEF m, T, Step, n
<1>10. Integer(line) = -v[n]
  <2> HIDE DEF line
  <2> QED
    BY <1>3, <1>6, <1>9
<1> QED
  BY <1>1, <1>10

\* A line that holds no end of line ends where it was ended.
LEMMA LineEnds ==
  \A l \in Seq(Byte) : Ends(l) = {} =>
    LET a == EndLine(l) IN
    /\ a \in Seq(Byte) /\ Len(l) \in Nat /\ Len(a) = Len(l) + 2
    /\ Ends(a) # {} /\ Min(Ends(a)) = Len(l) + 1
    /\ SubSeq(a, 1, Len(l)) = l /\ Dropped(a, Len(l) + 2) = <<>>
<1> SUFFICES ASSUME NEW l \in Seq(Byte), Ends(l) = {}
             PROVE  LET a == EndLine(l) IN
                    /\ a \in Seq(Byte) /\ Len(l) \in Nat /\ Len(a) = Len(l) + 2
                    /\ Ends(a) # {} /\ Min(Ends(a)) = Len(l) + 1
                    /\ SubSeq(a, 1, Len(l)) = l /\ Dropped(a, Len(l) + 2) = <<>>
  OBVIOUS
<1> DEFINE e == <<CR, LF>>
           a == EndLine(l)
           n == Len(l)
<1>1. e \in Seq(Byte) /\ Len(e) = 2 /\ e[1] = CR /\ e[2] = LF
  <2>1. CR \in Byte /\ LF \in Byte
    BY DEF Byte, CR, LF
  <2> QED
    BY <2>1
<1>2. a = l \o e
  BY DEF EndLine
<1> HIDE DEF e
<1>3. n \in Nat /\ a \in Seq(Byte) /\ Len(a) = n + 2
      /\ \A i \in 1..n + 2 : a[i] = IF i <= n THEN l[i] ELSE e[i - n]
  <2>1. Len(l) \in Nat /\ l \o e \in Seq(Byte) /\ Len(l \o e) = Len(l) + Len(e)
        /\ \A i \in 1..Len(l) + Len(e) : (l \o e)[i] = IF i <= Len(l) THEN l[i] ELSE e[i - Len(l)]
    BY <1>1, ConcatProperties, LenProperties
  <2> HIDE DEF a, n
  <2>2. Len(l) = n
    BY DEF n
  <2> QED
    BY <1>1, <1>2, <2>1, <2>2
<1>4. SubSeq(a, 1, n) = l /\ Dropped(a, n + 2) = <<>>
  <2>1. n \in 0..Len(l)
    BY <1>3
  <2>2. SubSeq(l \o e, 1, n) = SubSeq(l, 1, n)
    BY <1>1, <2>1, ConcatFront
  <2>3. SubSeq(l, 1, n) = l
    BY SubSeqFull
  <2>4. n + 2 \in 0..Len(a)
    BY <1>3
  <2>5. Dropped(a, n + 2) \in Seq(Byte) /\ Len(Dropped(a, n + 2)) = 0
    <3>1. Dropped(a, n + 2) \in Seq(Byte) /\ Len(Dropped(a, n + 2)) = Len(a) - (n + 2)
      BY <1>3, <2>4, DroppedIs
    <3> QED
      BY <1>3, <3>1
  <2>6. Dropped(a, n + 2) = <<>>
    BY <2>5, EmptySeq
  <2> QED
    BY <1>2, <2>2, <2>3, <2>6
<1> HIDE DEF a
<1>5. a[n + 1] = CR /\ a[n + 2] = LF /\ \A i \in 1..n : a[i] = l[i]
  <2> HIDE DEF n
  <2>1. n + 1 \in 1..n + 2 /\ n + 2 \in 1..n + 2 /\ ~(n + 1 <= n) /\ ~(n + 2 <= n)
        /\ (n + 1) - n = 1 /\ (n + 2) - n = 2
    BY <1>3
  <2>2. \A i \in 1..n : i \in 1..n + 2 /\ i <= n
    BY <1>3
  <2> QED
    BY <1>1, <1>3, <2>1, <2>2
<1>6. n + 1 \in Ends(a)
  BY <1>3, <1>5 DEF Ends
<1>7. ASSUME NEW i \in Ends(a) PROVE n + 1 <= i
  <2> SUFFICES ASSUME ~(n + 1 <= i) PROVE FALSE
    OBVIOUS
  <2>1. i \in 1..Len(a) - 1 /\ a[i] = CR /\ a[i + 1] = LF
    BY DEF Ends
  <2> HIDE DEF n
  <2>2. i \in 1..n
    BY <1>3, <2>1
  <2>3. CASE i = n
    BY <1>5, <2>1, <2>3 DEF CR, LF
  <2>4. CASE i # n
    <3>1. i \in 1..n - 1 /\ i + 1 \in 1..n
      BY <1>3, <2>2, <2>4
    <3>2. l[i] = CR /\ l[i + 1] = LF
      BY <1>5, <2>1, <2>2, <3>1
    <3>3. i \in Ends(l)
      BY <3>1, <3>2 DEF Ends, n
    <3> QED
      BY <3>3
  <2> QED
    BY <2>3, <2>4
<1>8. Min(Ends(a)) = n + 1
  <2> DEFINE m == Min(Ends(a))
  <2>1. m \in Ends(a) /\ m \in 1..Len(a) - 1 /\ \A i \in Ends(a) : m <= i
    BY <1>1, <1>3, <1>6, FirstEnd
  <2> HIDE DEF m, n
  <2>2. m <= n + 1 /\ n + 1 <= m
    BY <1>6, <1>7, <2>1
  <2> QED
    BY <1>3, <2>1, <2>2 DEF m
<1> QED
  BY <1>3, <1>4, <1>6, <1>8 DEF a

\* A number, also a negative one, is written as a line that is read back as this
\* number.
LEMMA IntLine ==
  \A n \in Int :
    LET l == EncodedInt(n) IN
    l \in Seq(Byte) /\ Ends(l) = {} /\ IsInteger(l) /\ Integer(l) = n
<1> SUFFICES ASSUME NEW n \in Int
             PROVE  LET l == EncodedInt(n) IN
                    l \in Seq(Byte) /\ Ends(l) = {} /\ IsInteger(l) /\ Integer(l) = n
  OBVIOUS
<1> DEFINE S == Digit \cup {Dash}
<1>1. \A l \in Seq(S) : l \in Seq(Byte) /\ Ends(l) = {}
  <2> SUFFICES ASSUME NEW l \in Seq(S) PROVE l \in Seq(Byte) /\ Ends(l) = {}
    OBVIOUS
  <2>1. S \subseteq Byte /\ CR \notin S
    BY DEF Digit, Dash, Byte, CR
  <2> HIDE DEF S
  <2>2. l \in Seq(Byte)
    BY <2>1, SeqMonotonic
  <2>3. ASSUME NEW i \in Ends(l) PROVE FALSE
    <3>1. i \in 1..Len(l) /\ l[i] = CR
      BY LenProperties DEF Ends
    <3>2. l[i] \in S
      BY <3>1, ElementOfSeq
    <3> QED
      BY <2>1, <3>1, <3>2
  <2> QED
    BY <2>2, <2>3
<1>2. \A d \in Seq(Digit) : d \in Seq(S)
  BY SeqMonotonic
<1>3. CASE n >= 0
  <2>1. n \in Nat /\ EncodedInt(n) = Decimal[n]
    BY <1>3 DEF EncodedInt
  <2>2. Decimal[n] \in Seq(Digit) /\ Integer(Decimal[n]) = n
    BY <2>1, NumbersAreReadBack
  <2>3. IsInteger(Decimal[n])
    BY <2>2, LenProperties, ElementOfSeq DEF IsInteger
  <2> QED
    BY <1>1, <1>2, <2>1, <2>2, <2>3
<1>4. CASE n < 0
  <2> DEFINE d == Decimal[-n]
             l == <<Dash>> \o d
  <2>1. -n \in Nat /\ EncodedInt(n) = l
    BY <1>4 DEF EncodedInt
  <2>2. d \in Seq(Digit) /\ Integer(d) = -n
    BY <2>1, NumbersAreReadBack
  <2> HIDE DEF d
  <2>3. Integer(l) = n
    <3>1. Integer(l) = -Integer(d)
      BY <2>2, SignedIs
    <3> QED
      BY <2>2, <3>1
  <2>4. <<Dash>> \in Seq(S) /\ Len(<<Dash>>) = 1 /\ d \in Seq(S)
    BY <1>2, <2>2
  <2>5. l \in Seq(S)
    <3> HIDE DEF S
    <3> QED
      BY <2>4, ConcatProperties
  <2>6. IsInteger(l)
    <3>1. /\ DOMAIN l = 1..Len(l) /\ Len(l) = Len(<<Dash>>) + Len(d) /\ Len(d) \in Nat
          /\ \A i \in 1..Len(<<Dash>>) + Len(d) : l[i] = IF i <= Len(<<Dash>>) THEN <<Dash>>[i] ELSE d[i - Len(<<Dash>>)]
      <4> HIDE DEF S
      <4> QED
        BY <2>4, <2>5, ConcatProperties, LenProperties
    <3> HIDE DEF l
    <3>2. \A i \in 1..1 + Len(d) : l[i] = IF i <= 1 THEN <<Dash>>[i] ELSE d[i - 1]
      BY <2>4, <3>1
    <3>3. ASSUME NEW i \in DOMAIN l PROVE l[i] \in Digit \/ (i = 1 /\ l[i] = Dash)
      <4>1. i \in 1..1 + Len(d)
        BY <2>4, <3>1
      <4>2. CASE i = 1
        BY <3>2, <4>1, <4>2
      <4>3. CASE i # 1
        <5>1. ~(i <= 1) /\ i - 1 \in 1..Len(d)
          BY <3>1, <4>1, <4>3
        <5>2. l[i] = d[i - 1] /\ d[i - 1] \in Digit
          BY <2>2, <3>2, <4>1, <5>1, ElementOfSeq
        <5> QED
          BY <5>2
      <4> QED
        BY <4>2, <4>3
    <3> QED
      BY <3>3 DEF IsInteger
  <2> QED
    BY <1>1, <2>1, <2>3, <2>5, <2>6
<1> QED
  BY <1>3, <1>4

-----------------------------------------------------------------------------
(* The replies that are read from these bytes.                               *)

Reaches(b, c) == \E f : IsRun(b, f) /\ \E k \in Nat : f[k] = c

\* A run reaches where it starts.
LEMMA ReachesSelf == \A b : Reaches(b, b)
<1> SUFFICES ASSUME NEW b PROVE Reaches(b, b)
  OBVIOUS
<1>1. PICK f : IsRun(b, f)
  BY RunExists
<1>2. f[0] = b /\ 0 \in Nat
  BY <1>1, RunIs
<1> QED
  BY <1>1, <1>2, Zenon DEF Reaches

\* It reaches the next step.
LEMMA ReachesBuild == \A b, c : Build(b) = c => Reaches(b, c)
<1> SUFFICES ASSUME NEW b PROVE Reaches(b, Build(b))
  OBVIOUS
<1>1. PICK f : IsRun(b, f)
  BY RunExists
<1>2. f[0] = b /\ f[0 + 1] = Build(f[0])
  BY <1>1, RunIs
<1>3. f[1] = Build(b) /\ 1 \in Nat
  BY <1>2
<1> QED
  BY <1>1, <1>3, Zenon DEF Reaches

\* What is reached is gone on from.
LEMMA ReachesOn == \A b, c, d : Reaches(b, c) /\ Reaches(c, d) => Reaches(b, d)
<1> SUFFICES ASSUME NEW b, NEW c, NEW d, Reaches(b, c), Reaches(c, d) PROVE Reaches(b, d)
  OBVIOUS
<1>1. PICK f : IsRun(b, f) /\ \E k \in Nat : f[k] = c
  BY Zenon DEF Reaches
<1>2. PICK g : IsRun(c, g) /\ \E j \in Nat : g[j] = d
  BY Zenon DEF Reaches
<1>3. PICK k \in Nat : IsRun(b, f) /\ f[k] = c
  BY <1>1
<1>4. PICK j \in Nat : IsRun(c, g) /\ g[j] = d
  BY <1>2
<1>5. \A i \in Nat : f[i + 1] = Build(f[i])
  BY <1>3, RunIs
<1>6. g[0] = c /\ \A i \in Nat : g[i + 1] = Build(g[i])
  BY <1>4, RunIs
<1>7. \A i \in Nat : f[k + i] = g[i]
  <2> DEFINE T == {i \in Nat : f[k + i] # g[i]}
  <2> SUFFICES ASSUME T # {} PROVE FALSE
    OBVIOUS
  <2>1. PICK i \in T : \A l \in T : i <= l
    <3>1. T \subseteq Nat
      OBVIOUS
    <3> HIDE DEF T
    <3> QED
      BY <3>1, LeastNat
  <2>2. i \in Nat /\ f[k + i] # g[i]
    OBVIOUS
  <2>3. i # 0
    BY <1>3, <1>6, <2>2
  <2> DEFINE l == i - 1
  <2>4. l \in Nat /\ l + 1 = i /\ ~(i <= l) /\ k + l \in Nat /\ (k + l) + 1 = k + i
    BY <2>2, <2>3
  <2>5. f[k + l] = g[l]
    BY <2>1, <2>4
  <2> HIDE DEF l, T
  <2>6. f[(k + l) + 1] = Build(f[k + l]) /\ g[l + 1] = Build(g[l])
    BY <1>5, <1>6, <2>4
  <2> QED
    BY <2>2, <2>4, <2>5, <2>6
<1>8. k + j \in Nat /\ f[k + j] = d
  BY <1>4, <1>7
<1> QED
  BY <1>3, <1>8, Zenon DEF Reaches

\* Where a run comes to is what is fed, once it has settled.
LEMMA ReachesFed ==
  ASSUME NEW b, IsDecoder(b), NEW x \in Seq(Byte), NEW c, Reaches(Given(b, x), c), Settled(c)
  PROVE  Fed(b, x) = c
<1>1. PICK f : IsRun(Given(b, x), f) /\ \E k \in Nat : f[k] = c
  BY Zenon DEF Reaches
<1> QED
  BY <1>1, FedIs

-----------------------------------------------------------------------------
\* The stack is its top on the others.
LEMMA StackIs ==
  \A s : IsStack(s) /\ s # <<>> => s = Append(Front(s), Last(s))
<1> SUFFICES ASSUME NEW s, NEW S, s \in Seq(S), s # <<>>
             PROVE  s = Append(Front(s), Last(s))
  BY DEF IsStack
<1> DEFINE n == Len(s) - 1
<1>1. n \in Nat /\ Len(s) = n + 1 /\ n \in 0..Len(s) /\ Len(s) \in 1..Len(s)
  BY EmptySeq, LenProperties
<1> HIDE DEF n
<1>2. SubSeq(s, 1, n) \in Seq(S) /\ Len(SubSeq(s, 1, n)) = n
      /\ \A i \in 1..n : SubSeq(s, 1, n)[i] = s[i]
  BY <1>1, EmptySeq, ConcatFront
<1>3. Front(s) = SubSeq(s, 1, n) /\ Last(s) = s[n + 1]
  BY <1>1 DEF Front, Last, n
<1>4. Last(s) \in S
  BY <1>1, <1>3, ElementOfSeq
<1> DEFINE t == Append(Front(s), Last(s))
<1>5. t \in Seq(S) /\ Len(t) = n + 1 /\ (\A i \in 1..n : t[i] = s[i]) /\ t[n + 1] = s[n + 1]
  <2> DEFINE r == Front(s)
             l == Last(s)
  <2>1. r \in Seq(S) /\ Len(r) = n /\ \A i \in 1..n : r[i] = s[i]
    BY <1>2, <1>3
  <2>2. l = s[n + 1] /\ l \in S
    BY <1>3, <1>4
  <2> HIDE DEF r, l
  <2>3. /\ Append(r, l) \in Seq(S) /\ Len(Append(r, l)) = Len(r) + 1
        /\ (\A i \in 1..Len(r) : Append(r, l)[i] = r[i]) /\ Append(r, l)[Len(r) + 1] = l
    BY <2>1, <2>2, AppendProperties
  <2>4. Append(r, l) \in Seq(S) /\ Len(Append(r, l)) = n + 1
        /\ (\A i \in 1..n : Append(r, l)[i] = s[i]) /\ Append(r, l)[n + 1] = s[n + 1]
    BY <2>1, <2>2, <2>3
  <2> QED
    BY <2>4 DEF r, l
<1> HIDE DEF t
<1>6. \A i \in 1..Len(s) : s[i] = t[i]
  <2>1. \A i \in 1..n + 1 : i \in 1..n \/ i = n + 1
    BY <1>1
  <2> QED
    BY <1>1, <1>5, <2>1
<1>7. s = t
  BY <1>1, <1>5, <1>6, SeqEqual
<1> QED
  BY <1>7 DEF t

\* To replace the top is to push another builder.
LEMMA StackTopIs ==
  \A s, d, e : IsStack(s) /\ IsBuilder(d) /\ IsBuilder(e) =>
    [Append(s, d) EXCEPT ![Len(Append(s, d))] = e] = Append(s, e)
<1> SUFFICES ASSUME NEW s, NEW d, NEW e, IsStack(s), IsBuilder(d), IsBuilder(e)
             PROVE  [Append(s, d) EXCEPT ![Len(Append(s, d))] = e] = Append(s, e)
  OBVIOUS
<1> DEFINE r == Append(s, d)
           t == [r EXCEPT ![Len(r)] = e]
<1>1. IsStack(r) /\ r # <<>> /\ Front(r) = s
  BY StackPush
<1> HIDE DEF r
<1>2. IsStack(t) /\ t # <<>> /\ Last(t) = e /\ Front(t) = s
  BY <1>1, StackTop
<1> HIDE DEF t
<1>3. t = Append(Front(t), Last(t))
  BY <1>2, StackIs
<1>4. t = Append(s, e)
  BY <1>2, <1>3
<1> QED
  BY <1>4 DEF t, r

\* A decoder that the next byte makes a builder in: it has none, or an array
\* whose rows are not all there.
Waiting(b) ==
  /\ IsDecoder(b) /\ ~b.thrown
  /\ \/ b.m_builder = <<>>
     \/ LET top == Last(b.m_builder) IN
        top.size # Unknown /\ top.id # BulkString /\ <<Len(top.rows)>> # top.size

\* The reply is handed over, or is the next row of the array.
Accepted(b, rest, reply) ==
  IF b.m_builder = <<>> THEN Fields(rest, <<>>, Append(b.replies, reply), b.thrown)
  ELSE Fields(rest, WithRow(b.m_builder, reply), b.replies, b.thrown)

\* From these bytes the decoder reads this reply, wherever it stands.
Reads(bytes, reply) ==
  /\ bytes \in Seq(Byte)
  /\ \A b : \A rest \in Seq(Byte) :
       Waiting(b) /\ b.m_buffer = bytes \o rest => Reaches(b, Accepted(b, rest, reply))

\* The next byte makes a builder.
LEMMA WaitingBuilds ==
  \A b : Waiting(b) => Build(b) = CreateBuilder(b)
<1> SUFFICES ASSUME NEW b, Waiting(b) PROVE Build(b) = CreateBuilder(b)
  OBVIOUS
<1>1. CASE b.m_builder = <<>>
  BY <1>1, Zenon DEF Waiting, Build
<1>2. CASE b.m_builder # <<>>
  BY <1>2, Zenon DEF Waiting, Build
<1> QED
  BY <1>1, <1>2

\* A decoder with a builder on top of those of b.
Above(b, s, e) == Fields(s, Append(b.m_builder, e), b.replies, b.thrown)

\* It is on top, nothing else changes.
LEMMA AboveIs ==
  ASSUME NEW b, IsDecoder(b), ~b.thrown, NEW s \in Seq(Byte), NEW e, IsBuilder(e)
  PROVE  LET c == Above(b, s, e) IN
         /\ IsDecoder(c) /\ ~c.thrown /\ c.m_buffer = s /\ c.replies = b.replies
         /\ c.m_builder = Append(b.m_builder, e)
         /\ c.m_builder # <<>> /\ Last(c.m_builder) = e /\ Front(c.m_builder) = b.m_builder
<1> DEFINE c == Above(b, s, e)
           stack == Append(b.m_builder, e)
<1>1. c = Fields(s, stack, b.replies, b.thrown)
  BY DEF Above
<1>2. IsStack(stack) /\ stack # <<>> /\ Last(stack) = e /\ Front(stack) = b.m_builder
  BY StackPush DEF IsDecoder
<1> HIDE DEF c, stack
<1>3. IsDecoder(c)
  BY <1>1, <1>2, StateIsDecoder DEF IsDecoder
<1>4. c.m_buffer = s /\ c.m_builder = stack /\ c.replies = b.replies /\ c.thrown = b.thrown
  BY <1>1, StateFields
<1>5. ~c.thrown
  BY <1>4, Zenon
<1> QED
  BY <1>2, <1>3, <1>4, <1>5, Zenon DEF c, stack

\* When it is ready, its reply is accepted by those below.
LEMMA AboveReady ==
  ASSUME NEW b, IsDecoder(b), ~b.thrown, NEW s \in Seq(Byte), NEW e, IsBuilder(e),
         NEW rest \in Seq(Byte), NEW reply
  PROVE  Ready(Above(b, s, e), rest, reply) = Accepted(b, rest, reply)
<1> DEFINE c == Above(b, s, e)
           d == Ready(c, rest, reply)
<1>1. /\ IsDecoder(c) /\ ~c.thrown /\ c.m_buffer = s /\ c.replies = b.replies
      /\ c.m_builder # <<>> /\ Front(c.m_builder) = b.m_builder
  BY AboveIs
<1> HIDE DEF c
<1>2. /\ IsDecoder(d) /\ ~d.thrown /\ d.m_buffer = rest
      /\ IF b.m_builder = <<>>
         THEN d.m_builder = <<>> /\ d.replies = Append(b.replies, reply)
         ELSE d.replies = b.replies /\ d.m_builder = WithRow(b.m_builder, reply)
  <2>1. /\ IsDecoder(d) /\ ~d.thrown /\ d.m_buffer = rest
        /\ IF Front(c.m_builder) = <<>>
           THEN d.m_builder = <<>> /\ d.replies = Append(c.replies, reply)
           ELSE d.replies = c.replies /\ d.m_builder = WithRow(Front(c.m_builder), reply)
    BY <1>1, ReadyIs
  <2> HIDE DEF d
  <2> QED
    BY <1>1, <2>1
<1> HIDE DEF d
<1>3. d = Fields(d.m_buffer, d.m_builder, d.replies, d.thrown) /\ d.thrown = b.thrown
  <2>1. d.thrown \in BOOLEAN /\ b.thrown \in BOOLEAN
    BY <1>2 DEF IsDecoder
  <2>2. d.thrown = b.thrown
    BY <1>2, <2>1
  <2>3. d = Fields(d.m_buffer, d.m_builder, d.replies, d.thrown)
    BY <1>2 DEF IsDecoder
  <2> QED
    BY <2>2, <2>3
<1>4. CASE b.m_builder = <<>>
  <2>1. d = Fields(rest, <<>>, Append(b.replies, reply), b.thrown)
    BY <1>2, <1>3, <1>4, Zenon
  <2> QED
    BY <1>4, <2>1, Zenon DEF Accepted, d, c
<1>5. CASE b.m_builder # <<>>
  <2>1. d = Fields(rest, WithRow(b.m_builder, reply), b.replies, b.thrown)
    BY <1>2, <1>3, <1>5, Zenon
  <2> QED
    BY <1>5, <2>1, Zenon DEF Accepted, d, c
<1> QED
  BY <1>4, <1>5

\* A reply becomes the next row of the array on top.
LEMMA WithRowIs ==
  ASSUME NEW s, IsStack(s), NEW id, NEW size, NEW rows, NEW reply,
         IsBuilder([id |-> id, size |-> size, rows |-> rows])
  PROVE  WithRow(Append(s, [id |-> id, size |-> size, rows |-> rows]), reply)
           = Append(s, [id |-> id, size |-> size, rows |-> Append(rows, reply)])
<1> DEFINE d == [id |-> id, size |-> size, rows |-> rows]
           e == [id |-> id, size |-> size, rows |-> Append(rows, reply)]
<1>1. IsBuilder(e) /\ d.id = id /\ d.size = size /\ d.rows = rows
  BY DEF IsBuilder
<1>2. Last(Append(s, d)) = d
  BY StackPush
<1>3. e = [id |-> d.id, size |-> d.size, rows |-> Append(d.rows, reply)]
  BY <1>1
<1> HIDE DEF d, e
<1>4. WithRow(Append(s, d), reply) = [Append(s, d) EXCEPT ![Len(Append(s, d))] = e]
  BY <1>2, <1>3, Zenon DEF WithRow
<1>5. [Append(s, d) EXCEPT ![Len(Append(s, d))] = e] = Append(s, e)
  BY <1>1, StackTopIs DEF d
<1> QED
  BY <1>4, <1>5, Zenon DEF d, e

\* The builder of an id in front, and its line.
LEMMA ReadsLine ==
  ASSUME NEW b, Waiting(b), NEW id \in Ids, NEW l \in Seq(Byte), Ends(l) = {}, NEW rest \in Seq(Byte),
         b.m_buffer = (<<id>> \o EndLine(l)) \o rest
  PROVE  /\ EndLine(l) \o rest \in Seq(Byte)
         /\ Len(rest) < Len(EndLine(l) \o rest)
         /\ Reaches(b, Cut(Above(b, EndLine(l) \o rest, NewBuilder(id)), id, l, rest))
<1> DEFINE a == EndLine(l)
           s == a \o rest
           c == Above(b, s, NewBuilder(id))
<1>1. /\ a \in Seq(Byte) /\ Len(l) \in Nat /\ Len(a) = Len(l) + 2
      /\ Ends(a) # {} /\ Min(Ends(a)) = Len(l) + 1
      /\ SubSeq(a, 1, Len(l)) = l /\ Dropped(a, Len(l) + 2) = <<>>
  BY LineEnds
<1> HIDE DEF a
<1>2. s \in Seq(Byte) /\ Len(s) = Len(a) + Len(rest) /\ Len(rest) \in Nat
  BY <1>1, ConcatProperties, LenProperties
<1>3. <<id>> \in Seq(Byte) /\ <<id>> # <<>> /\ Head(<<id>>) = id /\ Tail(<<id>>) = <<>>
  <2>1. id \in Byte
    BY DEF Ids, Byte, SimpleString, Error, Number, BulkString, Array
  <2> QED
    BY <2>1
<1>4. b.m_buffer = <<id>> \o s
  BY <1>1, <1>3, ConcatAssociative DEF a
<1> HIDE DEF s
<1>5. b.m_buffer # <<>> /\ Head(b.m_buffer) = id /\ Tail(b.m_buffer) = s
  <2>1. <<id>> \o s # <<>> /\ Head(<<id>> \o s) = Head(<<id>>)
        /\ Tail(<<id>> \o s) = Tail(<<id>>) \o s
    BY <1>2, <1>3, ConcatHeadTail
  <2>2. <<>> \o s = s
    BY <1>2, ConcatEmptySeq
  <2> QED
    BY <1>3, <1>4, <2>1, <2>2, Zenon
<1>6. Build(b) = c
  <2>1. IsDecoder(b)
    BY DEF Waiting
  <2>2. CreateBuilder(b) = Fields(Tail(b.m_buffer), Append(b.m_builder, NewBuilder(Head(b.m_buffer))), b.replies, b.thrown)
    BY <1>5, <2>1, CreateIs
  <2>3. CreateBuilder(b) = c
    BY <1>5, <2>2, Zenon DEF Above
  <2>4. Build(b) = CreateBuilder(b)
    BY WaitingBuilds
  <2> QED
    BY <2>3, <2>4
<1>7. /\ c.m_buffer = s /\ ~c.thrown /\ c.m_builder # <<>> /\ Last(c.m_builder) = NewBuilder(id)
  <2>1. IsBuilder(NewBuilder(id)) /\ IsDecoder(b) /\ ~b.thrown
    BY DEF IsBuilder, NewBuilder, Waiting
  <2> QED
    BY <1>2, <2>1, AboveIs
<1> HIDE DEF c
<1>8. Build(c) = ReadLine(c, id)
  <2>1. NewBuilder(id).size = Unknown /\ NewBuilder(id).id = id
    BY DEF NewBuilder
  <2> QED
    BY <1>7, <2>1, Zenon DEF Build
<1>9. ReadLine(c, id) = Cut(c, id, l, rest)
  <2>1. ReadLine(c, id) = IF Ends(s) = {} THEN c
                          ELSE Cut(c, id, SubSeq(s, 1, Min(Ends(s)) - 1), Dropped(s, Min(Ends(s)) + 1))
    BY <1>7, Zenon DEF ReadLine, Cut
  <2>2. Ends(s) # {} /\ Min(Ends(s)) = Len(l) + 1
    BY <1>1, FirstEnd DEF s
  <2>3. (Len(l) + 1) - 1 = Len(l) /\ (Len(l) + 1) + 1 = Len(l) + 2 /\ Len(l) \in 0..Len(a)
        /\ Len(l) + 2 \in 0..Len(a)
    BY <1>1
  <2>4. SubSeq(s, 1, Len(l)) = l /\ Dropped(s, Len(l) + 2) = <<>> \o rest
    <3>1. \A n \in 0..Len(a) : SubSeq(a \o rest, 1, n) = SubSeq(a, 1, n)
          /\ Dropped(a \o rest, n) = Dropped(a, n) \o rest
      BY <1>1, ConcatFront
    <3>2. SubSeq(a \o rest, 1, Len(l)) = SubSeq(a, 1, Len(l))
      BY <2>3, <3>1, Zenon
    <3>3. Dropped(a \o rest, Len(l) + 2) = Dropped(a, Len(l) + 2) \o rest
      BY <2>3, <3>1, Zenon
    <3> QED
      BY <1>1, <3>2, <3>3, Zenon DEF s
  <2>5. <<>> \o rest = rest
    BY ConcatEmptySeq
  <2> QED
    BY <2>1, <2>2, <2>3, <2>4, <2>5, Zenon
<1>10. Reaches(b, Cut(c, id, l, rest))
  BY <1>6, <1>8, <1>9, ReachesBuild, ReachesOn, Zenon
<1>11. Len(rest) < Len(s)
  BY <1>1, <1>2
<1> QED
  BY <1>2, <1>10, <1>11 DEF s, c, a

\* A text or an error is read from its line.
LEMMA ReadsText ==
  ASSUME NEW id \in {SimpleString, Error}, NEW l \in Seq(Byte), Ends(l) = {}
  PROVE  Reads(<<id>> \o EndLine(l), [type |-> id, str |-> l])
<1> DEFINE bytes == <<id>> \o EndLine(l)
           reply == [type |-> id, str |-> l]
<1>1. bytes \in Seq(Byte) /\ id \in Ids
  <2>1. id \in Ids /\ id \in Byte
    BY DEF Ids, Byte, SimpleString, Error
  <2>2. <<id>> \in Seq(Byte) /\ EndLine(l) \in Seq(Byte)
    BY <2>1, LineEnds
  <2> QED
    BY <2>1, <2>2, ConcatProperties
<1>2. ASSUME NEW b, Waiting(b), NEW rest \in Seq(Byte), b.m_buffer = bytes \o rest
      PROVE  Reaches(b, Accepted(b, rest, reply))
  <2> DEFINE s == EndLine(l) \o rest
             c == Above(b, s, NewBuilder(id))
  <2>1. s \in Seq(Byte) /\ Reaches(b, Cut(c, id, l, rest))
    BY <1>1, <1>2, ReadsLine
  <2> HIDE DEF s
  <2>2. Cut(c, id, l, rest) = Ready(c, rest, reply)
    BY Zenon DEF Cut
  <2>3. IsBuilder(NewBuilder(id)) /\ IsDecoder(b) /\ ~b.thrown
    BY <1>2 DEF IsBuilder, NewBuilder, Waiting
  <2> HIDE DEF reply
  <2>4. Ready(c, rest, reply) = Accepted(b, rest, reply)
    BY <2>1, <2>3, AboveReady
  <2> QED
    BY <2>1, <2>2, <2>4, Zenon
<1> QED
  BY <1>1, <1>2, Zenon DEF Reads

\* A number is read from its digits.
LEMMA ReadsNumber ==
  ASSUME NEW n \in Int
  PROVE  Reads(<<Number>> \o EndLine(EncodedInt(n)), [type |-> Number, val |-> n])
<1> DEFINE l == EncodedInt(n)
           bytes == <<Number>> \o EndLine(l)
           reply == [type |-> Number, val |-> n]
<1>1. l \in Seq(Byte) /\ Ends(l) = {} /\ IsInteger(l) /\ Integer(l) = n
  BY IntLine
<1> HIDE DEF l
<1>2. bytes \in Seq(Byte) /\ Number \in Ids /\ Number \notin {SimpleString, Error}
  <2>1. Number \in Ids /\ Number \in Byte /\ Number \notin {SimpleString, Error}
    BY DEF Ids, Byte, SimpleString, Error, Number
  <2>2. <<Number>> \in Seq(Byte) /\ EndLine(l) \in Seq(Byte)
    BY <1>1, <2>1, LineEnds
  <2> QED
    BY <2>1, <2>2, ConcatProperties
<1>3. ASSUME NEW b, Waiting(b), NEW rest \in Seq(Byte), b.m_buffer = bytes \o rest
      PROVE  Reaches(b, Accepted(b, rest, reply))
  <2> DEFINE s == EndLine(l) \o rest
             c == Above(b, s, NewBuilder(Number))
  <2>1. s \in Seq(Byte) /\ Reaches(b, Cut(c, Number, l, rest))
    BY <1>1, <1>2, <1>3, ReadsLine
  <2> HIDE DEF s
  <2>2. Cut(c, Number, l, rest) = Ready(c, rest, reply)
    BY <1>1, <1>2, Zenon DEF Cut
  <2>3. IsBuilder(NewBuilder(Number)) /\ IsDecoder(b) /\ ~b.thrown
    BY <1>3 DEF IsBuilder, NewBuilder, Waiting
  <2> HIDE DEF reply
  <2>4. Ready(c, rest, reply) = Accepted(b, rest, reply)
    BY <2>1, <2>3, AboveReady
  <2> QED
    BY <2>1, <2>2, <2>4, Zenon
<1> QED
  BY <1>2, <1>3, Zenon DEF Reads, l

\* A line that is the size of what follows.
LEMMA ReadsSize ==
  ASSUME NEW b, Waiting(b), NEW id \in {BulkString, Array}, NEW n \in Nat, NEW rest \in Seq(Byte),
         b.m_buffer = (<<id>> \o EndLine(EncodedInt(n))) \o rest
  PROVE  Reaches(b, Above(b, rest, [id |-> id, size |-> <<n>>, rows |-> <<>>]))
<1> DEFINE l == EncodedInt(n)
           s == EndLine(l) \o rest
           c == Above(b, s, NewBuilder(id))
           e == [id |-> id, size |-> <<n>>, rows |-> <<>>]
<1>1. n \in Int /\ l \in Seq(Byte) /\ Ends(l) = {} /\ IsInteger(l) /\ Integer(l) = n
  BY IntLine
<1>2. id \in Ids /\ id \notin {SimpleString, Error} /\ id # Number /\ ~(id = BulkString
      /\ n = -1) /\ ~(id = Array /\ n < 0)
  BY DEF Ids, SimpleString, Error, Number, BulkString, Array
<1> HIDE DEF l
<1>3. s \in Seq(Byte) /\ Reaches(b, Cut(c, id, l, rest))
  BY <1>1, <1>2, ReadsLine DEF l
<1> HIDE DEF s
<1>4. Cut(c, id, l, rest) = Sized(c, rest, n)
  BY <1>1, <1>2, Zenon DEF Cut
<1>5. IsBuilder(NewBuilder(id)) /\ IsBuilder(e) /\ IsDecoder(b) /\ ~b.thrown
  BY <1>1 DEF IsBuilder, NewBuilder, Waiting
<1>6. c.m_builder = Append(b.m_builder, NewBuilder(id)) /\ Last(c.m_builder) = NewBuilder(id)
      /\ c = Fields(s, c.m_builder, b.replies, b.thrown)
  <2>1. c.m_builder = Append(b.m_builder, NewBuilder(id)) /\ Last(c.m_builder) = NewBuilder(id)
    BY <1>3, <1>5, AboveIs
  <2>2. c = Fields(s, Append(b.m_builder, NewBuilder(id)), b.replies, b.thrown)
    BY DEF Above
  <2> HIDE DEF c
  <2> QED
    BY <2>1, <2>2
<1> HIDE DEF c
<1>7. WithSize(NewBuilder(id), <<n>>) = e
  <2>1. NewBuilder(id).id = id /\ NewBuilder(id).rows = <<>>
    BY DEF NewBuilder
  <2> QED
    BY <1>5, <2>1, BuilderUpdates
<1> HIDE DEF e
<1>8. Sized(c, rest, n)
        = WithBuilder(c, rest, [c.m_builder EXCEPT ![Len(c.m_builder)] = WithSize(c.m_builder[Len(c.m_builder)], <<n>>)])
  BY Zenon DEF Sized, WithBuilder, WithSize
<1>9. [c.m_builder EXCEPT ![Len(c.m_builder)] = WithSize(c.m_builder[Len(c.m_builder)], <<n>>)] = Append(b.m_builder, e)
  <2>1. WithSize(c.m_builder[Len(c.m_builder)], <<n>>) = e
    BY <1>6, <1>7, Zenon DEF Last
  <2> DEFINE r == Append(b.m_builder, NewBuilder(id))
  <2>2. [r EXCEPT ![Len(r)] = e] = Append(b.m_builder, e)
    BY <1>5, StackTopIs DEF IsDecoder
  <2> QED
    BY <1>6, <2>1, <2>2, Zenon
<1> DEFINE stack == Append(b.m_builder, e)
<1>10. Sized(c, rest, n) = WithBuilder(c, rest, stack)
  BY <1>8, <1>9, Zenon
<1> HIDE DEF stack
<1>11. Sized(c, rest, n) = Fields(rest, stack, b.replies, b.thrown)
  BY <1>6, <1>10, BuilderUpdate
<1>12. Sized(c, rest, n) = Above(b, rest, e)
  BY <1>11, Zenon DEF Above, stack
<1> QED
  BY <1>3, <1>4, <1>12, Zenon DEF e

\* A bulk string of size -1 is nothing.
LEMMA ReadsNull ==
  Reads(<<BulkString>> \o EndLine(EncodedInt(-1)), [type |-> BulkString, str |-> <<>>, is_null |-> TRUE])
<1> DEFINE l == EncodedInt(-1)
           bytes == <<BulkString>> \o EndLine(l)
           reply == [type |-> BulkString, str |-> <<>>, is_null |-> TRUE]
<1>1. l \in Seq(Byte) /\ Ends(l) = {} /\ IsInteger(l) /\ Integer(l) = -1
  BY IntLine
<1> HIDE DEF l
<1>2. bytes \in Seq(Byte) /\ BulkString \in Ids /\ BulkString \notin {SimpleString, Error}
      /\ BulkString # Number
  <2>1. BulkString \in Ids /\ BulkString \in Byte /\ BulkString \notin {SimpleString, Error}
        /\ BulkString # Number
    BY DEF Ids, Byte, SimpleString, Error, Number, BulkString
  <2>2. <<BulkString>> \in Seq(Byte) /\ EndLine(l) \in Seq(Byte)
    BY <1>1, <2>1, LineEnds
  <2> QED
    BY <2>1, <2>2, ConcatProperties
<1>3. ASSUME NEW b, Waiting(b), NEW rest \in Seq(Byte), b.m_buffer = bytes \o rest
      PROVE  Reaches(b, Accepted(b, rest, reply))
  <2> DEFINE s == EndLine(l) \o rest
             c == Above(b, s, NewBuilder(BulkString))
  <2>1. s \in Seq(Byte) /\ Reaches(b, Cut(c, BulkString, l, rest))
    BY <1>1, <1>2, <1>3, ReadsLine
  <2> HIDE DEF s
  <2>2. Cut(c, BulkString, l, rest) = Ready(c, rest, reply)
    BY <1>1, <1>2, Zenon DEF Cut
  <2>3. IsBuilder(NewBuilder(BulkString)) /\ IsDecoder(b) /\ ~b.thrown
    BY <1>3 DEF IsBuilder, NewBuilder, Waiting
  <2> HIDE DEF reply
  <2>4. Ready(c, rest, reply) = Accepted(b, rest, reply)
    BY <2>1, <2>3, AboveReady
  <2> QED
    BY <2>1, <2>2, <2>4, Zenon
<1> QED
  BY <1>2, <1>3, Zenon DEF Reads, l

\* A text of any bytes: its size says where it ends.
LEMMA ReadsBulk ==
  ASSUME NEW str \in Seq(Byte)
  PROVE  Reads(<<BulkString>> \o (EndLine(EncodedInt(Len(str))) \o EndLine(str)),
               [type |-> BulkString, str |-> str, is_null |-> FALSE])
<1> DEFINE n == Len(str)
           size == EndLine(EncodedInt(n))
           text == EndLine(str)
           bytes == <<BulkString>> \o (size \o text)
           e == [id |-> BulkString, size |-> <<n>>, rows |-> <<>>]
           reply == [type |-> BulkString, str |-> str, is_null |-> FALSE]
<1>1. n \in Nat /\ size \in Seq(Byte)
  <2>1. n \in Nat
    BY LenProperties
  <2>2. EncodedInt(n) \in Seq(Byte) /\ Ends(EncodedInt(n)) = {}
    BY <2>1, IntLine
  <2> HIDE DEF n
  <2> QED
    BY <2>1, <2>2, LineEnds
<1> HIDE DEF size
<1>2. /\ text \in Seq(Byte) /\ Len(text) = n + 2 /\ text[n + 1] = CR /\ text[n + 2] = LF
      /\ SubSeq(text, 1, n) = str /\ Dropped(text, n + 2) = <<>>
  <2> DEFINE d == <<CR, LF>>
  <2>1. d \in Seq(Byte) /\ Len(d) = 2 /\ d[1] = CR /\ d[2] = LF
    <3>1. CR \in Byte /\ LF \in Byte
      BY DEF Byte, CR, LF
    <3> QED
      BY <3>1
  <2> HIDE DEF d
  <2>2. text = str \o d
    BY DEF EndLine, d
  <2>3. /\ str \o d \in Seq(Byte) /\ Len(str \o d) = Len(str) + Len(d)
        /\ \A i \in 1..Len(str) + Len(d) : (str \o d)[i] = IF i <= Len(str) THEN str[i] ELSE d[i - Len(str)]
    BY <2>1, ConcatProperties
  <2>4. n \in 0..Len(str) /\ n = Len(str)
    BY <1>1
  <2>5. SubSeq(str \o d, 1, n) = SubSeq(str, 1, n)
    BY <2>1, <2>4, ConcatFront
  <2>6. SubSeq(str, 1, n) = str
    BY SubSeqFull
  <2> HIDE DEF text, n
  <2>7. text \in Seq(Byte) /\ Len(text) = n + 2
    BY <2>1, <2>2, <2>3, <2>4
  <2>8. text[n + 1] = CR /\ text[n + 2] = LF
    <3>1. n + 1 \in 1..n + 2 /\ n + 2 \in 1..n + 2 /\ ~(n + 1 <= n) /\ ~(n + 2 <= n)
          /\ (n + 1) - n = 1 /\ (n + 2) - n = 2
      BY <1>1
    <3> QED
      BY <2>1, <2>2, <2>3, <2>4, <3>1
  <2>9. Dropped(text, n + 2) = <<>>
    <3>1. n + 2 \in 0..Len(text)
      BY <1>1, <2>7
    <3>2. Dropped(text, n + 2) \in Seq(Byte) /\ Len(Dropped(text, n + 2)) = Len(text) - (n + 2)
      BY <2>7, <3>1, DroppedIs
    <3>3. Len(Dropped(text, n + 2)) = 0
      BY <1>1, <2>7, <3>2
    <3> QED
      BY <3>2, <3>3, EmptySeq
  <2> QED
    BY <2>2, <2>5, <2>6, <2>7, <2>8, <2>9
<1> HIDE DEF text
<1>3. <<BulkString>> \in Seq(Byte)
  <2>1. BulkString \in Byte
    BY DEF Byte, BulkString
  <2> QED
    BY <2>1
<1>4. bytes \in Seq(Byte)
  BY <1>1, <1>2, <1>3, ConcatProperties
<1>5. ASSUME NEW b, Waiting(b), NEW rest \in Seq(Byte), b.m_buffer = bytes \o rest
      PROVE  Reaches(b, Accepted(b, rest, reply))
  <2> DEFINE s == text \o rest
             c == Above(b, s, e)
  <2>1. s \in Seq(Byte)
    BY <1>2, ConcatProperties
  <2>2. b.m_buffer = (<<BulkString>> \o size) \o s
    <3> DEFINE id == <<BulkString>>
    <3>1. id \in Seq(Byte) /\ size \in Seq(Byte) /\ text \in Seq(Byte)
      BY <1>1, <1>2, <1>3
    <3> HIDE DEF id
    <3> HIDE DEF size
    <3>5. \A y, z \in Seq(Byte) : (id \o y) \o z = id \o (y \o z)
      BY <3>1, BytesAssociate, Zenon
    <3>6. \A z \in Seq(Byte) : (id \o size) \o z = id \o (size \o z)
      BY <3>1, <3>5, Zenon
    <3>2. (id \o size) \o text = id \o (size \o text)
      BY <3>1, <3>6, Zenon
    <3> DEFINE front == id \o size
    <3>3. front \in Seq(Byte)
      BY <3>1, ConcatProperties
    <3> HIDE DEF front
    <3>4. (front \o text) \o rest = front \o (text \o rest)
      BY <3>1, <3>3, BytesAssociate, Zenon
    <3> QED
      BY <1>5, <3>2, <3>4, Zenon DEF id, front
  <2>3. Reaches(b, c)
    BY <1>1, <1>5, <2>1, <2>2, ReadsSize DEF size
  <2>4. IsBuilder(e) /\ e.size = <<n>> /\ e.id = BulkString /\ e.size # Unknown /\ e.size[1] = n
        /\ n \in Int
    BY <1>1 DEF IsBuilder, Unknown
  <2>5. IsDecoder(b) /\ ~b.thrown
    BY <1>5 DEF Waiting
  <2> HIDE DEF e, s, n
  <2>6. c.m_buffer = s /\ ~c.thrown /\ c.m_builder # <<>> /\ Last(c.m_builder) = e
    BY <2>1, <2>4, <2>5, AboveIs
  <2>7. Ready(c, rest, reply) = Accepted(b, rest, reply)
    <3> HIDE DEF reply
    <3> QED
      BY <2>1, <2>4, <2>5, AboveReady
  <2> HIDE DEF c
  <2>8. Build(c) = ReadText(c, n)
    BY <2>4, <2>6, Zenon DEF Build
  <2>9. /\ ~(n = -2) /\ ~(n < 0 \/ Len(s) < n + 2) /\ s[n + 1] = CR /\ s[n + 2] = LF
        /\ SubSeq(s, 1, n) = str /\ Dropped(s, n + 2) = rest
    <3>1. /\ Len(s) = Len(text) + Len(rest) /\ Len(rest) \in Nat
          /\ \A i \in 1..Len(text) + Len(rest) : s[i] = IF i <= Len(text) THEN text[i] ELSE rest[i - Len(text)]
      BY <1>2, ConcatProperties, LenProperties DEF s
    <3>2. n + 1 \in 1..Len(text) + Len(rest) /\ n + 2 \in 1..Len(text) + Len(rest)
          /\ n + 1 <= Len(text) /\ n + 2 <= Len(text)
          /\ n \in 0..Len(text) /\ n + 2 \in 0..Len(text)
      BY <1>1, <1>2, <3>1
    <3>3. \A i \in 0..Len(text) : SubSeq(text \o rest, 1, i) = SubSeq(text, 1, i)
          /\ Dropped(text \o rest, i) = Dropped(text, i) \o rest
      BY <1>2, FrontOfBytes
    <3>4. SubSeq(s, 1, n) = SubSeq(text, 1, n) /\ Dropped(s, n + 2) = Dropped(text, n + 2) \o rest
      BY <3>2, <3>3, Zenon DEF s
    <3>5. <<>> \o rest = rest
      BY ConcatEmptySeq
    <3>6. ~(n = -2) /\ ~(n < 0 \/ Len(s) < n + 2)
      BY <1>1, <1>2, <3>1
    <3>7. s[n + 1] = CR /\ s[n + 2] = LF
      BY <1>2, <3>1, <3>2
    <3> QED
      BY <1>2, <3>4, <3>5, <3>6, <3>7, Zenon
  <2>10. ReadText(c, n) = Ready(c, rest, reply)
    BY <2>6, <2>9, Zenon DEF ReadText
  <2> QED
    BY <2>3, <2>7, <2>8, <2>10, ReachesBuild, ReachesOn, Zenon
<1> QED
  BY <1>4, <1>5, Zenon DEF Reads, size, text

\* R[j] is what follows the first j sequences.
LEMMA FlattenRest ==
  ASSUME NEW e \in Seq(Seq(Byte))
  PROVE  \E R \in [0..Len(e) -> Seq(Byte)] :
           /\ R[0] = FlattenSeq(e) /\ R[Len(e)] = <<>>
           /\ \A j \in 1..Len(e) : R[j - 1] = e[j] \o R[j]
           /\ \A j \in 0..Len(e) : FlattenSeq(e) = FlattenSeq(SubSeq(e, 1, j)) \o R[j]
<1> DEFINE S == Seq(Byte)
           n == Len(e)
           prev == [i \in Nat |-> IF i = 0 THEN 0 ELSE i - 1]
           base == [i \in Nat |-> <<>>]
           step == [i \in Nat |-> [t \in S |-> IF i \in 1..n THEN e[n + 1 - i] \o t ELSE <<>>]]
<1>1. n \in Nat /\ (\A i \in 1..n : e[i] \in S) /\ <<>> \in S
  BY LenProperties, ElementOfSeq, EmptySeq
<1>2. \A s, t \in S : s \o t \in S
  BY ConcatProperties
<1> DEFINE F == [j \in 0..n |-> FlattenSeq(SubSeq(e, 1, j))]
<1>3. \A j \in 0..n : F[j] = FlattenSeq(SubSeq(e, 1, j))
  OBVIOUS
<1>4. F[0] = <<>> /\ (\A i \in 0..n : F[i] \in S) /\ \A j \in 1..n : F[j] = F[j - 1] \o e[j]
  <2>1. 0 \in 0..n /\ \A j \in 1..n : j \in 0..n /\ j - 1 \in 0..n
    BY <1>1
  <2>2. /\ FlattenSeq(SubSeq(e, 1, 0)) = <<>>
        /\ \A k \in 0..n : FlattenSeq(SubSeq(e, 1, k)) \in S
        /\ \A k \in 1..n : FlattenSeq(SubSeq(e, 1, k)) = FlattenSeq(SubSeq(e, 1, k - 1)) \o e[k]
    BY FlattenIs
  <2> HIDE DEF F
  <2> QED
    BY <1>3, <2>1, <2>2
<1>5. F[n] = FlattenSeq(e)
  <2>1. SubSeq(e, 1, n) = e
    BY SubSeqFull
  <2>2. n \in 0..n
    BY <1>1
  <2>3. F[n] = FlattenSeq(SubSeq(e, 1, n))
    BY <1>3, <2>2, Zenon
  <2> QED
    BY <2>1, <2>3, Zenon
<1> HIDE DEF F
<1> HIDE DEF n, S
<1>6. \A i \in 1..n : n + 1 - i \in 1..n
  BY <1>1
<1>7. prev \in [Nat -> Nat] /\ base \in [Nat -> S] /\ step \in [Nat -> [S -> S]]
  <2>1. \A i \in Nat : \A t \in S : (IF i \in 1..n THEN e[n + 1 - i] \o t ELSE <<>>) \in S
    BY <1>1, <1>2, <1>6
  <2> QED
    BY <1>1, <2>1
<1>8. base[0] = <<>> /\ prev[0] = 0
  OBVIOUS
<1>9. (\A i \in 1..n : prev[i] = i - 1)
      /\ \A i \in 1..n : \A t \in S : step[i][t] = e[n + 1 - i] \o t
  <2>1. \A i \in 1..n : prev[i] = i - 1
    OBVIOUS
  <2>2. \A i \in 1..n : \A t \in S : step[i][t] = e[n + 1 - i] \o t
    BY DEF step
  <2> QED
    BY <2>1, <2>2
<1> HIDE DEF prev, base, step
<1>10. PICK g \in [Nat -> S] : Computes(g, prev, base, step)
  BY <1>7, Recursion, Zenon
<1>11. g[0] = <<>>
  BY <1>8, <1>10 DEF Computes
<1>12. ASSUME NEW i \in 1..n PROVE g[i] = e[n + 1 - i] \o g[i - 1]
  <2>1. i \in Nat /\ i - 1 \in Nat /\ prev[i] = i - 1 /\ prev[i] < i
    BY <1>9
  <2>2. g[i] = step[i][g[i - 1]] /\ g[i - 1] \in S
    BY <1>10, <2>1 DEF Computes
  <2> QED
    BY <1>9, <2>2
<1> DEFINE R == [j \in 0..n |-> g[n - j]]
<1>13. R \in [0..n -> S] /\ R[n] = <<>> /\ R[0] = g[n]
  <2>1. \A j \in 0..n : n - j \in Nat
    BY <1>1
  <2>2. n \in 0..n /\ 0 \in 0..n /\ n - n = 0 /\ n - 0 = n
    BY <1>1
  <2>3. R[n] = g[0] /\ R[0] = g[n]
    <3>1. R[n] = g[n - n] /\ R[0] = g[n - 0]
      BY <2>2
    <3> HIDE DEF R
    <3> QED
      BY <2>2, <3>1
  <2> QED
    BY <1>11, <2>1, <2>3
<1>14. ASSUME NEW j \in 1..n PROVE R[j - 1] = e[j] \o R[j]
  <2> DEFINE i == n + 1 - j
  <2>1. i \in 1..n /\ n + 1 - i = j /\ n - (j - 1) = i /\ n - j = i - 1 /\ j - 1 \in 0..n
        /\ j \in 0..n
    BY <1>1
  <2>2. R[j - 1] = g[n - (j - 1)] /\ R[j] = g[n - j]
    BY <2>1
  <2> HIDE DEF i, R
  <2>3. g[i] = e[n + 1 - i] \o g[i - 1]
    BY <1>12, <2>1
  <2> QED
    BY <2>1, <2>2, <2>3
<1> HIDE DEF R
<1>15. \A j \in 0..n : F[n] = F[j] \o R[j]
  <2> DEFINE T == {i \in 0..n : F[n] # F[n - i] \o R[n - i]}
  <2>1. T = {}
    <3> SUFFICES ASSUME T # {} PROVE FALSE
      OBVIOUS
    <3>1. PICK i \in T : \A k \in T : i <= k
      <4>1. T \subseteq Nat
        <5>1. \A k \in 0..n : k \in Nat
          OBVIOUS
        <5>2. T \subseteq 0..n
          BY Zenon
        <5> QED
          BY <5>1, <5>2, Zenon
      <4> HIDE DEF T
      <4> QED
        BY <4>1, LeastNat
    <3>2. i \in 0..n /\ F[n] # F[n - i] \o R[n - i]
      OBVIOUS
    <3>3. i # 0
      <4> SUFFICES ASSUME i = 0 PROVE FALSE
        OBVIOUS
      <4>1. n - i = n /\ n \in 0..n
        BY <1>1
      <4>2. F[n] \in S
        BY <1>4, <4>1
      <4>3. F[n] \o <<>> = F[n]
        BY <4>2, ConcatEmptySeq DEF S
      <4> QED
        BY <1>13, <3>2, <4>1, <4>3
    <3> DEFINE j == n - i
               k == i - 1
    <3>4. k \in 0..n /\ ~(i <= k) /\ n - k = j + 1 /\ j + 1 \in 1..n /\ j \in 0..n
          /\ (j + 1) - 1 = j /\ j + 1 \in 0..n
      BY <1>1, <3>2, <3>3
    <3>5. F[n] = F[n - k] \o R[n - k]
      BY <3>1, <3>4
    <3> DEFINE m == j + 1
    <3>6. F[n] = F[m] \o R[m]
      BY <3>4, <3>5
    <3>7. F[m] = F[j] \o e[m]
      BY <1>4, <3>4
    <3>8. R[j] = e[m] \o R[m]
      BY <1>14, <3>4
    <3>9. F[j] \in S /\ e[m] \in S /\ R[m] \in S
      BY <1>1, <1>4, <1>13, <3>4
    <3> HIDE DEF T, m, k
    <3>10. (F[j] \o e[m]) \o R[m] = F[j] \o (e[m] \o R[m])
      <4> DEFINE x == F[j]
                 y == e[m]
                 z == R[m]
      <4>1. x \in Seq(Byte) /\ y \in Seq(Byte) /\ z \in Seq(Byte)
        BY <3>9 DEF S
      <4> HIDE DEF x, y, z
      <4>2. (x \o y) \o z = x \o (y \o z)
        BY <4>1, ConcatAssociative
      <4> QED
        BY <4>2 DEF x, y, z
    <3> QED
      BY <3>2, <3>6, <3>7, <3>8, <3>10
  <2>2. ASSUME NEW j \in 0..n PROVE F[n] = F[j] \o R[j]
    <3>1. n - j \in 0..n /\ n - (n - j) = j
      BY <1>1
    <3>2. F[n] = F[n - (n - j)] \o R[n - (n - j)]
      BY <2>1, <3>1
    <3> QED
      BY <3>1, <3>2
  <2> QED
    BY <2>2
<1>16. R[0] = FlattenSeq(e)
  <2>1. 0 \in 0..n
    BY <1>1
  <2>2. F[n] = <<>> \o R[0] /\ R[0] \in S
    BY <1>4, <1>13, <1>15, <2>1
  <2>3. <<>> \o R[0] = R[0]
    BY <2>2, ConcatEmptySeq DEF S
  <2> QED
    BY <1>5, <2>2, <2>3
<1> QED
  <2>1. \A j \in 0..n : FlattenSeq(e) = FlattenSeq(SubSeq(e, 1, j)) \o R[j]
    BY <1>3, <1>5, <1>15
  <2> QED
    BY <1>13, <1>14, <1>16, <2>1 DEF S, n

\* A decoder with the builder of an array of n rows, of which it has some.
Collecting(b, s, n, rows) == Above(b, s, [id |-> Array, size |-> <<n>>, rows |-> rows])

\* It takes the next reply as a row.
LEMMA CollectsRow ==
  ASSUME NEW b, IsDecoder(b), ~b.thrown, NEW n \in Nat, NEW rows, Len(rows) \in Nat, Len(rows) < n,
         NEW bytes, NEW reply, Reads(bytes, reply), NEW s \in Seq(Byte)
  PROVE  Reaches(Collecting(b, bytes \o s, n, rows), Collecting(b, s, n, Append(rows, reply)))
<1> DEFINE e == [id |-> Array, size |-> <<n>>, rows |-> rows]
           d == [id |-> Array, size |-> <<n>>, rows |-> Append(rows, reply)]
           t == bytes \o s
           c == Above(b, t, e)
<1>1. IsBuilder(e) /\ e.id = Array /\ e.size = <<n>> /\ e.rows = rows
  BY DEF IsBuilder
<1>2. e.size # Unknown /\ e.id # BulkString /\ <<Len(e.rows)>> # e.size
  BY <1>1 DEF Unknown, Array, BulkString
<1>3. bytes \in Seq(Byte) /\ t \in Seq(Byte)
  <2>1. bytes \in Seq(Byte)
    BY DEF Reads
  <2> QED
    BY <2>1, ConcatProperties
<1>4. WithRow(Append(b.m_builder, e), reply) = Append(b.m_builder, d)
  <2>1. IsStack(b.m_builder)
    BY DEF IsDecoder
  <2> DEFINE stack == b.m_builder
             size == <<n>>
             id == Array
  <2>2. IsStack(stack) /\ IsBuilder([id |-> id, size |-> size, rows |-> rows])
    BY <1>1, <2>1
  <2>3. e = [id |-> id, size |-> size, rows |-> rows]
        /\ d = [id |-> id, size |-> size, rows |-> Append(rows, reply)]
    OBVIOUS
  <2> HIDE DEF stack, size, id, e, d
  <2>4. WithRow(Append(stack, [id |-> id, size |-> size, rows |-> rows]), reply)
          = Append(stack, [id |-> id, size |-> size, rows |-> Append(rows, reply)])
    BY <2>2, WithRowIs
  <2> QED
    BY <2>3, <2>4, Zenon DEF stack
<1>5. c = Fields(t, Append(b.m_builder, e), b.replies, b.thrown)
  BY DEF Above
<1> HIDE DEF e, t, c
<1>6. /\ IsDecoder(c) /\ ~c.thrown /\ c.m_buffer = t
      /\ c.m_builder = Append(b.m_builder, e) /\ c.m_builder # <<>> /\ Last(c.m_builder) = e
  BY <1>1, <1>3, AboveIs DEF c
<1>7. Waiting(c)
  BY <1>2, <1>6, Zenon DEF Waiting
<1>8. Reaches(c, Accepted(c, s, reply))
  BY <1>6, <1>7, Zenon DEF Reads, t
<1>9. c.replies = b.replies /\ c.thrown = b.thrown
  BY <1>5, StateFields
<1>10. Accepted(c, s, reply) = Fields(s, WithRow(c.m_builder, reply), c.replies, c.thrown)
  BY <1>6, Zenon DEF Accepted
<1>11. Accepted(c, s, reply) = Above(b, s, d)
  BY <1>4, <1>6, <1>9, <1>10, Zenon DEF Above
<1> QED
  BY <1>8, <1>11, Zenon DEF Collecting, c, e, t

\* With its last row it is a reply.
LEMMA CollectsAll ==
  ASSUME NEW b, IsDecoder(b), ~b.thrown, NEW n \in Nat, NEW rows, Len(rows) = n, NEW s \in Seq(Byte)
  PROVE  Reaches(Collecting(b, s, n, rows), Accepted(b, s, [type |-> Array, rows |-> rows]))
<1> DEFINE e == [id |-> Array, size |-> <<n>>, rows |-> rows]
           reply == [type |-> Array, rows |-> rows]
           c == Above(b, s, e)
<1>1. IsBuilder(e) /\ e.id = Array /\ e.size = <<n>> /\ e.rows = rows
  BY DEF IsBuilder
<1>2. e.size # Unknown /\ e.id # BulkString /\ <<Len(e.rows)>> = e.size
  BY <1>1 DEF Unknown, Array, BulkString
<1> HIDE DEF e
<1>3. ~c.thrown /\ c.m_buffer = s /\ c.m_builder # <<>> /\ Last(c.m_builder) = e
  BY <1>1, AboveIs
<1>4. Ready(c, s, reply) = Accepted(b, s, reply)
  <2> HIDE DEF reply
  <2> QED
    BY <1>1, AboveReady
<1> HIDE DEF c
<1>5. Build(c) = Ready(c, s, reply)
  BY <1>1, <1>2, <1>3, Zenon DEF Build
<1> QED
  BY <1>4, <1>5, ReachesBuild, Zenon DEF Collecting, c, e

\* The rows are read one after the other.
LEMMA ReadsArray ==
  ASSUME NEW T, NEW rows \in Seq(T), NEW e \in Seq(Seq(Byte)), Len(e) = Len(rows),
         \A i \in 1..Len(rows) : Reads(e[i], rows[i])
  PROVE  Reads((<<Array>> \o EndLine(EncodedInt(Len(rows)))) \o FlattenSeq(e), [type |-> Array, rows |-> rows])
<1> DEFINE n == Len(rows)
           front == <<Array>> \o EndLine(EncodedInt(n))
           all == FlattenSeq(e)
           reply == [type |-> Array, rows |-> rows]
<1>1. n \in Nat
  BY LenProperties
<1>2. PICK R \in [0..n -> Seq(Byte)] : R[0] = all /\ R[n] = <<>>
      /\ \A j \in 1..n : R[j - 1] = e[j] \o R[j]
  <2>1. PICK R \in [0..Len(e) -> Seq(Byte)] :
          /\ R[0] = FlattenSeq(e) /\ R[Len(e)] = <<>>
          /\ \A j \in 1..Len(e) : R[j - 1] = e[j] \o R[j]
    BY FlattenRest, Zenon
  <2>2. Len(e) = n
    OBVIOUS
  <2> HIDE DEF n
  <2>3. R \in [0..n -> Seq(Byte)] /\ R[0] = all /\ R[n] = <<>> /\ \A j \in 1..n : R[j - 1] = e[j] \o R[j]
    BY <2>1, <2>2, Zenon
  <2> QED
    BY <2>3, Zenon
<1>3. /\ SubSeq(rows, 1, 0) = <<>> /\ SubSeq(rows, 1, n) = rows
      /\ \A j \in 0..n : Len(SubSeq(rows, 1, j)) = j
      /\ \A j \in 1..n : SubSeq(rows, 1, j) = Append(SubSeq(rows, 1, j - 1), rows[j])
  <2>1. SubSeq(rows, 1, n) = rows
    BY SubSeqFull
  <2>2. \A j \in 0..n : SubSeq(rows, 1, j) \in Seq(T) /\ Len(SubSeq(rows, 1, j)) = j
        /\ \A i \in 1..j : SubSeq(rows, 1, j)[i] = rows[i]
    BY ConcatFront
  <2>3. SubSeq(rows, 1, 0) = <<>>
    BY <1>1, <2>2, EmptySeq
  <2>4. ASSUME NEW j \in 1..n PROVE SubSeq(rows, 1, j) = Append(SubSeq(rows, 1, j - 1), rows[j])
    <3> DEFINE a == SubSeq(rows, 1, j)
               p == SubSeq(rows, 1, j - 1)
               q == Append(p, rows[j])
    <3>1. j \in 0..n /\ j - 1 \in 0..n /\ j \in Nat /\ (j - 1) + 1 = j
      BY <1>1
    <3>2. a \in Seq(T) /\ Len(a) = j /\ \A i \in 1..j : a[i] = rows[i]
      BY <2>2, <3>1
    <3>3. p \in Seq(T) /\ Len(p) = j - 1 /\ \A i \in 1..j - 1 : p[i] = rows[i]
      BY <2>2, <3>1
    <3>4. rows[j] \in T
      BY ElementOfSeq
    <3> HIDE DEF a, p
    <3>5. q \in Seq(T) /\ Len(q) = j /\ (\A i \in 1..j - 1 : q[i] = p[i]) /\ q[j] = rows[j]
      BY <3>1, <3>3, <3>4, AppendProperties
    <3> HIDE DEF q
    <3>6. \A i \in 1..j : i \in 1..j - 1 \/ i = j
      BY <3>1
    <3>7. \A i \in 1..j : a[i] = q[i]
      BY <3>2, <3>3, <3>5, <3>6
    <3>8. a = q
      BY <3>2, <3>5, <3>7, SeqEqual
    <3> QED
      BY <3>8 DEF a, q, p
  <2> QED
    BY <2>1, <2>2, <2>3, <2>4
<1>4. front \in Seq(Byte) /\ all \in Seq(Byte)
  <2>1. Array \in Byte
    BY DEF Byte, Array
  <2>2. EncodedInt(n) \in Seq(Byte) /\ Ends(EncodedInt(n)) = {}
    BY <1>1, IntLine
  <2> HIDE DEF n, all
  <2>3. EndLine(EncodedInt(n)) \in Seq(Byte) /\ <<Array>> \in Seq(Byte)
    BY <2>1, <2>2, LineEnds
  <2>4. 0 \in 0..n
    BY <1>1
  <2> QED
    BY <1>2, <2>3, <2>4, ConcatProperties
<1> HIDE DEF all
<1>5. ASSUME NEW b, Waiting(b), NEW rest \in Seq(Byte), b.m_buffer = (front \o all) \o rest
      PROVE  Reaches(b, Accepted(b, rest, reply))
  <2> DEFINE D(j) == Collecting(b, R[j] \o rest, n, SubSeq(rows, 1, j))
  <2>1. \A j \in 0..n : R[j] \in Seq(Byte) /\ R[j] \o rest \in Seq(Byte)
    BY <1>2, ConcatProperties
  <2>2. IsDecoder(b) /\ ~b.thrown
    BY <1>5 DEF Waiting
  <2>3. 0 \in 0..n /\ n \in 0..n
    BY <1>1
  <2>4. Reaches(b, D(0))
    <3> DEFINE s == all \o rest
    <3>1. s \in Seq(Byte)
      BY <1>2, <2>1, <2>3
    <3>2. b.m_buffer = front \o s
      <4> HIDE DEF front
      <4>1. (front \o all) \o rest = front \o (all \o rest)
        BY <1>4, ConcatAssociative
      <4> QED
        BY <1>5, <4>1
    <3> HIDE DEF s, n
    <3>3. Array \in {BulkString, Array}
      OBVIOUS
    <3>4. Reaches(b, Above(b, s, [id |-> Array, size |-> <<n>>, rows |-> <<>>]))
      BY <1>1, <1>5, <3>1, <3>2, <3>3, ReadsSize
    <3> QED
      BY <1>2, <1>3, <3>4, Zenon DEF Collecting, s
  <2>5. ASSUME NEW j \in 1..n PROVE Reaches(D(j - 1), D(j))
    <3> DEFINE s == R[j] \o rest
               p == SubSeq(rows, 1, j - 1)
    <3>1. j - 1 \in 0..n /\ j \in 0..n /\ j - 1 \in Nat /\ j - 1 < n
      BY <1>1
    <3>2. s \in Seq(Byte) /\ Len(p) = j - 1
      BY <1>3, <2>1, <3>1
    <3>3. Reads(e[j], rows[j])
      OBVIOUS
    <3>4. R[j - 1] \o rest = e[j] \o s
      <4> DEFINE x == e[j]
                 y == R[j]
      <4>1. x \in Seq(Byte) /\ y \in Seq(Byte)
        BY <2>1, <3>1, <3>3 DEF Reads
      <4>2. R[j - 1] = x \o y
        BY <1>2
      <4> HIDE DEF x, y
      <4>3. (x \o y) \o rest = x \o (y \o rest)
        BY <4>1, BytesAssociate, Zenon
      <4> QED
        BY <4>2, <4>3 DEF x, y
    <3> HIDE DEF s, p, n
    <3>5. Reaches(Collecting(b, e[j] \o s, n, p), Collecting(b, s, n, Append(p, rows[j])))
      BY <1>1, <2>2, <3>1, <3>2, <3>3, CollectsRow
    <3>6. SubSeq(rows, 1, j) = Append(p, rows[j])
      BY <1>3 DEF p
    <3> QED
      BY <3>4, <3>5, <3>6, Zenon DEF s, p
  <2> HIDE DEF D
  <2>6. Reaches(b, D(n))
    <3> DEFINE U == {j \in 0..n : ~Reaches(b, D(j))}
    <3>1. U = {}
      <4> SUFFICES ASSUME U # {} PROVE FALSE
        OBVIOUS
      <4>1. PICK j \in U : \A k \in U : j <= k
        <5>1. U \subseteq Nat
          OBVIOUS
        <5> HIDE DEF U
        <5> QED
          BY <5>1, LeastNat
      <4>2. j \in 0..n /\ ~Reaches(b, D(j))
        OBVIOUS
      <4>3. j # 0
        BY <2>4, <4>2
      <4>4. j \in 1..n /\ j - 1 \in 0..n /\ ~(j <= j - 1)
        BY <1>1, <4>2, <4>3
      <4>5. Reaches(b, D(j - 1))
        BY <4>1, <4>4
      <4>6. Reaches(D(j - 1), D(j))
        BY <2>5, <4>4
      <4> QED
        BY <4>2, <4>5, <4>6, ReachesOn, Zenon
    <3> QED
      BY <2>3, <3>1
  <2>7. Reaches(D(n), Accepted(b, rest, reply))
    <3>1. R[n] \o rest = rest
      BY <1>2, ConcatEmptySeq
    <3>2. D(n) = Collecting(b, rest, n, rows)
      BY <1>3, <3>1, Zenon DEF D
    <3> QED
      BY <1>1, <2>2, <3>2, CollectsAll
  <2> QED
    BY <2>6, <2>7, ReachesOn, Zenon
<1>6. front \o all \in Seq(Byte)
  BY <1>4, ConcatProperties
<1> QED
  BY <1>5, <1>6, Zenon DEF Reads, all

\* A reply without rows is read from what Redis writes for it.
LEMMA FlatIsRead == \A r \in Flat : r.type # Array /\ Reads(EncodedFlat(r), r)
<1> SUFFICES ASSUME NEW r \in Flat PROVE r.type # Array /\ Reads(EncodedFlat(r), r)
  OBVIOUS
<1>1. /\ Number \notin {SimpleString, Error} /\ BulkString \notin {SimpleString, Error}
         /\ BulkString # Number
      /\ Array \notin {SimpleString, Error, Number, BulkString}
  BY DEF SimpleString, Error, Number, BulkString, Array
<1>2. CASE r \in [type : {SimpleString, Error}, str : Text]
  <2>1. PICK id \in {SimpleString, Error}, l \in Text : r = [type |-> id, str |-> l]
    BY <1>2
  <2>2. r.type = id /\ r.str = l
    BY <2>1
  <2>3. EncodedFlat(r) = <<id>> \o EndLine(l)
    BY <2>2, Zenon DEF EncodedFlat
  <2>4. Reads(<<id>> \o EndLine(l), [type |-> id, str |-> l])
    BY ReadsText DEF Text
  <2> QED
    BY <1>1, <2>1, <2>2, <2>3, <2>4, Zenon
<1>3. CASE r \in [type : {Number}, val : Int]
  <2>1. PICK n \in Int : r = [type |-> Number, val |-> n]
    BY <1>3
  <2>2. r.type = Number /\ r.val = n
    BY <2>1
  <2>3. EncodedFlat(r) = <<Number>> \o EndLine(EncodedInt(n))
    BY <1>1, <2>2, Zenon DEF EncodedFlat
  <2>4. Reads(<<Number>> \o EndLine(EncodedInt(n)), [type |-> Number, val |-> n])
    BY ReadsNumber
  <2> QED
    BY <1>1, <2>1, <2>2, <2>3, <2>4, Zenon
<1>4. CASE r \in [type : {BulkString}, str : Seq(Byte), is_null : {FALSE}]
  <2>1. PICK s \in Seq(Byte) : r = [type |-> BulkString, str |-> s, is_null |-> FALSE]
    BY <1>4
  <2>2. r.type = BulkString /\ r.str = s /\ ~r.is_null
    BY <2>1
  <2>3. EncodedFlat(r) = <<BulkString>> \o (EndLine(EncodedInt(Len(s))) \o EndLine(s))
    BY <1>1, <2>2, Zenon DEF EncodedFlat
  <2>4. Reads(<<BulkString>> \o (EndLine(EncodedInt(Len(s))) \o EndLine(s)),
              [type |-> BulkString, str |-> s, is_null |-> FALSE])
    BY ReadsBulk
  <2> QED
    BY <1>1, <2>1, <2>2, <2>3, <2>4, Zenon
<1>5. CASE r \in [type : {BulkString}, str : {<<>>}, is_null : {TRUE}]
  <2>1. r = [type |-> BulkString, str |-> <<>>, is_null |-> TRUE]
    BY <1>5
  <2>2. r.type = BulkString /\ r.is_null
    BY <2>1
  <2>3. EncodedFlat(r) = <<BulkString>> \o EndLine(EncodedInt(-1))
    BY <1>1, <2>2, Zenon DEF EncodedFlat
  <2> QED
    BY <1>1, <2>1, <2>2, <2>3, ReadsNull, Zenon
<1> QED
  BY <1>2, <1>3, <1>4, <1>5 DEF Flat

\* An array is read if its rows are.
LEMMA EncodedRowsAre ==
  ASSUME NEW T, NEW rows \in Seq(T), NEW E, DOMAIN E = T, \A r \in T : Reads(E[r], r)
  PROVE  LET e == [i \in DOMAIN rows |-> E[rows[i]]] IN
         Reads((<<Array>> \o EndLine(EncodedInt(Len(rows)))) \o FlattenSeq(e), [type |-> Array, rows |-> rows])
<1> DEFINE e == [i \in DOMAIN rows |-> E[rows[i]]]
           n == Len(rows)
<1>1. n \in Nat /\ DOMAIN rows = 1..n /\ \A i \in 1..n : rows[i] \in T
  BY LenProperties, ElementOfSeq
<1>2. \A i \in 1..n : e[i] = E[rows[i]] /\ Reads(e[i], rows[i])
  BY <1>1
<1>3. \A i \in 1..n : e[i] \in Seq(Byte)
  BY <1>2 DEF Reads
<1>4. e = [i \in 1..n |-> e[i]]
  BY <1>1
<1> HIDE DEF e, n
<1>5. e \in Seq(Seq(Byte)) /\ Len(e) = n
  BY <1>1, <1>3, <1>4
<1>6. Reads((<<Array>> \o EndLine(EncodedInt(Len(rows)))) \o FlattenSeq(e), [type |-> Array, rows |-> rows])
  BY <1>2, <1>5, ReadsArray DEF n
<1> QED
  BY <1>6 DEF e

\* What may be a row is read.
LEMMA RowIsRead == \A r \in Row : Reads(EncodedRow(r), r)
<1>1. ASSUME NEW r \in Flat PROVE Reads(EncodedRow(r), r)
  <2>1. r.type # Array /\ Reads(EncodedFlat(r), r)
    BY FlatIsRead
  <2>2. EncodedRow(r) = EncodedFlat(r)
    BY <2>1, Zenon DEF EncodedRow
  <2> QED
    BY <2>1, <2>2
<1>2. ASSUME NEW r \in ArrayOf(Flat) PROVE Reads(EncodedRow(r), r)
  <2>1. PICK rows \in Seq(Flat) : r = [type |-> Array, rows |-> rows]
    BY DEF ArrayOf
  <2>2. r.type = Array /\ r.rows = rows
    BY <2>1
  <2> DEFINE E == [x \in Flat |-> EncodedFlat(x)]
             e == [i \in DOMAIN rows |-> E[rows[i]]]
  <2>3. DOMAIN E = Flat /\ \A x \in Flat : Reads(E[x], x)
    BY FlatIsRead
  <2>4. e = [i \in DOMAIN rows |-> EncodedFlat(rows[i])]
    <3>1. \A i \in DOMAIN rows : rows[i] \in Flat
      BY ElementOfSeq, LenProperties
    <3> QED
      BY <3>1
  <2> HIDE DEF E
  <2>5. Reads((<<Array>> \o EndLine(EncodedInt(Len(rows)))) \o FlattenSeq(e), [type |-> Array, rows |-> rows])
    BY <2>3, EncodedRowsAre
  <2>6. EncodedRow(r) = (<<Array>> \o EndLine(EncodedInt(Len(rows)))) \o FlattenSeq(e)
    BY <2>2, <2>4, Zenon DEF EncodedRow, EncodedArray
  <2> QED
    BY <2>1, <2>5, <2>6, Zenon
<1> QED
  BY <1>1, <1>2 DEF Row

\* Every reply is read from what Redis writes for it.
LEMMA ReplyIsRead == \A r \in Reply : Reads(Encoded(r), r)
<1>1. ASSUME NEW r \in Flat PROVE Reads(Encoded(r), r)
  <2>1. r.type # Array /\ Reads(EncodedFlat(r), r)
    BY FlatIsRead
  <2>2. Encoded(r) = EncodedFlat(r)
    BY <2>1, Zenon DEF Encoded
  <2> QED
    BY <2>1, <2>2
<1>2. ASSUME NEW r \in ArrayOf(Row) PROVE Reads(Encoded(r), r)
  <2>1. PICK rows \in Seq(Row) : r = [type |-> Array, rows |-> rows]
    BY DEF ArrayOf
  <2>2. r.type = Array /\ r.rows = rows
    BY <2>1
  <2> DEFINE E == [x \in Row |-> EncodedRow(x)]
             e == [i \in DOMAIN rows |-> E[rows[i]]]
  <2>3. DOMAIN E = Row /\ \A x \in Row : Reads(E[x], x)
    BY RowIsRead
  <2>4. e = [i \in DOMAIN rows |-> EncodedRow(rows[i])]
    <3>1. \A i \in DOMAIN rows : rows[i] \in Row
      BY ElementOfSeq, LenProperties
    <3> QED
      BY <3>1
  <2> HIDE DEF E
  <2>5. Reads((<<Array>> \o EndLine(EncodedInt(Len(rows)))) \o FlattenSeq(e), [type |-> Array, rows |-> rows])
    BY <2>3, EncodedRowsAre
  <2>6. Encoded(r) = (<<Array>> \o EndLine(EncodedInt(Len(rows)))) \o FlattenSeq(e)
    BY <2>2, <2>4, Zenon DEF Encoded, EncodedArray
  <2> QED
    BY <2>1, <2>5, <2>6, Zenon
<1> QED
  BY <1>1, <1>2 DEF Reply

-----------------------------------------------------------------------------
(* Parts of a reply, and streams of replies.                                 *)

HasReplies(b) == \E S : b.replies \in Seq(S)
\* The replies there are, and one more if it was begun.
Begun(b) == IF b.m_builder = <<>> THEN Len(b.replies) ELSE Len(b.replies) + 1

Later(b, c) ==
  /\ Len(b.replies) <= Len(c.replies) /\ Begun(b) <= Begun(c)
  /\ Len(b.replies) = Len(c.replies) => b.replies = c.replies

\* There is at most one reply that was begun.
LEMMA BegunIs ==
  \A b : HasReplies(b) =>
    /\ Len(b.replies) \in Nat /\ Begun(b) \in Nat
    /\ b.m_builder = <<>> => Begun(b) = Len(b.replies)
    /\ b.m_builder # <<>> => Begun(b) = Len(b.replies) + 1
<1> SUFFICES ASSUME NEW b, HasReplies(b)
             PROVE  /\ Len(b.replies) \in Nat /\ Begun(b) \in Nat
                    /\ b.m_builder = <<>> => Begun(b) = Len(b.replies)
                    /\ b.m_builder # <<>> => Begun(b) = Len(b.replies) + 1
  OBVIOUS
<1>1. Len(b.replies) \in Nat
  BY LenProperties DEF HasReplies
<1> QED
  BY <1>1 DEF Begun

\* Replies are put behind those there are.
LEMMA RepliesGrow ==
  \A s, reply : (\E S : s \in Seq(S)) =>
    /\ \E T : Append(s, reply) \in Seq(T)
    /\ Len(Append(s, reply)) = Len(s) + 1
<1> SUFFICES ASSUME NEW s, NEW reply, NEW S, s \in Seq(S)
             PROVE  (\E T : Append(s, reply) \in Seq(T)) /\ Len(Append(s, reply)) = Len(s) + 1
  OBVIOUS
<1> DEFINE T == S \cup {reply}
<1>1. S \subseteq T /\ reply \in T
  OBVIOUS
<1> HIDE DEF T
<1>2. s \in [1..Len(s) -> S] /\ Len(s) \in Nat
  BY LenProperties
<1>3. s \in [1..Len(s) -> T]
  BY <1>1, <1>2
<1>4. s \in Seq(T)
  BY <1>2, <1>3
<1>5. Append(s, reply) \in Seq(T) /\ Len(Append(s, reply)) = Len(s) + 1
  BY <1>1, <1>4, AppendProperties
<1> QED
  BY <1>5

\* A step takes no reply back, nor one that was begun.
LEMMA LaterStep ==
  \A b, c : HasReplies(b) /\ Answers(b, c) => HasReplies(c) /\ Later(b, c)
<1> SUFFICES ASSUME NEW b, NEW c, HasReplies(b), Answers(b, c) PROVE HasReplies(c) /\ Later(b, c)
  OBVIOUS
<1>1. CASE c.replies = b.replies /\ (b.m_builder # <<>> => c.m_builder # <<>>)
  <2>1. HasReplies(c)
    BY <1>1, Zenon DEF HasReplies
  <2> QED
    BY <1>1, <2>1, BegunIs DEF Later
<1>2. CASE b.m_builder # <<>> /\ c.m_builder = <<>>
           /\ \E reply : c.replies = Append(b.replies, reply)
  <2>1. PICK reply : c.replies = Append(b.replies, reply)
    BY <1>2
  <2> DEFINE s == b.replies
  <2>2. (\E T : Append(s, reply) \in Seq(T)) /\ Len(Append(s, reply)) = Len(s) + 1
    BY RepliesGrow DEF HasReplies
  <2>3. HasReplies(c) /\ Len(c.replies) = Len(b.replies) + 1
    BY <2>1, <2>2, Zenon DEF HasReplies, s
  <2> QED
    BY <1>2, <2>3, BegunIs DEF Later
<1> QED
  BY <1>1, <1>2 DEF Answers

\* Nor do several steps.
LEMMA LaterOn ==
  \A b, c, d : HasReplies(b) /\ HasReplies(c) /\ HasReplies(d) /\ Later(b, c)
  /\ Later(c, d) => Later(b, d)
<1> SUFFICES ASSUME NEW b, NEW c, NEW d, HasReplies(b), HasReplies(c), HasReplies(d), Later(b, c), Later(c, d)
             PROVE  Later(b, d)
  OBVIOUS
<1>1. /\ Len(b.replies) \in Nat /\ Len(c.replies) \in Nat /\ Len(d.replies) \in Nat
      /\ Begun(b) \in Nat /\ Begun(c) \in Nat /\ Begun(d) \in Nat
  BY BegunIs
<1> QED
  BY <1>1 DEF Later

\* Nor does a run, from any of its steps on.
LEMMA RunIsLater ==
  ASSUME NEW start, IsDecoder(start), HasReplies(start), NEW f, IsRun(start, f), NEW i \in Nat
  PROVE  \A k \in Nat : HasReplies(f[i + k]) /\ Later(f[i], f[i + k])
<1>1. f[0] = start /\ \A j \in Nat : f[j + 1] = Build(f[j])
  BY RunIs
<1>2. ASSUME NEW j \in Nat, HasReplies(f[j]) PROVE HasReplies(f[j + 1]) /\ Later(f[j], f[j + 1])
  <2> DEFINE d == f[j]
  <2>1. IsDecoder(d) /\ HasReplies(d) /\ f[j + 1] = Build(d)
    BY <1>1, <1>2, RunSettles
  <2> HIDE DEF d
  <2>2. Later(d, d)
    BY <2>1, BegunIs DEF Later
  <2>3. CASE Build(d) = d
    BY <2>1, <2>2, <2>3 DEF d
  <2>4. CASE Build(d) # d
    <3>1. ~d.thrown
      BY <2>4, Zenon DEF Build
    <3>2. Answers(d, Build(d))
      BY <2>1, <2>4, <3>1, BuildIs DEF Moves
    <3> QED
      BY <2>1, <3>2, LaterStep DEF d
  <2> QED
    BY <2>3, <2>4
<1>3. \A j \in Nat : HasReplies(f[j])
  <2> DEFINE T == {j \in Nat : ~HasReplies(f[j])}
  <2>1. T = {}
    <3> SUFFICES ASSUME T # {} PROVE FALSE
      OBVIOUS
    <3>1. PICK j \in T : \A k \in T : j <= k
      <4>1. T \subseteq Nat
        OBVIOUS
      <4> HIDE DEF T
      <4> QED
        BY <4>1, LeastNat
    <3>2. j \in Nat /\ ~HasReplies(f[j])
      OBVIOUS
    <3>3. j # 0
      BY <1>1, <3>2
    <3>4. j - 1 \in Nat /\ (j - 1) + 1 = j /\ ~(j <= j - 1)
      BY <3>2, <3>3
    <3>5. HasReplies(f[j - 1])
      BY <3>1, <3>4
    <3> QED
      BY <1>2, <3>2, <3>4, <3>5
  <2> QED
    BY <2>1
<1>4. \A k \in Nat : Later(f[i], f[i + k])
  <2> DEFINE T == {k \in Nat : ~Later(f[i], f[i + k])}
  <2>1. T = {}
    <3> SUFFICES ASSUME T # {} PROVE FALSE
      OBVIOUS
    <3>1. PICK j \in T : \A k \in T : j <= k
      <4>1. T \subseteq Nat
        OBVIOUS
      <4> HIDE DEF T
      <4> QED
        BY <4>1, LeastNat
    <3>2. j \in Nat /\ ~Later(f[i], f[i + j])
      OBVIOUS
    <3>3. j # 0
      <4>1. Later(f[i], f[i])
        BY <1>3, BegunIs DEF Later
      <4>2. i + 0 = i
        OBVIOUS
      <4> QED
        BY <3>2, <4>1, <4>2
    <3>4. j - 1 \in Nat /\ i + (j - 1) \in Nat /\ (i + (j - 1)) + 1 = i + j /\ ~(j <= j - 1)
          /\ i + j \in Nat
      BY <3>2, <3>3
    <3>5. Later(f[i], f[i + (j - 1)])
      BY <3>1, <3>4
    <3>6. Later(f[i + (j - 1)], f[i + j])
      BY <1>2, <1>3, <3>4
    <3>7. HasReplies(f[i]) /\ HasReplies(f[i + (j - 1)]) /\ HasReplies(f[i + j])
      BY <1>3, <3>4
    <3> QED
      BY <3>2, <3>5, <3>6, <3>7, LaterOn
  <2> QED
    BY <2>1
<1> QED
  <2>1. \A k \in Nat : i + k \in Nat
    OBVIOUS
  <2> QED
    BY <1>3, <1>4, <2>1

\* Feeding takes no reply away; and of what is fed to a decoder that has no
\* bytes and no builder, something is begun.
LEMMA FedIsLater ==
  ASSUME NEW b, IsDecoder(b), HasReplies(b), NEW x \in Seq(Byte)
  PROVE  /\ HasReplies(Fed(b, x)) /\ Later(b, Fed(b, x))
         /\ b.m_buffer = <<>> /\ b.m_builder = <<>> /\ x # <<>> /\ ~Fed(b, x).thrown
            => Begun(Fed(b, x)) > Len(b.replies)
<1> DEFINE start == Given(b, x)
           c == Fed(b, x)
<1>1. /\ IsDecoder(start) /\ ~start.thrown /\ start.m_buffer = b.m_buffer \o x
      /\ start.m_builder = b.m_builder /\ start.replies = b.replies
  BY GivenIs
<1>2. PICK f : IsRun(start, f)
  BY RunExists
<1>3. f[0] = start /\ \A i \in Nat : f[i + 1] = Build(f[i])
  BY <1>2, RunIs
<1>4. HasReplies(start)
  BY <1>1, Zenon DEF HasReplies
<1>5. IsDecoder(c) /\ Settled(c) /\ \A k \in Nat : Settled(f[k]) => c = f[k]
  BY <1>2, FedIs
<1>6. PICK k \in Nat : k >= 1 /\ c = f[k]
  <2> DEFINE w == Weight(start)
  <2>1. w \in Nat /\ Settled(f[w])
    BY <1>1, <1>2, RunSettles, WeightIsNat
  <2> HIDE DEF w
  <2>2. f[w + 1] = f[w] /\ w + 1 \in Nat /\ w + 1 >= 1
    BY <1>3, <2>1 DEF Settled
  <2> QED
    BY <1>5, <2>1, <2>2
<1> HIDE DEF start, c
<1>7. HasReplies(c) /\ Later(start, c)
  <2>1. 0 \in Nat /\ 0 + k = k
    OBVIOUS
  <2>2. HasReplies(f[0 + k]) /\ Later(f[0], f[0 + k])
    BY <1>1, <1>2, <1>4, RunIsLater
  <2> QED
    BY <1>3, <1>6, <2>1, <2>2
<1>8. Later(b, c)
  <2>1. Begun(start) = Begun(b)
    BY <1>1, Zenon DEF Begun
  <2> QED
    BY <1>1, <1>7, <2>1, Zenon DEF Later
<1>9. ASSUME b.m_buffer = <<>>, b.m_builder = <<>>, x # <<>>, ~c.thrown
      PROVE  Begun(c) > Len(b.replies)
  <2>1. start.m_buffer = x /\ start.m_builder = <<>>
    BY <1>1, <1>9, ConcatEmptySeq
  <2>2. Build(start) = CreateBuilder(start)
    BY <1>1, <2>1, Zenon DEF Build
  <2>3. Moves(start, CreateBuilder(start))
        /\ (CreateBuilder(start).thrown \/ CreateBuilder(start).m_builder # <<>>)
    BY <1>1, <1>9, <2>1, CreateMoves
  <2> DEFINE d == Build(start)
  <2>4. f[0 + 1] = d
    BY <1>3
  <2>5. f[1] = d
    BY <2>4
  <2> HIDE DEF d
  <2>6. ~d.thrown
    <3> SUFFICES ASSUME d.thrown PROVE FALSE
      OBVIOUS
    <3>1. Settled(d)
      BY Zenon DEF Settled, Build
    <3>2. c = d
      BY <1>5, <2>5, <3>1
    <3> QED
      BY <1>9, <3>2
  <2>7. d.m_builder # <<>>
    BY <2>2, <2>3, <2>6 DEF d
  <2>8. k - 1 \in Nat /\ 1 + (k - 1) = k /\ 1 \in Nat /\ 0 \in Nat /\ 0 + 1 = 1
    BY <1>6
  <2>9. Later(f[1], f[1 + (k - 1)])
    BY <1>1, <1>2, <1>4, <2>8, RunIsLater
  <2>10. Later(d, c)
    BY <1>6, <2>5, <2>8, <2>9
  <2>11. HasReplies(f[0 + 1]) /\ Later(f[0], f[0 + 1])
    BY <1>1, <1>2, <1>4, <2>8, RunIsLater
  <2>12. HasReplies(d) /\ Later(start, d)
    BY <1>3, <2>4, <2>11
  <2>13. Len(d.replies) >= Len(b.replies) /\ Len(d.replies) \in Nat
         /\ Begun(d) = Len(d.replies) + 1 /\ Begun(d) <= Begun(c)
    BY <1>1, <2>7, <2>10, <2>12, BegunIs DEF Later
  <2>14. Begun(c) \in Nat /\ Len(b.replies) \in Nat
    BY <1>7, BegunIs
  <2> QED
    BY <2>13, <2>14
<1> QED
  BY <1>7, <1>8, <1>9 DEF c

\* What failed on some bytes has failed on more.
LEMMA FailureLasts ==
  ASSUME NEW b, IsDecoder(b), NEW x \in Seq(Byte), NEW y \in Seq(Byte), Fed(b, x).thrown
  PROVE  Fed(b, x \o y).thrown
<1> DEFINE c == Fed(b, x)
<1>1. x \o y \in Seq(Byte)
  BY ConcatProperties
<1>2. PICK g : IsRun(Given(b, x \o y), g)
  BY RunExists
<1>3. PICK k \in Nat : g[k] = More(c, y)
  BY <1>2, RunAhead
<1>4. IsDecoder(c)
  BY FeedingSettles
<1>5. c.thrown
  OBVIOUS
<1> HIDE DEF c
<1> DEFINE d == More(c, y)
<1>6. d.thrown
  BY <1>4, <1>5, MoreIs
<1> HIDE DEF d
<1>7. Settled(d)
  BY <1>6, Zenon DEF Settled, Build
<1>8. Fed(b, x \o y) = d
  <2> DEFINE z == x \o y
  <2>1. z \in Seq(Byte) /\ IsRun(Given(b, z), g) /\ g[k] = d
    BY <1>1, <1>2, <1>3 DEF d
  <2> HIDE DEF z
  <2>2. Fed(b, z) = g[k]
    BY <1>7, <2>1, FedIs
  <2> QED
    BY <2>1, <2>2 DEF z
<1> QED
  BY <1>6, <1>8

\* A decoder that has handed over all it was fed.
Empty(b) == b = Fields(<<>>, <<>>, b.replies, FALSE) /\ HasReplies(b)

\* It waits for the first byte of a reply.
LEMMA EmptyIs ==
  \A b : Empty(b) => /\ IsDecoder(b) /\ HasReplies(b) /\ ~b.thrown /\ b.m_buffer = <<>>
  /\ b.m_builder = <<>>
                     /\ Settled(b)
<1> SUFFICES ASSUME NEW b, Empty(b)
             PROVE  /\ IsDecoder(b) /\ HasReplies(b) /\ ~b.thrown /\ b.m_buffer = <<>>
                       /\ b.m_builder = <<>>
                    /\ Settled(b)
  OBVIOUS
<1>1. b = Fields(<<>>, <<>>, b.replies, FALSE) /\ HasReplies(b)
  BY Zenon DEF Empty
<1>2. b.m_buffer = <<>> /\ b.m_builder = <<>> /\ ~b.thrown
  BY <1>1 DEF Fields
<1>3. IsDecoder(b)
  <2>1. <<>> \in Seq(Byte) /\ FALSE \in BOOLEAN
    BY EmptySeq
  <2> QED
    BY <1>1, <2>1, StackEmpty, StateIsDecoder
<1>4. Settled(b)
  BY <1>2, Zenon DEF Settled, Build, CreateBuilder
<1> QED
  BY <1>1, <1>2, <1>3, <1>4

\* Fed a reply it has this reply more, and nothing else.
LEMMA WholeReply ==
  ASSUME NEW b, Empty(b), NEW bytes, NEW reply, Reads(bytes, reply)
  PROVE  /\ Empty(Fed(b, bytes)) /\ Fed(b, bytes).replies = Append(b.replies, reply)
<1> DEFINE start == Given(b, bytes)
           c == Fields(<<>>, <<>>, Append(b.replies, reply), FALSE)
<1>1. bytes \in Seq(Byte) /\ <<>> \in Seq(Byte)
  BY EmptySeq DEF Reads
<1>2. IsDecoder(b) /\ HasReplies(b) /\ b.m_buffer = <<>> /\ b.m_builder = <<>>
  BY EmptyIs
<1>3. /\ IsDecoder(start) /\ ~start.thrown /\ start.m_buffer = bytes \o <<>>
      /\ start.m_builder = <<>> /\ start.replies = b.replies
  <2>1. start.m_buffer = <<>> \o bytes /\ <<>> \o bytes = bytes /\ bytes \o <<>> = bytes
    BY <1>1, <1>2, GivenIs, ConcatEmptySeq
  <2> QED
    BY <1>1, <1>2, <2>1, GivenIs
<1> HIDE DEF start
<1>4. Reaches(start, Accepted(start, <<>>, reply))
  BY <1>1, <1>3 DEF Reads, Waiting
<1>5. Accepted(start, <<>>, reply) = c
  <2>1. start.thrown = FALSE
    BY <1>3 DEF IsDecoder
  <2> QED
    BY <1>3, <2>1, Zenon DEF Accepted
<1>6. c.replies = Append(b.replies, reply) /\ c = Fields(<<>>, <<>>, c.replies, FALSE)
  BY DEF Fields
<1> HIDE DEF c
<1>7. HasReplies(c)
  <2> DEFINE s == b.replies
  <2>1. \E T : Append(s, reply) \in Seq(T)
    BY <1>2, RepliesGrow DEF HasReplies
  <2> QED
    BY <1>6, <2>1, Zenon DEF HasReplies, s
<1>8. Empty(c)
  BY <1>6, <1>7, Zenon DEF Empty
<1>9. Fed(b, bytes) = c
  <2>1. Settled(c)
    BY <1>8, EmptyIs
  <2> QED
    BY <1>1, <1>2, <1>4, <1>5, <2>1, ReachesFed DEF start
<1> QED
  BY <1>6, <1>8, <1>9

\* Without its last bytes a reply is not there yet.
LEMMA PartOfReply ==
  ASSUME NEW b, Empty(b), NEW x \in Seq(Byte), NEW y \in Seq(Byte), y # <<>>, NEW reply, Reads(x \o y, reply)
  PROVE  ~Fed(b, x).thrown /\ Fed(b, x).replies = b.replies
<1> DEFINE c == Fed(b, x)
           d == Fed(b, x \o y)
<1>1. IsDecoder(b) /\ HasReplies(b) /\ ~b.thrown /\ x \o y \in Seq(Byte)
  BY EmptyIs, ConcatProperties
<1>2. Empty(d) /\ d.replies = Append(b.replies, reply)
  BY WholeReply
<1>3. ~d.thrown /\ d.m_builder = <<>> /\ HasReplies(d)
  BY <1>2, EmptyIs
<1>4. ~c.thrown
  BY <1>1, <1>3, FailureLasts
<1>5. Fed(c, y) = d
  BY <1>1, <1>4, FeedingInParts
<1>6. IsDecoder(c) /\ Build(c) = c
  BY <1>1, FeedingSettles
<1>7. HasReplies(c) /\ Later(b, c)
  BY <1>1, FedIsLater
<1> HIDE DEF c, d
<1>8. /\ Later(c, d)
      /\ c.m_buffer = <<>> /\ c.m_builder = <<>> => Begun(d) > Len(c.replies)
  <2>1. /\ Later(c, Fed(c, y))
        /\ c.m_buffer = <<>> /\ c.m_builder = <<>> /\ y # <<>> /\ ~Fed(c, y).thrown
           => Begun(Fed(c, y)) > Len(c.replies)
    BY <1>6, <1>7, FedIsLater
  <2> QED
    BY <1>3, <1>5, <2>1
<1>9. Len(d.replies) = Len(b.replies) + 1
  BY <1>1, <1>2, AppendProperties DEF HasReplies
<1>10. Len(c.replies) # Len(d.replies)
  <2> SUFFICES ASSUME Len(c.replies) = Len(d.replies) PROVE FALSE
    OBVIOUS
  <2>1. Begun(d) = Len(d.replies) /\ Begun(c) <= Begun(d)
    BY <1>3, <1>8, BegunIs DEF Later
  <2>2. c.m_builder = <<>>
    <3>1. Len(c.replies) \in Nat
      BY <1>7, BegunIs
    <3> QED
      BY <1>7, <2>1, <3>1, BegunIs
  <2>3. c.m_buffer = <<>>
    BY <1>4, <1>6, <2>2, BuildTakes DEF c
  <2>4. Len(c.replies) \in Nat
    BY <1>7, BegunIs
  <2> QED
    BY <1>8, <2>1, <2>2, <2>3, <2>4
<1>11. Len(c.replies) = Len(b.replies)
  <2>1. Len(b.replies) \in Nat /\ Len(c.replies) \in Nat /\ Len(d.replies) \in Nat
    BY <1>1, <1>3, <1>7, BegunIs
  <2>2. Len(b.replies) <= Len(c.replies) /\ Len(c.replies) <= Len(d.replies)
    BY <1>7, <1>8 DEF Later
  <2> QED
    BY <1>9, <1>10, <2>1, <2>2
<1>12. c.replies = b.replies
  BY <1>7, <1>11 DEF Later
<1> QED
  BY <1>4, <1>12 DEF c

\* The first bytes of two sequences: the first of them, and first bytes of the second.
LEMMA ConcatRest ==
  \A s, t \in Seq(Byte) : \A m \in 0..Len(t) :
    Len(s) + m \in 0..Len(s \o t) /\ SubSeq(s \o t, 1, Len(s) + m) = s \o SubSeq(t, 1, m)
<1> SUFFICES ASSUME NEW s \in Seq(Byte), NEW t \in Seq(Byte), NEW m \in 0..Len(t)
             PROVE  Len(s) + m \in 0..Len(s \o t)
                    /\ SubSeq(s \o t, 1, Len(s) + m) = s \o SubSeq(t, 1, m)
  OBVIOUS
<1> DEFINE a == s \o t
           l == Len(s)
           b == s \o SubSeq(t, 1, m)
           c == SubSeq(t, 1, m)
           d == SubSeq(a, 1, l + m)
<1>1. l \in Nat /\ Len(t) \in Nat /\ m \in Nat /\ m <= Len(t)
  BY LenProperties
<1>2. a \in Seq(Byte) /\ Len(a) = l + Len(t)
      /\ \A i \in 1..l + Len(t) : a[i] = IF i <= l THEN s[i] ELSE t[i - l]
  BY ConcatProperties
<1>3. c \in Seq(Byte) /\ Len(c) = m /\ \A i \in 1..m : c[i] = t[i]
  BY EmptySeq, ConcatFront
<1> HIDE DEF a, l, c
<1>4. l + m \in 0..Len(a)
  BY <1>1, <1>2
<1>5. d \in Seq(Byte) /\ Len(d) = l + m /\ \A i \in 1..l + m : d[i] = a[i]
  BY <1>2, <1>4, EmptySeq, ConcatFront
<1>6. s \o c \in Seq(Byte) /\ Len(s \o c) = l + m
      /\ \A i \in 1..l + m : (s \o c)[i] = IF i <= l THEN s[i] ELSE c[i - l]
  BY <1>3, ConcatProperties DEF l
<1> HIDE DEF d
<1>7. ASSUME NEW i \in 1..l + m PROVE d[i] = (s \o c)[i]
  <2>1. i \in 1..l + Len(t) /\ (~(i <= l) => i - l \in 1..m)
    BY <1>1
  <2> QED
    BY <1>2, <1>3, <1>5, <1>6, <2>1
<1>8. d = s \o c
  BY <1>5, <1>6, <1>7, SeqEqual
<1> QED
  BY <1>4, <1>8 DEF d, c, a, l

\* The encodings of the first replies are the first encodings.
LEMMA EncodedIs ==
  ASSUME NEW replies \in Seq(Reply)
  PROVE  LET e == [i \in DOMAIN replies |-> Encoded(replies[i])] IN
         /\ e \in Seq(Seq(Byte)) /\ Len(e) = Len(replies)
         /\ \A i \in 1..Len(replies) : replies[i] \in Reply /\ e[i] = Encoded(replies[i])
         /\ \A k \in 0..Len(replies) : EncodedAll(SubSeq(replies, 1, k)) = FlattenSeq(SubSeq(e, 1, k))
         /\ EncodedAll(replies) = FlattenSeq(e)
<1> DEFINE e == [i \in DOMAIN replies |-> Encoded(replies[i])]
           n == Len(replies)
<1>1. n \in Nat /\ DOMAIN replies = 1..n /\ \A i \in 1..n : replies[i] \in Reply
  BY LenProperties, ElementOfSeq
<1>2. \A i \in 1..n : e[i] = Encoded(replies[i])
  BY <1>1
<1>3. \A i \in 1..n : e[i] \in Seq(Byte)
  BY <1>1, <1>2, ReplyIsRead DEF Reads
<1>4. e = [i \in 1..n |-> e[i]]
  BY <1>1
<1>5. EncodedAll(replies) = FlattenSeq(e)
  BY Zenon DEF EncodedAll
<1> HIDE DEF e, n
<1>6. e \in Seq(Seq(Byte)) /\ Len(e) = n
  BY <1>1, <1>3, <1>4
<1>7. ASSUME NEW k \in 0..n PROVE EncodedAll(SubSeq(replies, 1, k)) = FlattenSeq(SubSeq(e, 1, k))
  <2> DEFINE p == SubSeq(replies, 1, k)
             d == SubSeq(e, 1, k)
             c == [i \in DOMAIN p |-> Encoded(p[i])]
  <2>1. k \in Nat /\ \A i \in 1..k : i \in 1..n
    BY <1>1
  <2>2. p \in Seq(Reply) /\ Len(p) = k /\ \A i \in 1..k : p[i] = replies[i]
    BY EmptySeq, ConcatFront DEF n
  <2>3. d \in Seq(Seq(Byte)) /\ Len(d) = k /\ \A i \in 1..k : d[i] = e[i]
    BY <1>6, EmptySeq, ConcatFront DEF n
  <2>4. EncodedAll(p) = FlattenSeq(c)
    BY Zenon DEF EncodedAll
  <2> HIDE DEF p, d
  <2>5. DOMAIN p = 1..k /\ d = [i \in 1..k |-> d[i]]
    BY <2>2, <2>3, LenProperties
  <2>6. \A i \in 1..k : d[i] = Encoded(p[i])
    BY <1>2, <2>1, <2>2, <2>3
  <2>7. c = d
    BY <2>5, <2>6
  <2> QED
    BY <2>4, <2>7 DEF p, d
<1> QED
  BY <1>1, <1>2, <1>5, <1>6, <1>7 DEF e, n

\* So is a new decoder.
LEMMA StartIsEmpty == Empty(NoReplyYet) /\ NoReplyYet.replies = <<>>
/\ Fed(NoReplyYet, <<>>) = NoReplyYet
<1> DEFINE b == NoReplyYet
<1>1. b = Fields(<<>>, <<>>, <<>>, FALSE) /\ b.replies = <<>>
  BY DEF NoReplyYet, Fields
<1> HIDE DEF b
<1>2. HasReplies(b)
  <2> DEFINE S == {}
  <2>1. <<>> \in Seq(S)
    BY EmptySeq
  <2> QED
    BY <1>1, <2>1, Zenon DEF HasReplies
<1>3. Empty(b)
  BY <1>1, <1>2, Zenon DEF Empty
<1>4. IsDecoder(b) /\ ~b.thrown /\ Settled(b) /\ b.m_buffer = <<>> /\ b.m_builder = <<>>
  BY <1>3, EmptyIs
<1>5. Given(b, <<>>) = b
  <2> DEFINE c == Given(b, <<>>)
  <2>1. <<>> \in Seq(Byte)
    BY EmptySeq
  <2>2. IsDecoder(c) /\ ~c.thrown /\ c.m_buffer = <<>> \o <<>> /\ c.m_builder = <<>>
        /\ c.replies = <<>>
    BY <1>1, <1>4, <2>1, GivenIs
  <2>3. <<>> \o <<>> = <<>>
    BY <2>1, ConcatEmptySeq
  <2> HIDE DEF c
  <2>4. c.thrown = FALSE /\ c = Fields(c.m_buffer, c.m_builder, c.replies, c.thrown)
    BY <2>2 DEF IsDecoder
  <2>5. c = Fields(<<>>, <<>>, <<>>, FALSE)
    BY <2>2, <2>3, <2>4, Zenon
  <2> QED
    BY <1>1, <2>5, Zenon DEF c
<1>6. Fed(b, <<>>) = b
  <2>1. Reaches(Given(b, <<>>), b) /\ <<>> \in Seq(Byte)
    BY <1>5, ReachesSelf, EmptySeq
  <2> QED
    BY <1>4, <2>1, ReachesFed
<1> QED
  BY <1>1, <1>3, <1>6 DEF b

\* After whole replies it has them, and is empty.
LEMMA AfterReplies ==
  ASSUME NEW replies \in Seq(Reply)
  PROVE  \A k \in 0..Len(replies) :
           /\ EncodedAll(SubSeq(replies, 1, k)) \in Seq(Byte)
           /\ Empty(Fed(NoReplyYet, EncodedAll(SubSeq(replies, 1, k))))
           /\ Fed(NoReplyYet, EncodedAll(SubSeq(replies, 1, k))).replies = SubSeq(replies, 1, k)
<1> DEFINE n == Len(replies)
           b == NoReplyYet
           e == [i \in DOMAIN replies |-> Encoded(replies[i])]
           F == [k \in 0..n |-> EncodedAll(SubSeq(replies, 1, k))]
           Good(k) == Empty(Fed(b, F[k])) /\ Fed(b, F[k]).replies = SubSeq(replies, 1, k)
<1>1. n \in Nat /\ 0 \in 0..n /\ \A k \in 1..n : k \in 0..n /\ k - 1 \in 0..n
  BY LenProperties
<1>2. /\ e \in Seq(Seq(Byte)) /\ Len(e) = n
      /\ \A i \in 1..n : replies[i] \in Reply /\ e[i] = Encoded(replies[i])
      /\ \A k \in 0..n : F[k] = FlattenSeq(SubSeq(e, 1, k))
  BY EncodedIs
<1> HIDE DEF e, F
<1>3. F[0] = <<>> /\ (\A k \in 0..n : F[k] \in Seq(Byte)) /\ \A k \in 1..n : F[k] = F[k - 1] \o e[k]
  <2>1. /\ FlattenSeq(SubSeq(e, 1, 0)) = <<>>
        /\ \A k \in 0..n : FlattenSeq(SubSeq(e, 1, k)) \in Seq(Byte)
        /\ \A k \in 1..n : FlattenSeq(SubSeq(e, 1, k)) = FlattenSeq(SubSeq(e, 1, k - 1)) \o e[k]
    BY <1>2, FlattenIs
  <2> HIDE DEF n
  <2> QED
    BY <1>1, <1>2, <2>1
<1>4. Good(0)
  <2>1. SubSeq(replies, 1, 0) = <<>>
    BY SubSeqEmpty
  <2> QED
    BY <1>3, <2>1, StartIsEmpty
<1>5. ASSUME NEW k \in 1..n, Good(k - 1) PROVE Good(k)
  <2> DEFINE c == Fed(b, F[k - 1])
             x == F[k - 1]
             y == e[k]
             r == replies[k]
  <2>1. Empty(c) /\ c.replies = SubSeq(replies, 1, k - 1)
    BY <1>5
  <2>2. Reads(y, r)
    BY <1>2, ReplyIsRead
  <2>3. x \in Seq(Byte) /\ y \in Seq(Byte) /\ F[k] = x \o y
    BY <1>1, <1>3, <2>2 DEF Reads
  <2>4. IsDecoder(b) /\ ~c.thrown
    BY <2>1, StartIsEmpty, EmptyIs
  <2>5. Fed(b, F[k]) = Fed(c, y)
    <3> HIDE DEF x, y, b
    <3>1. ~Fed(b, x).thrown => Fed(Fed(b, x), y) = Fed(b, x \o y)
      BY <2>3, <2>4, FeedingInParts
    <3> QED
      BY <2>3, <2>4, <3>1 DEF x
  <2> HIDE DEF c
  <2>6. Empty(Fed(c, y)) /\ Fed(c, y).replies = Append(c.replies, r)
    BY <2>1, <2>2, WholeReply
  <2>7. SubSeq(replies, 1, k) = Append(SubSeq(replies, 1, k - 1), r)
    <3>1. k \in 1..Len(replies) /\ 1 \in 1..Len(replies) /\ k \in 1..Len(replies)
      BY <1>1
    <3>2. SubSeq(replies, 1, k) = SubSeq(replies, 1, k - 1) \o <<replies[k]>>
      BY <3>1, SubSeqRecursiveSecond
    <3> DEFINE p == SubSeq(replies, 1, k - 1)
    <3>3. p \in Seq(Reply) /\ r \in Reply
      BY <1>1, <1>2, EmptySeq, ConcatFront
    <3> HIDE DEF p, r
    <3>4. p \o <<r>> = Append(p, r)
      BY <3>3, AppendIsConcat
    <3> QED
      BY <3>2, <3>4 DEF p, r
  <2> QED
    BY <2>1, <2>5, <2>6, <2>7
<1>6. \A k \in 0..n : Good(k)
  <2> HIDE DEF Good
  <2> DEFINE T == {k \in 0..n : ~Good(k)}
  <2>1. T = {}
    <3> SUFFICES ASSUME T # {} PROVE FALSE
      OBVIOUS
    <3>1. PICK k \in T : \A j \in T : k <= j
      <4>1. T \subseteq Nat
        OBVIOUS
      <4> HIDE DEF T
      <4> QED
        BY <4>1, LeastNat
    <3>2. k \in 0..n /\ ~Good(k)
      OBVIOUS
    <3>3. k \in 1..n /\ k - 1 \in 0..n /\ ~(k <= k - 1)
      BY <1>1, <1>4, <3>2
    <3>4. Good(k - 1)
      BY <3>1, <3>3
    <3> QED
      BY <1>5, <3>2, <3>3, <3>4
  <2> QED
    BY <2>1
<1> HIDE DEF n
<1>7. \A k \in 0..n : F[k] = EncodedAll(SubSeq(replies, 1, k))
  BY DEF F
<1> QED
  BY <1>3, <1>6, <1>7 DEF n

\* Any first bytes of a stream: whole replies, and a part of the next one.
LEMMA StreamIsCut ==
  ASSUME NEW replies \in Seq(Reply), NEW i \in 0..Len(EncodedAll(replies))
  PROVE  /\ EncodedAll(replies) \in Seq(Byte)
         /\ ~Fed(NoReplyYet, SubSeq(EncodedAll(replies), 1, i)).thrown
         /\ Fed(NoReplyYet, SubSeq(EncodedAll(replies), 1, i)).replies = WholeWithin(replies, i)
<1> DEFINE n == Len(replies)
           b == NoReplyYet
           e == [j \in DOMAIN replies |-> Encoded(replies[j])]
           all == EncodedAll(replies)
           F == [k \in 0..n |-> EncodedAll(SubSeq(replies, 1, k))]
           T == {k \in 0..n : Len(F[k]) <= i}
           z == SubSeq(all, 1, i)
<1>1. n \in Nat /\ 0 \in 0..n /\ n \in 0..n
  BY LenProperties
<1>2. /\ e \in Seq(Seq(Byte)) /\ Len(e) = n
      /\ \A j \in 1..n : replies[j] \in Reply /\ e[j] = Encoded(replies[j])
      /\ (\A k \in 0..n : F[k] = FlattenSeq(SubSeq(e, 1, k))) /\ all = FlattenSeq(e)
  BY EncodedIs
<1>3. SubSeq(replies, 1, n) = replies /\ F[n] = EncodedAll(SubSeq(replies, 1, n))
  BY <1>1, SubSeqFull
<1>4. F[n] = all
  BY <1>3
<1>5. \A k \in 0..n : F[k] = EncodedAll(SubSeq(replies, 1, k))
  OBVIOUS
<1>6. WholeWithin(replies, i) = SubSeq(replies, 1, Max(T))
  BY <1>5, Zenon DEF WholeWithin
<1>7. i \in 0..Len(all)
  OBVIOUS
<1> HIDE DEF e, F, all
<1>8. \A k \in 0..n : F[k] \in Seq(Byte) /\ Empty(Fed(b, F[k]))
      /\ Fed(b, F[k]).replies = SubSeq(replies, 1, k)
  BY <1>5, AfterReplies
<1>9. all \in Seq(Byte) /\ Len(all) \in Nat /\ F[0] = <<>>
  <2>1. all \in Seq(Byte)
    BY <1>1, <1>4, <1>8
  <2>2. F[0] = <<>>
    <3>1. FlattenSeq(SubSeq(e, 1, 0)) = <<>>
      BY <1>2, FlattenIs
    <3> QED
      BY <1>1, <1>2, <3>1
  <2> QED
    BY <2>1, <2>2, LenProperties
<1>10. PICK R \in [0..n -> Seq(Byte)] :
        /\ \A k \in 1..n : R[k - 1] = e[k] \o R[k]
        /\ \A k \in 0..n : all = FlattenSeq(SubSeq(e, 1, k)) \o R[k]
  <2> HIDE DEF n
  <2> QED
    BY <1>2, FlattenRest
<1>11. PICK k \in T : \A j \in T : j <= k
  <2> DEFINE U == {j \in Nat : n - j \in T}
  <2>1. U # {}
    <3>1. Len(F[0]) = 0
      BY <1>9, EmptySeq
    <3>2. 0 \in T
      BY <1>1, <3>1
    <3>3. n - n = 0
      BY <1>1
    <3>4. n \in U
      BY <1>1, <3>2, <3>3
    <3> QED
      BY <3>4
  <2>2. PICK j \in U : \A m \in U : j <= m
    <3>1. U \subseteq Nat
      OBVIOUS
    <3> HIDE DEF U
    <3> QED
      BY <2>1, <3>1, LeastNat
  <2>3. j \in Nat /\ n - j \in T
    OBVIOUS
  <2>4. \A m \in T : m \in Nat /\ n - m \in Nat /\ n - (n - m) = m
    BY <1>1
  <2>5. \A m \in T : n - m \in U
    BY <2>4
  <2>6. \A m \in T : m <= n - j
    <3> SUFFICES ASSUME NEW m \in T PROVE m <= n - j
      OBVIOUS
    <3>1. m \in Nat /\ n - m \in U
      BY <2>4, <2>5
    <3> HIDE DEF T, U, n
    <3>2. j <= n - m
      BY <2>2, <3>1
    <3> QED
      BY <1>1, <2>3, <3>1, <3>2
  <2> QED
    BY <2>3, <2>6
<1>12. k \in 0..n /\ Len(F[k]) <= i
  OBVIOUS
<1>13. WholeWithin(replies, i) = SubSeq(replies, 1, k)
  <2>1. T \subseteq Nat
    OBVIOUS
  <2> HIDE DEF T
  <2>2. Max(T) = k
    <3>1. \A x, y \in T : x \in Nat /\ y \in Nat
      BY <2>1
    <3>2. k \in T /\ \A y \in T : k >= y
      BY <1>11, <3>1
    <3>3. Max(T) \in T /\ \A y \in T : Max(T) >= y
      <4>1. Max(T) = CHOOSE x \in T : \A y \in T : x >= y
        BY Zenon DEF Max
      <4> QED
        BY <3>2, <4>1
    <3> QED
      BY <3>1, <3>2, <3>3
  <2> QED
    BY <1>6, <2>2
<1> DEFINE p == F[k]
           c == Fed(b, p)
<1>14. p \in Seq(Byte) /\ Len(p) \in Nat /\ Empty(c) /\ c.replies = SubSeq(replies, 1, k)
  BY <1>8, <1>12, LenProperties
<1>15. ~c.thrown
  BY <1>14, EmptyIs
<1>16. CASE k = n
  <2>1. i = Len(all)
    BY <1>7, <1>4, <1>9, <1>12, <1>16
  <2>2. z = p
    BY <1>4, <1>9, <1>16, <2>1, SubSeqFull
  <2>3. ~Fed(b, z).thrown /\ Fed(b, z).replies = WholeWithin(replies, i)
    BY <1>13, <1>14, <1>15, <2>2
  <2> QED
    BY <1>9, <2>3 DEF all
<1>17. CASE k # n
  <2> DEFINE l == k + 1
             y == e[l]
             t == R[l]
             m == i - Len(p)
             d == SubSeq(y, 1, m)
             f == Dropped(y, m)
             r == replies[l]
  <2>1. l \in 1..n /\ l \in 0..n /\ l - 1 = k /\ ~(l <= k)
    BY <1>1, <1>12, <1>17
  <2>2. Reads(y, r) /\ y \in Seq(Byte) /\ t \in Seq(Byte) /\ Len(y) \in Nat
    <3>1. Reads(y, r)
      BY <1>2, <2>1, ReplyIsRead
    <3> QED
      BY <1>10, <2>1, <3>1, LenProperties DEF Reads
  <2>3. all = p \o (y \o t)
    BY <1>2, <1>10, <1>12, <2>1
  <2>4. F[l] = p \o y
    <3>1. FlattenSeq(SubSeq(e, 1, l)) = FlattenSeq(SubSeq(e, 1, l - 1)) \o e[l]
      BY <1>2, <2>1, FlattenIs
    <3> QED
      BY <1>2, <1>12, <2>1, <3>1
  <2>5. Len(p) + Len(y) > i
    <3>1. l \notin T
      BY <1>11, <2>1
    <3>2. Len(F[l]) = Len(p) + Len(y)
      BY <1>14, <2>2, <2>4, ConcatProperties
    <3>3. ~(Len(F[l]) <= i)
      BY <2>1, <3>1
    <3> HIDE DEF p, y, l
    <3> QED
      BY <1>9, <1>14, <2>2, <3>2, <3>3
  <2>6. m \in 0..Len(y) /\ m # Len(y) /\ Len(p) + m = i
    <3>1. i \in Nat /\ Len(p) <= i
      BY <1>9, <1>12
    <3> HIDE DEF p, y
    <3> QED
      BY <1>14, <2>2, <2>5, <3>1
  <2> HIDE DEF p, y, t, m, l, r
  <2>7. z = p \o d
    <3>1. y \o t \in Seq(Byte) /\ Len(y \o t) = Len(y) + Len(t) /\ Len(t) \in Nat
      BY <2>2, ConcatProperties, LenProperties
    <3>2. m \in 0..Len(y \o t)
      BY <2>2, <2>6, <3>1
    <3> DEFINE s == y \o t
    <3>3. s \in Seq(Byte) /\ m \in 0..Len(s)
      BY <3>1, <3>2
    <3>4. SubSeq(s, 1, m) = d
      BY <2>2, <2>6, ConcatFront
    <3> HIDE DEF s, d
    <3>5. SubSeq(p \o s, 1, Len(p) + m) = p \o SubSeq(s, 1, m)
      BY <1>14, <3>3, ConcatRest
    <3> QED
      BY <2>3, <2>6, <3>4, <3>5 DEF s
  <2>8. d \in Seq(Byte) /\ f \in Seq(Byte) /\ f # <<>> /\ y = d \o f
    <3>1. d \in Seq(Byte) /\ f \in Seq(Byte) /\ Len(f) = Len(y) - m
      BY <2>2, <2>6, EmptySeq, ConcatFront, DroppedIs
    <3>2. f # <<>>
      BY <2>2, <2>6, <3>1, EmptySeq
    <3>3. y = d \o f
      <4>1. 1 \in 1..Len(y) + 1 /\ m \in 1 - 1..Len(y) /\ Len(y) \in m..Len(y)
        BY <2>2, <2>6
      <4>2. SubSeq(y, 1, m) \o SubSeq(y, m + 1, Len(y)) = SubSeq(y, 1, Len(y))
        BY <2>2, <4>1, ConcatAdjacentSubSeq
      <4>3. SubSeq(y, 1, Len(y)) = y
        BY <2>2, SubSeqFull
      <4> QED
        BY <4>2, <4>3, Zenon DEF Dropped
    <3> QED
      BY <3>1, <3>2, <3>3
  <2> HIDE DEF d, f, z, c
  <2>9. Fed(b, z) = Fed(c, d)
    <3>1. IsDecoder(b)
      BY StartIsEmpty, EmptyIs
    <3> HIDE DEF b
    <3>2. ~Fed(b, p).thrown => Fed(Fed(b, p), d) = Fed(b, p \o d)
      BY <1>14, <2>8, <3>1, FeedingInParts
    <3> QED
      BY <1>15, <2>7, <3>2 DEF c
  <2>10. ~Fed(c, d).thrown /\ Fed(c, d).replies = c.replies
    <3>1. Reads(d \o f, r)
      BY <2>2, <2>8
    <3> QED
      BY <1>14, <2>8, <3>1, PartOfReply
  <2> QED
    BY <1>9, <1>13, <1>14, <2>9, <2>10 DEF all, z
<1> QED
  BY <1>16, <1>17

\* A new decoder that is fed a stream of any replies in any pieces - a piece may end
\* inside a size, between CR and LF, in a text that looks like an end of line, or in a
\* row of an array - never fails, has after each byte exactly the replies that are
\* complete, and is in the state that the bytes so far lead to in one piece.
THEOREM EveryCutDecodes == \A replies \in Seq(Reply) : DecodesStream(NoReplyYet, replies)
<1> SUFFICES ASSUME NEW replies \in Seq(Reply) PROVE DecodesStream(NoReplyYet, replies)
  OBVIOUS
<1> DEFINE b == NoReplyYet
           bytes == EncodedAll(replies)
           after == [i \in 0..Len(bytes) |-> Fed(b, SubSeq(bytes, 1, i))]
<1>1. bytes \in Seq(Byte) /\ Len(bytes) \in Nat
  <2>1. \A i \in 0..Len(bytes) : bytes \in Seq(Byte)
    BY StreamIsCut
  <2>2. bytes \in Seq(Byte)
    <3>1. Len(replies) \in 0..Len(replies) /\ SubSeq(replies, 1, Len(replies)) = replies
      BY LenProperties, SubSeqFull
    <3> QED
      BY <3>1, AfterReplies
  <2> QED
    BY <2>2, LenProperties
<1>2. \A i \in 0..Len(bytes) : after[i] = Fed(b, SubSeq(bytes, 1, i))
  OBVIOUS
<1>3. \A i \in 0..Len(bytes) : ~after[i].thrown /\ after[i].replies = WholeWithin(replies, i)
  <2>1. \A i \in 0..Len(bytes) : /\ ~Fed(b, SubSeq(bytes, 1, i)).thrown
                                 /\ Fed(b, SubSeq(bytes, 1, i)).replies = WholeWithin(replies, i)
    BY StreamIsCut
  <2> HIDE DEF after, bytes
  <2> QED
    BY <1>2, <2>1
<1> HIDE DEF after
<1>4. ASSUME NEW i \in 0..Len(bytes), NEW j \in i..Len(bytes)
      PROVE  after[j] = Fed(after[i], SubSeq(bytes, i + 1, j))
  <2> DEFINE x == SubSeq(bytes, 1, i)
             y == SubSeq(bytes, i + 1, j)
  <2> HIDE DEF bytes
  <2>1. i \in Nat /\ j \in Nat /\ j \in 0..Len(bytes) /\ i <= j
    BY <1>1
  <2>2. x \o y = SubSeq(bytes, 1, j)
    <3>1. 1 \in 1..Len(bytes) + 1 /\ i \in 1 - 1..Len(bytes) /\ j \in i..Len(bytes)
      BY <1>1, <2>1
    <3> QED
      BY <1>1, <3>1, ConcatAdjacentSubSeq
  <2>3. x \in Seq(Byte) /\ y \in Seq(Byte)
    <3>1. x \in Seq(Byte)
      BY <1>1, EmptySeq, ConcatFront
    <3>2. \A m \in i + 1..j : bytes[m] \in Byte
      <4>1. \A m \in i + 1..j : m \in 1..Len(bytes)
        BY <1>1, <2>1
      <4> QED
        BY <1>1, <4>1, ElementOfSeq
    <3>3. i + 1 \in Int /\ j \in Int
      BY <2>1
    <3>4. y \in Seq(Byte)
      BY <3>2, <3>3, SubSeqProperties
    <3> QED
      BY <3>1, <3>4
  <2>4. IsDecoder(b)
    BY StartIsEmpty, EmptyIs
  <2>5. after[i] = Fed(b, x) /\ ~after[i].thrown /\ after[j] = Fed(b, SubSeq(bytes, 1, j))
    BY <1>2, <1>3, <2>1
  <2> HIDE DEF x, y, b
  <2>6. ~Fed(b, x).thrown => Fed(Fed(b, x), y) = Fed(b, x \o y)
    BY <2>3, <2>4, FeedingInParts
  <2>7. Fed(after[i], y) = after[j]
    BY <2>2, <2>5, <2>6
  <2> QED
    BY <2>7 DEF y
<1>5. \A i \in 0..Len(bytes) :
        /\ ~after[i].thrown
        /\ after[i].replies = WholeWithin(replies, i)
        /\ \A j \in i..Len(bytes) : after[j] = Fed(after[i], SubSeq(bytes, i + 1, j))
  <2> HIDE DEF bytes, b
  <2> QED
    BY <1>3, <1>4
<1> QED
  BY <1>5, Zenon DEF DecodesStream, after
=============================================================================
