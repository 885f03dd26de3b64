------------------------------ MODULE Leb128Proofs ------------------------------
(***************************************************************************)
(* What is read and where the stream stands after it, for every width of   *)
(* groups and integers and encodings of any length.                        *)
(*                                                                         *)
(* What 2^n and the value of some bytes are is defined by recursion: the   *)
(* first section shows that such a definition has the function it asks     *)
(* for, and that what goes over from each number to the next holds of all. *)
(***************************************************************************)
EXTENDS Leb128, SequenceTheorems, WellFoundedInduction, TLAPS

LEMMA LeastOf ==
  ASSUME NEW T, T \subseteq Nat, T # {}
  PROVE  \E x \in T : \A y \in T : ~(y < x)
<1>1. \E x \in T : \A y \in T : <<y, x>> \notin OpToRel(<, Nat)
  BY WFMin, NatLessThanWellFounded, Zenon
<1>2. \A x, y \in Nat : <<y, x>> \in OpToRel(<, Nat) <=> y < x
  BY Zenon DEF OpToRel
<1> QED BY <1>1, <1>2, Zenon

LEMMA SetInduction ==
  ASSUME NEW S, 0 \in S, \A n \in Nat : n \in S => n + 1 \in S
  PROVE  Nat \subseteq S
<1> SUFFICES ASSUME Nat \ S # {} PROVE FALSE
  OBVIOUS
<1>1. PICK x \in Nat \ S : \A y \in Nat \ S : ~(y < x)
  BY LeastOf
<1>2. x # 0 /\ x - 1 \in Nat /\ x - 1 \in S
  BY <1>1
<1> QED BY <1>1, <1>2

\* f begins with a and goes on by g.
Follows(f, a, g) == f[0] = a /\ \A n \in Nat : f[n + 1] = g[n][f[n]]

\* f is the start of the sequence that begins with a and goes on by g.
StartsFrom(f, n, S, a, g) ==
  /\ f \in [0..n -> S] /\ f[0] = a
  /\ \A i \in 0..n : i < n => f[i + 1] = g[i][f[i]]

LEMMA StartsAgree ==
  ASSUME NEW S, NEW a, NEW g, NEW m \in Nat, NEW n \in Nat, NEW e, NEW f,
         StartsFrom(e, m, S, a, g), StartsFrom(f, n, S, a, g)
  PROVE  \A i \in Nat : i <= m /\ i <= n => e[i] = f[i]
<1> DEFINE Agree == {i \in Nat : i <= m /\ i <= n => e[i] = f[i]}
<1>1. 0 \in Agree
  BY DEF StartsFrom
<1>2. ASSUME NEW i \in Nat, i \in Agree PROVE i + 1 \in Agree
  BY <1>2 DEF StartsFrom
<1> HIDE DEF Agree
<1>3. Nat \subseteq Agree
  BY <1>1, <1>2, SetInduction
<1> QED BY <1>3 DEF Agree

\* Recursion on the natural numbers, with the step as a function.
LEMMA Recursion ==
  ASSUME NEW S, NEW a \in S, NEW g \in [Nat -> [S -> S]]
  PROVE  \E f \in [Nat -> S] : Follows(f, a, g)
<1> DEFINE Has == {n \in Nat : \E f : StartsFrom(f, n, S, a, g)}
<1>1. 0 \in Has
  <2>1. StartsFrom([i \in 0..0 |-> a], 0, S, a, g)
    BY DEF StartsFrom
  <2> QED BY <2>1
<1>2. ASSUME NEW n \in Nat, n \in Has PROVE n + 1 \in Has
  <2>1. PICK f : StartsFrom(f, n, S, a, g)
    BY <1>2
  <2> DEFINE h == [i \in 0..(n + 1) |-> IF i = n + 1 THEN g[n][f[n]] ELSE f[i]]
  <2>2. f[n] \in S /\ g[n][f[n]] \in S
    BY <2>1 DEF StartsFrom
  <2>3. h \in [0..(n + 1) -> S] /\ h[0] = a
    BY <2>1, <2>2 DEF StartsFrom
  <2>4. ASSUME NEW i \in 0..(n + 1), i < n + 1 PROVE h[i + 1] = g[i][h[i]]
    BY <2>1, <2>4 DEF StartsFrom
  <2>5. StartsFrom(h, n + 1, S, a, g)
    BY <2>3, <2>4 DEF StartsFrom
  <2> QED BY <2>5
<1> HIDE DEF Has
<1>3. Nat \subseteq Has
  BY <1>1, <1>2, SetInduction
<1> DEFINE Start(n) == CHOOSE f : StartsFrom(f, n, S, a, g)
<1>4. ASSUME NEW n \in Nat PROVE StartsFrom(Start(n), n, S, a, g)
  BY <1>3 DEF Has
<1> HIDE DEF Start
<1> DEFINE F == [n \in Nat |-> Start(n)[n]]
<1>5. F \in [Nat -> S] /\ F[0] = a
  BY <1>4 DEF StartsFrom
<1>6. ASSUME NEW n \in Nat PROVE F[n + 1] = g[n][F[n]]
  <2>1. StartsFrom(Start(n), n, S, a, g) /\ StartsFrom(Start(n + 1), n + 1, S, a, g)
    BY <1>4
  <2>2. Start(n)[n] = Start(n + 1)[n]
    BY <2>1, StartsAgree
  <2>3. Start(n + 1)[n + 1] = g[n][Start(n + 1)[n]]
    BY <2>1 DEF StartsFrom
  <2> QED BY <2>2, <2>3
<1> HIDE DEF F
<1>7. Follows(F, a, g)
  BY <1>5, <1>6 DEF Follows
<1> QED BY <1>5, <1>7

-----------------------------------------------------------------------------
(* Powers of two.                                                          *)

LEMMA Powers ==
  /\ Pow2 \in [Nat -> Nat] /\ Pow2[0] = 1
  /\ \A n \in Nat : Pow2[n + 1] = 2 * Pow2[n]
<1> DEFINE Double == [n \in Nat |-> [v \in Nat |-> 2 * v]]
<1>1. Double \in [Nat -> [Nat -> Nat]]
  OBVIOUS
<1>2. \A n, v \in Nat : Double[n][v] = 2 * v
  OBVIOUS
<1> HIDE DEF Double
<1>3. PICK f \in [Nat -> Nat] : Follows(f, 1, Double)
  BY <1>1, Recursion
<1>4. f = [n \in Nat |-> IF n = 0 THEN 1 ELSE 2 * f[n - 1]]
  <2>1. ASSUME NEW n \in Nat PROVE f[n] = IF n = 0 THEN 1 ELSE 2 * f[n - 1]
    <3>1. CASE n = 0
      BY <1>3, <3>1 DEF Follows
    <3>2. CASE n # 0
      <4>1. n - 1 \in Nat /\ (n - 1) + 1 = n
        BY <3>2
      <4> QED BY <1>2, <1>3, <3>2, <4>1 DEF Follows
    <3> QED BY <3>1, <3>2
  <2> QED BY <1>3, <2>1
<1>5. Pow2 = [n \in Nat |-> IF n = 0 THEN 1 ELSE 2 * Pow2[n - 1]]
  BY <1>4 DEF Pow2
<1>6. Pow2[0] = 1 /\ \A n \in Nat : Pow2[n + 1] = 2 * Pow2[n]
  BY <1>5
<1> DEFINE Natural == {n \in Nat : Pow2[n] \in Nat}
<1>7. Nat \subseteq Natural
  <2>1. 0 \in Natural
    BY <1>6
  <2>2. ASSUME NEW n \in Nat, n \in Natural PROVE n + 1 \in Natural
    BY <1>6, <2>2
  <2> HIDE DEF Natural
  <2> QED BY <2>1, <2>2, SetInduction
<1>8. \A n \in Nat : Pow2[n] \in Nat
  BY <1>7
<1>9. Pow2 \in [Nat -> Nat]
  BY <1>5, <1>8
<1> QED BY <1>6, <1>9

LEMMA PowerIsPositive ==
  ASSUME NEW n \in Nat
  PROVE  Pow2[n] \in Nat \ {0}
<1> DEFINE S == {m \in Nat : Pow2[m] \in Nat \ {0}}
<1>1. 0 \in S
  BY Powers
<1>2. ASSUME NEW m \in Nat, m \in S PROVE m + 1 \in S
  BY <1>2, Powers
<1> HIDE DEF S
<1>3. Nat \subseteq S
  BY <1>1, <1>2, SetInduction
<1> QED BY <1>3 DEF S

LEMMA PowerOfSum ==
  ASSUME NEW m \in Nat, NEW n \in Nat
  PROVE  Pow2[m + n] = Pow2[m] * Pow2[n]
<1> DEFINE S == {k \in Nat : Pow2[m + k] = Pow2[m] * Pow2[k]}
<1>1. 0 \in S
  BY Powers
<1>2. ASSUME NEW k \in Nat, k \in S PROVE k + 1 \in S
  <2>1. Pow2[m + (k + 1)] = 2 * Pow2[m + k]
    <3>1. m + (k + 1) = (m + k) + 1 /\ m + k \in Nat
      OBVIOUS
    <3> QED BY <3>1, Powers
  <2>2. Pow2[k + 1] = 2 * Pow2[k] /\ Pow2[k] \in Nat /\ Pow2[m] \in Nat
    BY Powers
  <2>3. \A a, b \in Nat : 2 * (a * b) = a * (2 * b)
    OBVIOUS
  <2> QED BY <1>2, <2>1, <2>2, <2>3
<1> HIDE DEF S
<1>3. Nat \subseteq S
  BY <1>1, <1>2, SetInduction
<1> QED BY <1>3 DEF S

LEMMA PowersGrow ==
  ASSUME NEW m \in Nat, NEW n \in Nat, m <= n
  PROVE  Pow2[m] <= Pow2[n]
<1>1. n - m \in Nat /\ m + (n - m) = n
  OBVIOUS
<1>2. Pow2[n] = Pow2[m] * Pow2[n - m]
  BY <1>1, PowerOfSum
<1>3. Pow2[m] \in Nat /\ Pow2[n - m] \in Nat \ {0}
  BY <1>1, PowerIsPositive
<1>4. \A a \in Nat : \A b \in Nat \ {0} : a <= a * b
  OBVIOUS
<1> QED BY <1>2, <1>3, <1>4

-----------------------------------------------------------------------------
(* The value of a sequence of bytes.                                       *)

LEMMA GroupFacts ==
  /\ GroupBits \in Nat /\ GroupBits >= 2
  /\ Group = Pow2[GroupBits] /\ Half = Pow2[GroupBits - 1] /\ Group = 2 * Half
  /\ Group \in Nat /\ Half \in Nat \ {0}
<1>1. GroupBits \in Nat /\ GroupBits >= 2 /\ GroupBits - 1 \in Nat
  BY Leb128Assumption
<1>2. Pow2[(GroupBits - 1) + 1] = 2 * Pow2[GroupBits - 1]
  BY <1>1, Powers
<1>3. (GroupBits - 1) + 1 = GroupBits
  BY <1>1
<1>4. Pow2[GroupBits - 1] \in Nat \ {0}
  BY <1>1, PowerIsPositive
<1>5. \A h \in Nat : (2 * h) \div 2 = h
  OBVIOUS
<1> QED BY <1>1, <1>2, <1>3, <1>4, <1>5 DEF Group, Half

LEMMA Products ==
  ASSUME NEW a \in Int, NEW b \in Int, NEW p \in Nat \ {0}
  PROVE  /\ a * p \in Int /\ b * p \in Int
         /\ a < b <=> a * p < b * p
         /\ a <= b <=> a * p <= b * p
         /\ a < b => a * p + p <= b * p
<1>1. \A d \in Nat : d * p >= 0 /\ (d > 0 => d * p >= p)
  OBVIOUS
<1>2. CASE a < b
  <2>1. (b - a) * p >= p /\ (b - a) * p = b * p - a * p
    BY <1>1, <1>2
  <2> QED BY <1>2, <2>1
<1>3. CASE ~(a < b)
  <2>1. (a - b) * p >= 0 /\ (a - b) * p = a * p - b * p
    BY <1>1, <1>3
  <2>2. a - b > 0 => (a - b) * p >= p
    BY <1>1, <1>3
  <2> QED BY <1>3, <2>1, <2>2
<1> QED BY <1>2, <1>3

LEMMA ValueSteps ==
  ASSUME NEW bs \in Seq(Bytes)
  PROVE  /\ ValuesUpTo(bs) \in [0..Len(bs) -> Nat]
         /\ ValuesUpTo(bs)[0] = 0
         /\ \A n \in Nat : n < Len(bs) =>
              ValuesUpTo(bs)[n + 1] =
                ValuesUpTo(bs)[n] + bs[n + 1].bits * Pow2[n * GroupBits]
<1> DEFINE Part(n) == bs[n].bits * Pow2[(n - 1) * GroupBits]
           Plus == [n \in Nat |-> [v \in Nat |-> IF n < Len(bs) THEN v + Part(n + 1) ELSE v]]
<1>1. Len(bs) \in Nat
  OBVIOUS
<1>2. \A n \in Nat : n < Len(bs) => Part(n + 1) \in Nat
  <2> SUFFICES ASSUME NEW n \in Nat, n < Len(bs) PROVE Part(n + 1) \in Nat
    OBVIOUS
  <2>1. n + 1 \in 1..Len(bs) /\ (n + 1) - 1 = n
    BY <1>1
  <2>2. bs[n + 1] \in Bytes
    BY <2>1
  <2>3. bs[n + 1].bits \in Nat
    BY <2>2, GroupFacts DEF Bytes
  <2>4. n * GroupBits \in Nat
    BY GroupFacts
  <2>5. Pow2[n * GroupBits] \in Nat
    BY <2>4, Powers
  <2>6. \A x, y \in Nat : x * y \in Nat
    OBVIOUS
  <2> QED BY <2>1, <2>3, <2>5, <2>6
<1> HIDE DEF Part
<1>3. Plus \in [Nat -> [Nat -> Nat]]
  BY <1>1, <1>2
<1>4. \A n, v \in Nat : n < Len(bs) => Plus[n][v] = v + Part(n + 1)
  OBVIOUS
<1> HIDE DEF Plus
<1>5. PICK f \in [Nat -> Nat] : Follows(f, 0, Plus)
  BY <1>3, Recursion
<1>6. f[0] = 0 /\ \A n \in Nat : n < Len(bs) => f[n + 1] = f[n] + Part(n + 1)
  BY <1>4, <1>5 DEF Follows
<1> DEFINE h == [n \in 0..Len(bs) |-> f[n]]
<1>7. h \in [0..Len(bs) -> Nat] /\ h[0] = 0
  BY <1>1, <1>6
<1>8. \A n \in Nat : n < Len(bs) => h[n + 1] = h[n] + Part(n + 1)
  BY <1>1, <1>6
<1> HIDE DEF h
<1>9. h = [n \in 0..Len(bs) |-> IF n = 0 THEN 0 ELSE h[n - 1] + Part(n)]
  <2>1. ASSUME NEW n \in 0..Len(bs) PROVE h[n] = IF n = 0 THEN 0 ELSE h[n - 1] + Part(n)
    <3>1. CASE n = 0
      BY <1>7, <3>1
    <3>2. CASE n # 0
      <4>1. n - 1 \in Nat /\ n - 1 < Len(bs) /\ (n - 1) + 1 = n
        BY <1>1, <3>2
      <4> QED BY <1>8, <3>2, <4>1
    <3> QED BY <3>1, <3>2
  <2> QED BY <1>7, <2>1
<1> DEFINE Is(g) == g = [n \in 0..Len(bs) |-> IF n = 0 THEN 0 ELSE g[n - 1] + Part(n)]
<1>10. ValuesUpTo(bs) = CHOOSE g : Is(g)
  BY DEF ValuesUpTo, Part
<1>11. Is(ValuesUpTo(bs))
  <2>1. Is(h)
    BY <1>9
  <2> HIDE DEF Is
  <2> QED BY <1>10, <2>1
<1> DEFINE V == ValuesUpTo(bs)
<1> HIDE DEF V
<1>12. V = [n \in 0..Len(bs) |-> IF n = 0 THEN 0 ELSE V[n - 1] + Part(n)]
  BY <1>11 DEF V
<1>13. V[0] = 0
  BY <1>1, <1>12
<1>14. \A n \in Nat : n < Len(bs) => V[n + 1] = V[n] + Part(n + 1)
  <2> SUFFICES ASSUME NEW n \in Nat, n < Len(bs) PROVE V[n + 1] = V[n] + Part(n + 1)
    OBVIOUS
  <2>1. n + 1 \in 0..Len(bs) /\ n + 1 # 0 /\ (n + 1) - 1 = n
    BY <1>1
  <2> QED BY <1>12, <2>1
<1> DEFINE Natural == {n \in Nat : n <= Len(bs) => V[n] \in Nat}
<1>15. Nat \subseteq Natural
  <2>1. 0 \in Natural
    BY <1>13
  <2>2. ASSUME NEW n \in Nat, n \in Natural PROVE n + 1 \in Natural
    <3> SUFFICES ASSUME n + 1 <= Len(bs) PROVE V[n + 1] \in Nat
      OBVIOUS
    <3>1. n < Len(bs) /\ V[n] \in Nat
      BY <1>1, <2>2
    <3>2. V[n + 1] = V[n] + Part(n + 1) /\ Part(n + 1) \in Nat
      BY <1>2, <1>14, <3>1
    <3>3. \A x, y \in Nat : x + y \in Nat
      OBVIOUS
    <3> QED BY <3>1, <3>2, <3>3
  <2> HIDE DEF Natural
  <2> QED BY <2>1, <2>2, SetInduction
<1>16. V \in [0..Len(bs) -> Nat]
  <2>1. \A n \in 0..Len(bs) : V[n] \in Nat
    BY <1>1, <1>15
  <2> QED BY <1>12, <2>1
<1>17. \A n \in Nat : n < Len(bs) => Part(n + 1) = bs[n + 1].bits * Pow2[n * GroupBits]
  <2>1. \A n \in Nat : (n + 1) - 1 = n
    OBVIOUS
  <2> QED BY <2>1 DEF Part
<1> QED BY <1>13, <1>14, <1>16, <1>17 DEF V

LEMMA ValueOfNone == UnsignedValue(<<>>) = 0
<1>1. <<>> \in Seq(Bytes) /\ Len(<<>>) = 0
  OBVIOUS
<1> QED BY <1>1, ValueSteps DEF UnsignedValue

\* A byte more adds its bits above those of the others.
LEMMA ValueOfAppend ==
  ASSUME NEW bs \in Seq(Bytes), NEW b \in Bytes
  PROVE  UnsignedValue(Append(bs, b)) =
           UnsignedValue(bs) + b.bits * Pow2[Len(bs) * GroupBits]
<1> DEFINE cs == Append(bs, b)
           V == ValuesUpTo(bs)
           W == ValuesUpTo(cs)
<1>1. /\ cs \in Seq(Bytes) /\ Len(bs) \in Nat /\ Len(cs) = Len(bs) + 1
      /\ cs[Len(bs) + 1] = b
      /\ \A n \in Nat : n < Len(bs) => cs[n + 1] = bs[n + 1]
  OBVIOUS
<1> HIDE DEF cs
<1>2. /\ V[0] = 0
      /\ \A n \in Nat : n < Len(bs) =>
           V[n + 1] = V[n] + bs[n + 1].bits * Pow2[n * GroupBits]
  BY ValueSteps
<1>3. /\ W[0] = 0
      /\ \A n \in Nat : n < Len(cs) =>
           W[n + 1] = W[n] + cs[n + 1].bits * Pow2[n * GroupBits]
  BY <1>1, ValueSteps
<1> HIDE DEF V, W
<1> DEFINE Same == {n \in Nat : n <= Len(bs) => W[n] = V[n]}
<1>4. Nat \subseteq Same
  <2>1. 0 \in Same
    BY <1>2, <1>3
  <2>2. ASSUME NEW n \in Nat, n \in Same PROVE n + 1 \in Same
    <3> SUFFICES ASSUME n + 1 <= Len(bs) PROVE W[n + 1] = V[n + 1]
      OBVIOUS
    <3>1. n < Len(bs) /\ n < Len(cs) /\ n <= Len(bs)
      BY <1>1
    <3> QED BY <1>1, <1>2, <1>3, <2>2, <3>1
  <2> HIDE DEF Same
  <2> QED BY <2>1, <2>2, SetInduction
<1>5. W[Len(bs)] = V[Len(bs)]
  BY <1>1, <1>4
<1>6. W[Len(bs) + 1] = W[Len(bs)] + b.bits * Pow2[Len(bs) * GroupBits]
  BY <1>1, <1>3
<1> QED BY <1>1, <1>5, <1>6 DEF UnsignedValue, V, W, cs

LEMMA PowerOfGroups ==
  ASSUME NEW n \in Nat
  PROVE  /\ n * GroupBits \in Nat /\ (n + 1) * GroupBits = n * GroupBits + GroupBits
         /\ Pow2[n * GroupBits] \in Nat \ {0}
         /\ Pow2[(n + 1) * GroupBits] = Group * Pow2[n * GroupBits]
<1>1. n * GroupBits \in Nat /\ (n + 1) * GroupBits = n * GroupBits + GroupBits
  BY GroupFacts
<1>2. Pow2[n * GroupBits + GroupBits] = Pow2[n * GroupBits] * Pow2[GroupBits]
  BY <1>1, GroupFacts, PowerOfSum
<1>3. Pow2[n * GroupBits] \in Nat \ {0}
  BY <1>1, PowerIsPositive
<1>4. \A x, y \in Nat : x * y = y * x
  OBVIOUS
<1> QED BY <1>1, <1>2, <1>3, <1>4, GroupFacts

LEMMA ValueBound ==
  ASSUME NEW bs \in Seq(Bytes)
  PROVE  UnsignedValue(bs) \in Nat /\ UnsignedValue(bs) < Pow2[Len(bs) * GroupBits]
<1> DEFINE V == ValuesUpTo(bs)
<1>1. Len(bs) \in Nat
  OBVIOUS
<1>2. /\ V \in [0..Len(bs) -> Nat] /\ V[0] = 0
      /\ \A n \in Nat : n < Len(bs) =>
           V[n + 1] = V[n] + bs[n + 1].bits * Pow2[n * GroupBits]
  BY ValueSteps
<1> HIDE DEF V
<1> DEFINE Small == {n \in Nat : n <= Len(bs) => V[n] < Pow2[n * GroupBits]}
<1>3. Nat \subseteq Small
  <2>1. 0 \in Small
    <3>1. 0 * GroupBits = 0
      BY GroupFacts
    <3>2. V[0] < Pow2[0]
      BY <1>2, Powers
    <3> QED BY <3>1, <3>2
  <2>2. ASSUME NEW n \in Nat, n \in Small PROVE n + 1 \in Small
    <3> SUFFICES ASSUME n + 1 <= Len(bs) PROVE V[n + 1] < Pow2[(n + 1) * GroupBits]
      OBVIOUS
    <3>1. n < Len(bs) /\ n <= Len(bs) /\ n + 1 \in 1..Len(bs) /\ n \in 0..Len(bs)
      BY <1>1
    <3>2. bs[n + 1].bits \in 0..(Group - 1)
      <4>1. bs[n + 1] \in Bytes
        BY <3>1
      <4> QED BY <4>1 DEF Bytes
    <3>3. V[n] \in Nat /\ V[n] < Pow2[n * GroupBits]
      BY <1>2, <2>2, <3>1
    <3>4. \A g, p, v \in Nat : \A c \in 0..(g - 1) : v < p => v + c * p < g * p
      <4> SUFFICES ASSUME NEW g \in Nat, NEW p \in Nat, NEW v \in Nat,
                          NEW c \in 0..(g - 1), v < p
                   PROVE  v + c * p < g * p
        OBVIOUS
      <4>1. c * p + p <= g * p
        BY Products
      <4> QED BY <4>1
    <3>5. V[n] + bs[n + 1].bits * Pow2[n * GroupBits] < Group * Pow2[n * GroupBits]
      BY <3>2, <3>3, <3>4, GroupFacts, PowerOfGroups
    <3> QED BY <1>2, <3>1, <3>5, PowerOfGroups
  <2> HIDE DEF Small
  <2> QED BY <2>1, <2>2, SetInduction
<1> QED BY <1>1, <1>2, <1>3 DEF UnsignedValue, V

-----------------------------------------------------------------------------
(* Remainders and quotients.                                               *)

LEMMA Division ==
  \A x \in Int : \A m \in Nat \ {0} :
    x \div m \in Int /\ x % m \in 0..(m - 1) /\ x % m = x - m * (x \div m)
  OBVIOUS

LEMMA Remainders ==
  ASSUME NEW m \in Nat \ {0}, NEW q \in Int, NEW r \in 0..(m - 1)
  PROVE  (q * m + r) % m = r /\ (q * m + r) \div m = q
<1>1. q * m \in Int
  OBVIOUS
<1> DEFINE x == q * m + r
<1>2. x \in Int /\ x \div m \in Int /\ x % m \in 0..(m - 1)
      /\ x % m = x - m * (x \div m)
  BY <1>1
<1>3. x \div m = q
  <2>1. m * (x \div m) = (x \div m) * m /\ (x \div m) * m \in Int
    BY <1>2
  <2>2. (q + 1) * m = q * m + m /\ (q - 1) * m = q * m - m
    BY <1>1
  <2>3. (x \div m) * m < (q + 1) * m /\ (q - 1) * m < (x \div m) * m
    BY <1>1, <1>2, <2>1, <2>2
  <2> HIDE DEF x
  <2>4. x \div m < q + 1 /\ q - 1 < x \div m
    BY <1>2, <2>3, Products
  <2> QED BY <1>2, <2>4
<1>4. x % m = r
  BY <1>1, <1>2, <1>3
<1> QED BY <1>3, <1>4

LEMMA SmallRemainder ==
  ASSUME NEW m \in Nat \ {0}, NEW x \in 0..(m - 1)
  PROVE  x % m = x
<1>1. (0 * m + x) % m = x
  BY Remainders
<1> QED BY <1>1

\* Half of 2m: a quotient by m is 0 or -1 for the numbers of that many bits.
LEMMA SignQuotient ==
  ASSUME NEW m \in Nat \ {0}, NEW s \in Int
  PROVE  (s * 2) \div (2 * m) \in {0, -1} <=> -m <= s /\ s < m
<1>1. 2 * m \in Nat \ {0} /\ s * 2 \in Int
  OBVIOUS
<1>2. ASSUME 0 <= s, s < m PROVE (s * 2) \div (2 * m) = 0
  <2>1. s * 2 \in 0..(2 * m - 1) /\ s * 2 = 0 * (2 * m) + s * 2
    BY <1>2
  <2> QED BY <1>1, <2>1, Remainders
<1>3. ASSUME s < 0, -m <= s PROVE (s * 2) \div (2 * m) = -1
  <2>1. s * 2 + 2 * m \in 0..(2 * m - 1) /\ s * 2 = (-1) * (2 * m) + (s * 2 + 2 * m)
    BY <1>3
  <2>2. -1 \in Int
    OBVIOUS
  <2> QED BY <1>1, <2>1, <2>2, Remainders
<1>4. ASSUME (s * 2) \div (2 * m) \in {0, -1} PROVE -m <= s /\ s < m
  <2>1. PICK q \in {0, -1} : q = (s * 2) \div (2 * m)
    BY <1>4
  <2>2. (s * 2) % (2 * m) = s * 2 - (2 * m) * ((s * 2) \div (2 * m))
      /\ (s * 2) % (2 * m) \in 0..(2 * m - 1)
    BY <1>1, Division
  <2> QED BY <2>1, <2>2
<1> QED BY <1>2, <1>3, <1>4

\* A value survives being shifted left there and back when nothing is cut off.
LEMMA ShiftThereAndBack ==
  ASSUME NEW p \in Nat \ {0}, NEW m \in Nat \ {0}, NEW b \in Nat
  PROVE  ((b * p) % m) \div p = b <=> b * p < m
<1>1. b * p \in Nat
  OBVIOUS
<1>2. ASSUME b * p < m PROVE ((b * p) % m) \div p = b
  <2>1. (b * p) % m = b * p
    BY <1>1, <1>2, SmallRemainder
  <2>2. (b * p + 0) \div p = b /\ b * p + 0 = b * p
    BY <1>1, Remainders
  <2> QED BY <2>1, <2>2
<1>3. ASSUME ((b * p) % m) \div p = b PROVE b * p < m
  <2>1. PICK y \in 0..(m - 1) : y = (b * p) % m
    BY <1>1
  <2>2. y % p = y - p * (y \div p) /\ y % p >= 0
    <3>1. y \in Int
      BY <2>1
    <3>2. y % p \in 0..(p - 1) /\ y % p = y - p * (y \div p)
      BY <3>1, Division
    <3> QED BY <3>2
  <2>3. y >= p * b /\ p * b = b * p
    BY <1>3, <2>1, <2>2
  <2> QED BY <1>1, <2>1, <2>2, <2>3
<1> QED BY <1>2, <1>3

\* The bytes that an integer of some width needs.
LEMMA MostBytesOfWidth ==
  ASSUME NEW w \in Widths, NEW n \in Nat
  PROVE  LET most == (w + GroupBits - 1) \div GroupBits IN
         /\ w \in Nat /\ most \in Int /\ n * GroupBits # w
         /\ n * GroupBits < w <=> n < most
<1> DEFINE g == GroupBits
           most == (w + g - 1) \div g
<1>1. w \in Nat /\ w % g # 0 /\ g \in Nat /\ g >= 2
  BY Leb128Assumption
<1> HIDE DEF g
<1>2. /\ most \in Int /\ n * g \in Nat
      /\ (w + g - 1) % g = w + g - 1 - g * ((w + g - 1) \div g)
      /\ (w + g - 1) % g \in 0..(g - 1)
  BY <1>1
<1> HIDE DEF most
<1>3. g * most = most * g /\ most * g \in Int
  BY <1>1, <1>2
<1>4. n * g # w
  <2>1. g \in Nat \ {0} /\ 0 \in 0..(g - 1) /\ n \in Int
    BY <1>1
  <2>2. (n * g + 0) % g = 0
    BY <2>1, Remainders
  <2>3. n * g + 0 = n * g
    BY <1>2
  <2> QED BY <1>1, <2>2, <2>3
<1>5. (n + 1) * g = n * g + g /\ (most + 1) * g = most * g + g
  BY <1>1, <1>2
<1>6. CASE n < most
  <2>1. (n + 1) * g <= most * g
    BY <1>1, <1>2, <1>6, Products
  <2> QED BY <1>1, <1>2, <1>3, <1>4, <1>5, <1>6, <2>1 DEF most, g
<1>7. CASE ~(n < most)
  <2>1. (most + 1) * g <= (n + 1) * g
    BY <1>1, <1>2, <1>7, Products
  <2> QED BY <1>1, <1>2, <1>3, <1>4, <1>5, <1>7, <2>1 DEF most, g
<1> QED BY <1>6, <1>7

-----------------------------------------------------------------------------
(* The bytes of a value one after the other.                               *)

AllReads == Reads \cup {Unsigned(LongBits, "index")}

LEMMA WidthsOfReads ==
  ASSUME NEW r \in AllReads
  PROVE  /\ r.width \in Widths /\ r.signed \in BOOLEAN
         /\ r.signed => r.width \in {WordBits, LongBits}
<1>1. CASE \E w \in Widths : r = Unsigned(w, "value")
  BY <1>1 DEF Unsigned
<1>2. CASE \E w \in {WordBits, LongBits} : r = [Unsigned(w, "value") EXCEPT !.signed = TRUE]
  BY <1>2 DEF Unsigned, Widths
<1>3. CASE \E p \in {"type", "blocktype"} : r = Unsigned(WordBits, p)
  BY <1>3 DEF Unsigned, Widths
<1>4. CASE r = Unsigned(LongBits, "index")
  BY <1>4 DEF Unsigned, Widths
<1> QED BY <1>1, <1>2, <1>3, <1>4 DEF AllReads, Reads

LEMMA WidthFacts ==
  /\ NarrowBits \in Nat /\ WordBits \in Nat /\ LongBits \in Nat
  /\ NarrowBits = GroupBits + 1 /\ NarrowBits < WordBits /\ WordBits < LongBits
  BY Leb128Assumption DEF Widths

\* The width of the integer that a narrower one is promoted to.
Promoted(width) == IF width < WordBits THEN WordBits ELSE width

\* Where read_leb stands between two bytes, unless a block type is read again: it
\* has their value, but for a uint8_t of two bytes or more, that refuses a third.
Progress ==
  /\ count = Len(bytes)
  /\ read.signed => count * GroupBits < read.width
  /\ \/ result = UnsignedValue(bytes)
     \/ read.width = NarrowBits /\ count = 2

\* A value that the type read cannot hold, or no value.
Unrepresentable(bs) ==
  \/ Len(bs) > MostBytes
  \/ Len(bs) = MostBytes /\ (Last(bs).more \/ ~InRange(Value(bs)))

LEMMA LastOfAppend ==
  ASSUME bytes \in Seq(Bytes), NEW b \in Bytes
  PROVE  /\ Append(bytes, b) # <<>>
         /\ Len(Append(bytes, b)) = Len(bytes) + 1
         /\ Last(Append(bytes, b)) = b
  BY DEF Last

\* TakeUnsigned refuses what does not fit, and has the value of the bytes, or the
\* low bits of it, when it does not.
LEMMA UnsignedStep ==
  ASSUME bytes \in Seq(Bytes), read \in AllReads, ~read.signed, Progress,
         NEW b \in Bytes
  PROVE  LET bs == Append(bytes, b)
             value == (result + ShiftedLeft(b.bits)) % Pow2[read.width] IN
         /\ TooLarge(b) => Unrepresentable(bs)
         /\ ~TooLarge(b) =>
              /\ Len(bs) <= MostBytes
              /\ \/ value = UnsignedValue(bs)
                 \/ /\ read.width = NarrowBits /\ Len(bs) = 2 /\ MostBytes = 2
                    /\ value = UnsignedValue(bs) % Pow2[NarrowBits]
<1> DEFINE bs == Append(bytes, b)
           w == read.width
           n == Len(bytes)
           S == n * GroupBits
           E == (n + 1) * GroupBits
           P == Pow2[S]
           B == b.bits
           U == UnsignedValue(bytes)
           X == UnsignedValue(bs)
           N == Promoted(w)
<1>1. /\ n \in Nat /\ bs \in Seq(Bytes) /\ Len(bs) = n + 1 /\ Last(bs) = b /\ bs # <<>>
      /\ B \in 0..(Group - 1)
  BY LastOfAppend DEF Bytes
<1>2. S \in Nat /\ E \in Nat /\ E = S + GroupBits /\ P \in Nat \ {0} /\ Shift = S
  <2>1. n + 1 \in Nat
    BY <1>1
  <2>2. S \in Nat /\ E = S + GroupBits /\ P \in Nat \ {0}
    BY <1>1, PowerOfGroups
  <2>3. Shift = S
    BY DEF Progress, Shift
  <2> QED BY <2>2, <2>3, GroupFacts
<1>3. B \in Nat /\ B * P \in Nat
  <2>1. B \in Nat
    BY <1>1, GroupFacts
  <2>2. \A x, y \in Nat : x * y \in Nat
    OBVIOUS
  <2> HIDE DEF B, P
  <2> QED BY <1>2, <2>1, <2>2
<1>4. /\ w \in Widths /\ w \in Nat /\ N \in Nat /\ w <= N
      /\ MostBytes \in Int /\ S # w
      /\ S < w <=> n < MostBytes
      /\ E < w <=> n + 1 < MostBytes
  <2>1. w \in Widths
    BY WidthsOfReads
  <2>2. \A k \in Nat : /\ w \in Nat /\ MostBytes \in Int /\ k * GroupBits # w
                       /\ k * GroupBits < w <=> k < MostBytes
    BY <2>1, MostBytesOfWidth DEF MostBytes
  <2>3. n + 1 \in Nat
    BY <1>1
  <2>4. N \in Nat /\ w <= N
    BY <1>1, <2>2, WidthFacts DEF Promoted
  <2> QED BY <1>1, <2>1, <2>2, <2>3, <2>4
<1>5. U \in Nat /\ U < P /\ X = U + B * P /\ X \in Nat /\ X < Pow2[E]
  <2>1. U \in Nat /\ U < P
    BY ValueBound
  <2>2. X = U + B * P
    BY ValueOfAppend
  <2>3. X \in Nat /\ X < Pow2[Len(bs) * GroupBits]
    BY <1>1, ValueBound
  <2> QED BY <1>1, <2>1, <2>2, <2>3
<1>6. InRange(Value(bs)) <=> X < Pow2[w]
  BY <1>5 DEF InRange, Value
<1>7. TooLarge(b) <=> S > w \/ ((B * P) % Pow2[N]) \div P # B
  BY <1>2 DEF TooLarge, ShiftedLeft, Promoted
<1>8. ShiftedLeft(B) = (B * P) % Pow2[N]
  BY <1>2 DEF ShiftedLeft, Promoted
<1>9. result = U \/ (w = NarrowBits /\ n = 2)
  BY DEF Progress
<1>10. E = GroupBits \/ n # 0
  BY GroupFacts
<1>11. n >= 2 => S >= 2 * GroupBits
  <2>1. \A k, g \in Nat : k >= 2 => k * g >= 2 * g
    OBVIOUS
  <2> QED BY <1>1, <2>1, GroupFacts
<1>12. MostBytes > 2 => w > 2 * GroupBits
  <2>1. 2 * GroupBits < w <=> 2 < MostBytes
    BY <1>4, MostBytesOfWidth DEF MostBytes
  <2> QED BY <1>4, <2>1, GroupFacts
<1> HIDE DEF bs, w, n, S, E, P, B, U, X, N
<1>13. /\ Pow2[w] \in Nat \ {0} /\ Pow2[N] \in Nat \ {0} /\ Pow2[w] <= Pow2[N]
       /\ Pow2[E] \in Nat \ {0} /\ (E <= w => Pow2[E] <= Pow2[w])
  BY <1>2, <1>4, PowerIsPositive, PowersGrow
<1>14. TooLarge(b) <=> S > w \/ B * P >= Pow2[N]
  <2>1. ((B * P) % Pow2[N]) \div P = B <=> B * P < Pow2[N]
    BY <1>2, <1>3, <1>13, ShiftThereAndBack
  <2> QED BY <1>3, <1>7, <1>13, <2>1
<1>15. ASSUME TooLarge(b) PROVE Unrepresentable(bs)
  <2>1. CASE S > w
    BY <1>1, <1>2, <1>4, <2>1 DEF Unrepresentable
  <2>2. CASE S <= w /\ B * P >= Pow2[N]
    <3>1. X >= Pow2[w]
      BY <1>3, <1>5, <1>13, <2>2
    <3>2. ~(E < w)
      BY <1>2, <1>4, <1>5, <1>13, <3>1
    <3>3. n + 1 >= MostBytes
      BY <1>1, <1>4, <3>2
    <3>4. ~InRange(Value(bs))
      BY <1>5, <1>6, <1>13, <3>1
    <3> QED BY <1>1, <1>4, <3>3, <3>4 DEF Unrepresentable
  <2> QED BY <1>2, <1>4, <1>14, <1>15, <2>1, <2>2
<1>16. ASSUME ~TooLarge(b)
       PROVE  /\ Len(bs) <= MostBytes
              /\ LET value == (result + ShiftedLeft(B)) % Pow2[w] IN
                 \/ value = X
                 \/ w = NarrowBits /\ Len(bs) = 2 /\ MostBytes = 2 /\ value = X % Pow2[w]
  <2>1. S < w /\ B * P < Pow2[N]
    <3>1. ~(S > w) /\ ~(B * P >= Pow2[N])
      BY <1>14, <1>16
    <3> QED BY <1>2, <1>3, <1>4, <1>13, <3>1
  <2>2. ShiftedLeft(B) = B * P
    <3>1. B * P \in 0..(Pow2[N] - 1)
      BY <1>3, <1>13, <2>1
    <3>2. (B * P) % Pow2[N] = B * P
      BY <1>13, <3>1, SmallRemainder
    <3> QED BY <1>8, <3>2
  <2>3. n < MostBytes /\ Len(bs) <= MostBytes
    BY <1>1, <1>4, <2>1
  <2>4. result + ShiftedLeft(B) = X
    <3>1. ~(w = NarrowBits /\ n = 2)
      BY <1>2, <1>11, <2>1, WidthFacts, GroupFacts
    <3> QED BY <1>5, <1>9, <2>2, <3>1
  <2>5. X < Pow2[w] => X % Pow2[w] = X
    <3>1. X < Pow2[w] => X \in 0..(Pow2[w] - 1)
      BY <1>5, <1>13
    <3> QED BY <1>13, <3>1, SmallRemainder
  <2>6. CASE w >= WordBits
    <3>1. N = w /\ w - S \in Nat /\ S + (w - S) = w
      BY <1>2, <1>4, <2>1, <2>6, WidthFacts DEF N, Promoted
    <3>2. PICK Q \in Nat \ {0} : Q = Pow2[w - S]
      BY <3>1, PowerIsPositive
    <3>3. Pow2[w] = Q * P
      <4>1. Pow2[S + (w - S)] = Pow2[S] * Pow2[w - S]
        BY <1>2, <3>1, PowerOfSum
      <4>2. Pow2[w] = P * Q
        BY <3>1, <3>2, <4>1 DEF P
      <4>3. \A x, y \in Nat : x * y = y * x
        OBVIOUS
      <4> QED BY <1>2, <4>2, <4>3
    <3>4. B < Q
      <4>1. B * P < Q * P
        BY <2>1, <3>1, <3>3
      <4> QED BY <1>2, <1>3, <4>1, Products
    <3>5. B * P + P <= Q * P
      BY <1>2, <1>3, <3>4, Products
    <3>6. X < Pow2[w]
      BY <1>2, <1>3, <1>5, <1>13, <3>3, <3>5
    <3> QED BY <2>3, <2>4, <2>5, <3>6
  <2>7. CASE w = NarrowBits
    <3>1. n < 2
      BY <1>1, <1>2, <1>11, <2>1, <2>7, WidthFacts, GroupFacts
    <3>2. CASE n = 0
      <4>1. X < Pow2[w]
        BY <1>2, <1>5, <1>10, <1>13, <2>7, <3>2, WidthFacts, GroupFacts
      <4> QED BY <2>3, <2>4, <2>5, <4>1
    <3>3. CASE n = 1
      <4>1. MostBytes = 2
        BY <1>4, <1>12, <2>3, <1>1, <2>7, <3>3, WidthFacts, GroupFacts
      <4> QED BY <1>1, <2>3, <2>4, <2>7, <3>3, <4>1
    <3> QED BY <1>1, <3>1, <3>2, <3>3
  <2>8. w = NarrowBits \/ w >= WordBits
    BY <1>4, WidthFacts DEF Widths
  <2> QED BY <2>6, <2>7, <2>8
<1> QED BY <1>15, <1>16 DEF bs, w, B, X

\* TakeSigned, from the last group on.
LEMMA SignedLastStep ==
  ASSUME bytes \in Seq(Bytes), read \in AllReads, read.signed, Progress,
         NEW b \in Bytes, Shift >= read.width - GroupBits
  PROVE  LET bs == Append(bytes, b)
             value == (result + b.bits * Pow2[Shift]) % Pow2[read.width] IN
         /\ Len(bs) = MostBytes
         /\ b.more \/ SignAndUnused(b) \notin {0, -1} => Unrepresentable(bs)
         /\ SignAndUnused(b) \in {0, -1} => AsSigned(value, read.width) = SignedValue(bs)
<1> DEFINE bs == Append(bytes, b)
           w == read.width
           n == Len(bytes)
           S == n * GroupBits
           E == (n + 1) * GroupBits
           P == Pow2[S]
           B == b.bits
           s == AsSigned(B, GroupBits)
           U == UnsignedValue(bytes)
           X == SignedValue(bs)
<1>1. /\ n \in Nat /\ bs \in Seq(Bytes) /\ Len(bs) = n + 1 /\ Last(bs) = b /\ bs # <<>>
      /\ B \in 0..(Group - 1)
  BY LastOfAppend DEF Bytes
<1>2. S \in Nat /\ E \in Nat /\ E = S + GroupBits /\ P \in Nat \ {0} /\ Shift = S
  <2>1. n + 1 \in Nat
    BY <1>1
  <2>2. S \in Nat /\ E = S + GroupBits /\ P \in Nat \ {0}
    BY <1>1, PowerOfGroups
  <2>3. Shift = S
    BY DEF Progress, Shift
  <2> QED BY <2>2, <2>3, GroupFacts
<1>3. /\ w \in Nat /\ MostBytes \in Int /\ S < w /\ E # w /\ E >= w /\ w >= WordBits
      /\ n < MostBytes /\ ~(n + 1 < MostBytes)
  <2>1. w \in Widths /\ w \in {WordBits, LongBits}
    BY WidthsOfReads
  <2>2. \A k \in Nat : /\ w \in Nat /\ MostBytes \in Int /\ k * GroupBits # w
                       /\ k * GroupBits < w <=> k < MostBytes
    BY <2>1, MostBytesOfWidth DEF MostBytes
  <2>3. n + 1 \in Nat
    BY <1>1
  <2>4. S < w
    BY DEF Progress
  <2>5. E >= w
    <3>1. S >= w - GroupBits /\ w \in Nat
      BY <1>2, <2>2
    <3> HIDE DEF w, S, E
    <3> QED BY <1>2, <3>1, GroupFacts
  <2>6. E # w /\ (E < w <=> n + 1 < MostBytes) /\ (S < w <=> n < MostBytes)
    BY <1>1, <2>2, <2>3
  <2>7. ~(E < w) /\ w >= WordBits
    BY <1>2, <2>1, <2>2, <2>5, WidthFacts
  <2> QED BY <2>2, <2>4, <2>5, <2>6, <2>7
<1>4. U \in Nat /\ U < P /\ result = U
  BY <1>3, ValueBound, WidthFacts DEF Progress
<1>5. s \in Int /\ s = IF B >= Half THEN B - Group ELSE B
  BY <1>1, GroupFacts DEF AsSigned
<1>6. X = U + s * P
  <2>1. UnsignedValue(bs) = U + B * P
    BY ValueOfAppend
  <2>2. Pow2[Len(bs) * GroupBits] = Group * P
    BY <1>1, PowerOfGroups
  <2>3. Last(bs).bits = B
    BY <1>1
  <2> HIDE DEF bs, B, P, U, s
  <2>4. X = IF B >= Half THEN UnsignedValue(bs) - Pow2[Len(bs) * GroupBits]
                         ELSE UnsignedValue(bs)
    BY <2>3 DEF SignedValue
  <2>5. \A x, y, p \in Int : (x - y) * p = x * p - y * p
    OBVIOUS
  <2>6. B \in Int /\ Group \in Int /\ P \in Int
    BY <1>1, <1>2, GroupFacts
  <2> HIDE DEF X
  <2>7. B >= Half => s * P = B * P - Group * P
    BY <1>5, <2>5, <2>6
  <2>8. B * P \in Int /\ Group * P \in Int
    BY <2>6
  <2> QED BY <1>4, <1>5, <2>1, <2>2, <2>4, <2>7, <2>8
<1>7. InRange(Value(bs)) <=> -(Pow2[w - 1]) <= X /\ X < Pow2[w - 1]
  BY DEF InRange, Value
<1>8. SignAndUnused(b) = (s * 2) \div Pow2[w - S]
  BY <1>2 DEF SignAndUnused
<1> HIDE DEF bs, w, n, S, E, P, B, s, U, X
<1>9. PICK R \in Nat \ {0} : R = Pow2[w - S - 1] /\ Pow2[w - S] = 2 * R
  <2>1. PICK r \in Nat : r = w - S - 1
    BY <1>2, <1>3
  <2>2. Pow2[r + 1] = 2 * Pow2[r] /\ Pow2[r] \in Nat \ {0}
    BY Powers, PowerIsPositive
  <2>3. r + 1 = w - S
    BY <1>2, <1>3, <2>1
  <2> QED BY <2>1, <2>2, <2>3
<1>10. Pow2[w - 1] = R * P /\ Pow2[w] = 2 * (R * P)
  <2>1. PICK r \in Nat : r = w - S - 1
    BY <1>2, <1>3
  <2>2. Pow2[w - 1] = P * R
    <3>1. Pow2[S + r] = Pow2[S] * Pow2[r]
      BY <1>2, PowerOfSum
    <3>2. S + r = w - 1
      BY <1>2, <1>3, <2>1
    <3> QED BY <1>9, <2>1, <3>1, <3>2 DEF P
  <2>3. Pow2[w] = 2 * Pow2[w - 1]
    <3>1. PICK v \in Nat : v = w - 1
      BY <1>2, <1>3
    <3>2. v + 1 = w /\ Pow2[v + 1] = 2 * Pow2[v]
      BY <1>3, <3>1, Powers
    <3> QED BY <3>1, <3>2
  <2>4. \A x, y \in Nat : x * y = y * x
    OBVIOUS
  <2>5. P * R = R * P
    BY <1>2, <1>9, <2>4
  <2> QED BY <2>2, <2>3, <2>5
<1>11. SignAndUnused(b) \in {0, -1} <=> -R <= s /\ s < R
  BY <1>5, <1>8, <1>9, SignQuotient
<1>12. R * P \in Nat \ {0} /\ s * P \in Int /\ X \in Int
  <2>1. \A x, y \in Nat \ {0} : x * y \in Nat \ {0}
    OBVIOUS
  <2>2. \A x, y \in Int : x * y \in Int
    OBVIOUS
  <2>3. R * P \in Nat \ {0} /\ s * P \in Int
    BY <1>2, <1>5, <2>1, <2>2
  <2> QED BY <1>4, <1>6, <2>3
<1>13. /\ s < R <=> X < R * P
       /\ -R <= s <=> -(R * P) <= X
  <2>0. s \in Int /\ R \in Int /\ P \in Nat \ {0}
    BY <1>2, <1>5, <1>9
  <2>1. ASSUME s < R PROVE X < R * P
    <3>1. s * P + P <= R * P
      BY <2>0, <2>1, Products
    <3> QED BY <1>2, <1>4, <1>6, <1>12, <3>1
  <2>2. ASSUME ~(s < R) PROVE ~(X < R * P)
    <3>1. R * P <= s * P
      BY <2>0, <2>2, Products
    <3> QED BY <1>4, <1>6, <1>12, <3>1
  <2>3. (-R) * P = -(R * P) /\ -R \in Int
    BY <1>2, <1>9
  <2>4. ASSUME -R <= s PROVE -(R * P) <= X
    <3>1. (-R) * P <= s * P
      BY <2>0, <2>3, <2>4, Products
    <3> QED BY <1>4, <1>6, <1>12, <2>3, <3>1
  <2>5. ASSUME ~(-R <= s) PROVE ~(-(R * P) <= X)
    <3>1. s * P + P <= (-R) * P
      BY <2>0, <2>3, <2>5, Products
    <3> QED BY <1>2, <1>4, <1>6, <1>12, <2>3, <3>1
  <2> QED BY <2>1, <2>2, <2>4, <2>5
<1>14. InRange(Value(bs)) <=> SignAndUnused(b) \in {0, -1}
  BY <1>7, <1>10, <1>11, <1>13
<1>15. Len(bs) = MostBytes
  BY <1>1, <1>3
<1>16. ASSUME b.more \/ SignAndUnused(b) \notin {0, -1} PROVE Unrepresentable(bs)
  BY <1>1, <1>14, <1>15, <1>16 DEF Unrepresentable
<1>17. ASSUME SignAndUnused(b) \in {0, -1}
       PROVE  AsSigned((result + B * P) % Pow2[w], w) = X
  <2> DEFINE W == Pow2[w]
  <2>1. W \in Nat \ {0} /\ W = 2 * (R * P) /\ Pow2[w - 1] = R * P
    BY <1>3, <1>10, PowerIsPositive
  <2>2. -(R * P) <= X /\ X < R * P
    BY <1>11, <1>13, <1>17
  <2>3. PICK k \in Int : result + B * P = k * W + X
    <3>1. CASE B >= Half
      <4>1. E - w \in Nat /\ w + (E - w) = E
        BY <1>2, <1>3
      <4>2. Group * P = Pow2[E]
        BY <1>1, PowerOfGroups DEF E, P, S
      <4>3. PICK K \in Nat \ {0} : K = Pow2[E - w]
        BY <4>1, PowerIsPositive
      <4>4. Group * P = W * K
        <5>1. PICK d \in Nat : d = E - w
          BY <4>1
        <5>2. Pow2[w + d] = Pow2[w] * Pow2[d]
          BY <1>3, PowerOfSum
        <5>3. w + d = E
          BY <4>1, <5>1
        <5> QED BY <4>2, <4>3, <5>1, <5>2, <5>3
      <4>5. s * P = B * P - Group * P
        <5>1. \A x, y, p \in Int : (x - y) * p = x * p - y * p
          OBVIOUS
        <5>2. B \in Int /\ Group \in Int /\ P \in Int /\ s = B - Group
          BY <1>1, <1>2, <1>5, <3>1, GroupFacts
        <5> QED BY <5>1, <5>2
      <4>6. W * K = K * W /\ K * W \in Int
        <5>1. \A x, y \in Nat : x * y = y * x /\ x * y \in Int
          OBVIOUS
        <5> QED BY <2>1, <4>3, <5>1
      <4>7. B * P \in Int
        <5>1. \A x, y \in Nat : x * y \in Int
          OBVIOUS
        <5> QED BY <1>1, <1>2, <5>1, GroupFacts
      <4> HIDE DEF W
      <4>8. result + B * P = K * W + X
        BY <1>4, <1>6, <4>4, <4>5, <4>6, <4>7
      <4> QED BY <4>3, <4>8
    <3>2. CASE ~(B >= Half)
      <4>1. result + B * P = X /\ 0 * W = 0 /\ 0 * W + X = X
        BY <1>4, <1>5, <1>6, <1>12, <2>1, <3>2
      <4> QED BY <4>1
    <3> QED BY <3>1, <3>2
  <2> HIDE DEF W
  <2>4. CASE X >= 0
    <3>1. X \in 0..(W - 1)
      BY <1>12, <2>1, <2>2, <2>4
    <3>2. (result + B * P) % W = X
      <4>1. W \in Nat \ {0}
        BY <2>1
      <4>2. (k * W + X) % W = X
        BY <3>1, <4>1, Remainders
      <4> QED BY <2>3, <4>2
    <3> QED BY <1>12, <2>1, <2>2, <3>2 DEF AsSigned, W
  <2>5. CASE X < 0
    <3>1. X + W \in 0..(W - 1) /\ k - 1 \in Int
      BY <1>12, <2>1, <2>2, <2>5
    <3>2. k * W + X = (k - 1) * W + (X + W)
      <4>1. \A x, y \in Int : (x - 1) * y = x * y - y /\ x * y \in Int
        OBVIOUS
      <4>2. (k - 1) * W = k * W - W /\ k * W \in Int
        BY <2>1, <2>3, <4>1
      <4> QED BY <1>12, <2>1, <4>2
    <3>3. (result + B * P) % W = X + W
      <4>1. W \in Nat \ {0}
        BY <2>1
      <4>2. PICK l \in Int, y \in 0..(W - 1) : l = k - 1 /\ y = X + W
        BY <3>1
      <4>3. (l * W + y) % W = y
        BY <4>1, Remainders
      <4> QED BY <2>3, <3>2, <4>2, <4>3
    <3> QED BY <1>12, <2>1, <2>2, <3>3 DEF AsSigned, W
  <2> QED BY <1>12, <2>4, <2>5
<1> QED BY <1>2, <1>15, <1>16, <1>17 DEF bs, w, B, X, P

\* TakeSigned, before the last group.
LEMMA SignedStep ==
  ASSUME bytes \in Seq(Bytes), read \in AllReads, read.signed, Progress,
         NEW b \in Bytes, ~(Shift >= read.width - GroupBits)
  PROVE  LET bs == Append(bytes, b)
             value == (result + b.bits * Pow2[Shift]) % Pow2[read.width] IN
         /\ Len(bs) <= MostBytes /\ (count + 1) * GroupBits < read.width
         /\ value = UnsignedValue(bs)
         /\ AsSigned(value + SignExtension(b), read.width) = SignedValue(bs)
<1> DEFINE bs == Append(bytes, b)
           w == read.width
           n == Len(bytes)
           S == n * GroupBits
           E == (n + 1) * GroupBits
           P == Pow2[S]
           B == b.bits
           U == UnsignedValue(bytes)
           X == UnsignedValue(bs)
<1>1. /\ n \in Nat /\ bs \in Seq(Bytes) /\ Len(bs) = n + 1 /\ Last(bs) = b /\ bs # <<>>
      /\ B \in 0..(Group - 1) /\ Last(bs).bits = B
  BY LastOfAppend DEF Bytes
<1>2. S \in Nat /\ E \in Nat /\ E = S + GroupBits /\ P \in Nat \ {0} /\ Shift = S
  <2>1. n + 1 \in Nat
    BY <1>1
  <2>2. S \in Nat /\ E = S + GroupBits /\ P \in Nat \ {0}
    BY <1>1, PowerOfGroups
  <2>3. Shift = S
    BY DEF Progress, Shift
  <2> QED BY <2>2, <2>3, GroupFacts
<1>3. w \in Nat /\ w >= WordBits /\ MostBytes \in Int /\ (E < w <=> n + 1 < MostBytes)
  <2>1. w \in Widths /\ w \in {WordBits, LongBits}
    BY WidthsOfReads
  <2>2. \A k \in Nat : /\ w \in Nat /\ MostBytes \in Int
                       /\ k * GroupBits < w <=> k < MostBytes
    BY <2>1, MostBytesOfWidth DEF MostBytes
  <2>3. n + 1 \in Nat
    BY <1>1
  <2>4. w >= WordBits
    BY <2>1, <2>2, WidthFacts
  <2> QED BY <2>2, <2>3, <2>4
<1>4. U \in Nat /\ U < P /\ result = U
  BY <1>3, ValueBound, WidthFacts DEF Progress
<1>5. X = U + B * P /\ X \in Nat /\ X < Pow2[E]
  <2>1. X = U + B * P
    BY ValueOfAppend
  <2>2. X \in Nat /\ X < Pow2[Len(bs) * GroupBits]
    BY <1>1, ValueBound
  <2> QED BY <1>1, <2>1, <2>2
<1>6. SignedValue(bs) = IF B >= Half THEN X - Pow2[E] ELSE X
  <2>1. Pow2[Len(bs) * GroupBits] = Pow2[E]
    BY <1>1
  <2> HIDE DEF bs, B, X, E
  <2> QED BY <1>1, <2>1 DEF SignedValue, X
<1>7. (count + 1) * GroupBits = E
  BY DEF Progress
<1>8. E < w
  <2>1. ~(S >= w - GroupBits)
    BY <1>2
  <2> HIDE DEF w, S, E
  <2> QED BY <1>2, <1>3, <2>1, GroupFacts
<1>9. Pow2[E] = Group * P
  BY <1>1, PowerOfGroups
<1>10. SignExtension(b) = IF B >= Half THEN Pow2[w] - Pow2[E] ELSE 0
  <2>1. Shift + GroupBits = E /\ Shift + GroupBits < read.width
    BY <1>2, <1>8
  <2> QED BY <2>1 DEF SignExtension
<1> HIDE DEF bs, w, n, S, E, P, B, U, X
<1>11. PICK H \in Nat \ {0} : Pow2[w - 1] = H /\ Pow2[w] = 2 * H
  <2>1. PICK v \in Nat : v = w - 1
    BY <1>2, <1>3, <1>8
  <2>2. v + 1 = w /\ Pow2[v + 1] = 2 * Pow2[v]
    BY <1>3, <2>1, Powers
  <2> QED BY <2>1, <2>2, PowerIsPositive
<1>12. Pow2[E] \in Nat /\ Pow2[E] <= H
  <2>1. w - 1 \in Nat /\ E <= w - 1
    BY <1>2, <1>3, <1>8
  <2> QED BY <1>2, <1>11, <2>1, Powers, PowersGrow
<1>13. B >= Half => 2 * X >= Pow2[E]
  <2>1. \A g, y, p \in Nat : g <= y => 2 * (y * p) >= (2 * g) * p
    <3> SUFFICES ASSUME NEW g \in Nat, NEW y \in Nat, NEW p \in Nat, g <= y
                 PROVE  2 * (y * p) >= (2 * g) * p
      OBVIOUS
    <3>1. (y - g) * p >= 0
      <4>1. \A d \in Nat : d * p >= 0
        OBVIOUS
      <4> QED BY <4>1
    <3> QED BY <3>1
  <2>2. B \in Nat /\ P \in Nat /\ Half \in Nat
    BY <1>1, <1>2, GroupFacts
  <2>3. B >= Half => 2 * (B * P) >= (2 * Half) * P
    BY <2>1, <2>2
  <2>4. \A x, y \in Nat : x * y \in Nat
    OBVIOUS
  <2>5. (2 * Half) * P = Pow2[E]
    BY <1>9, GroupFacts
  <2>6. B * P \in Nat
    BY <2>2, <2>4
  <2> QED BY <1>4, <1>5, <1>12, <2>3, <2>5, <2>6
<1>14. (result + B * P) % Pow2[w] = X
  <2>1. X \in 0..(Pow2[w] - 1) /\ Pow2[w] \in Nat \ {0}
    BY <1>5, <1>11, <1>12
  <2>2. X % Pow2[w] = X
    BY <2>1, SmallRemainder
  <2> QED BY <1>4, <1>5, <2>2
<1>15. AsSigned(X + SignExtension(b), w) = SignedValue(bs)
  <2>1. CASE B >= Half
    <3>1. X + SignExtension(b) = X + (2 * H - Pow2[E])
      BY <1>10, <1>11, <2>1
    <3>2. X + (2 * H - Pow2[E]) >= H
      BY <1>5, <1>11, <1>12, <1>13, <2>1
    <3> QED BY <1>5, <1>6, <1>11, <1>12, <2>1, <3>1, <3>2 DEF AsSigned
  <2>2. CASE ~(B >= Half)
    <3>1. X + SignExtension(b) = X /\ X < H
      BY <1>5, <1>10, <1>11, <1>12, <2>2
    <3> QED BY <1>6, <1>11, <2>2, <3>1, <1>5 DEF AsSigned
  <2> QED BY <2>1, <2>2
<1>16. Len(bs) <= MostBytes
  BY <1>1, <1>3, <1>8
<1> QED BY <1>2, <1>7, <1>8, <1>14, <1>15, <1>16 DEF bs, w, B, X, P

-----------------------------------------------------------------------------
(* Where the stream stands after a value.                                  *)

\* Until a block type is given back, every byte says that another one follows;
\* then the last one, which is read again, says that none does.
ReadSoFar ==
  \/ /\ read.purpose # "index" /\ offset = Len(bytes)
     /\ \A k \in 1..Len(bytes) : bytes[k].more
  \/ /\ read.purpose = "index" /\ Len(bytes) > 0 /\ offset = Len(bytes) - 1
     /\ ~bytes[Len(bytes)].more
     /\ \A k \in 1..(Len(bytes) - 1) : bytes[k].more

\* The inductive invariant.
IInv ==
  /\ bytes \in Seq(Bytes) /\ offset \in Nat
  /\ read \in AllReads
  /\ status = "reading" => ReadSoFar
  /\ WholeEncodingRead

-----------------------------------------------------------------------------

LEMMA Purposes ==
  \A r \in AllReads :
    /\ r.purpose \in {"value", "index", "type", "blocktype"}
    /\ r.purpose = "index" => ~r.signed
  BY DEF AllReads, Reads, Unsigned

LEMMA InitInv == Init => IInv
  BY DEF Init, IInv, AllReads, Reads, Unsigned, ReadSoFar, WholeEncodingRead

\* A step ends the read behind a byte that is the last of its value, goes back
\* before it once, goes on behind a byte that is not, or throws.
LEMMA TakeCases ==
  ASSUME IInv, NEW b \in Bytes, Take(b)
  PROVE  \/ /\ ~b.more /\ status' = "done" /\ offset' = offset + 1 /\ read' = read
         \/ /\ ~b.more /\ status' = status /\ offset' = offset
            /\ read' = Unsigned(LongBits, "index") /\ read.purpose = "blocktype"
         \/ /\ b.more /\ status' = status /\ offset' = offset + 1 /\ read' = read
         \/ status' = "refused" /\ offset' = offset + 1 /\ read' = read
<1> DEFINE Ends ==
      \/ status' = "done" /\ offset' = offset + 1 /\ read' = read
      \/ /\ status' = status /\ offset' = offset
         /\ read' = Unsigned(LongBits, "index") /\ read.purpose = "blocktype"
      \/ status' = "refused" /\ offset' = offset + 1 /\ read' = read
<1>1. ASSUME NEW value, Finish(value) PROVE Ends
  <2>1. read.purpose \in {"value", "index", "type", "blocktype"}
    BY Purposes DEF IInv
  <2>2. ASSUME NEW w, NEW n, Answer(w, n) PROVE Ends
    BY <2>2 DEF Answer
  <2>3. ASSUME Refuse PROVE Ends
    BY <2>3 DEF Refuse
  <2>4. CASE read.purpose \in {"value", "index"}
    BY <1>1, <2>2, <2>4 DEF Finish
  <2>5. CASE read.purpose = "type"
    BY <1>1, <2>2, <2>3, <2>5 DEF Finish, ReadType
  <2>6. CASE read.purpose = "blocktype"
    <3>1. ReadBlockType(value)
      BY <1>1, <2>6 DEF Finish
    <3>2. ASSUME ReadIndex PROVE Ends
      BY <2>6, <3>2 DEF ReadIndex, BackOne
    <3> QED BY <2>2, <3>1, <3>2 DEF ReadBlockType
  <2> QED BY <2>1, <2>4, <2>5, <2>6
<1>2. ASSUME NEW value, GoOn(value)
      PROVE  status' = status /\ offset' = offset + 1 /\ read' = read
  BY <1>2 DEF GoOn
<1>3. Refuse => status' = "refused" /\ offset' = offset + 1 /\ read' = read
  BY DEF Refuse
<1> HIDE DEF Ends
<1>4. CASE TakeUnsigned(b)
  <2>1. \/ Refuse
        \/ b.more /\ \E value : GoOn(value)
        \/ ~b.more /\ \E value : Finish(value)
    BY <1>4 DEF TakeUnsigned
  <2> QED BY <1>1, <1>2, <1>3, <2>1 DEF Ends
<1>5. CASE TakeSigned(b)
  <2>1. \/ Refuse
        \/ b.more /\ \E value : GoOn(value)
        \/ ~b.more /\ \E value : Finish(value)
    BY <1>5 DEF TakeSigned
  <2> QED BY <1>1, <1>2, <1>3, <2>1 DEF Ends
<1> QED BY <1>4, <1>5 DEF Take

LEMMA TakeInv ==
  ASSUME IInv, NEW b \in Bytes, Take(b)
  PROVE  IInv'
<1>1. status = "reading" /\ ReadSoFar
  BY DEF Take, IInv
<1>2. IF offset < Len(bytes) THEN b = bytes[offset + 1] /\ bytes' = bytes
                             ELSE bytes' = Append(bytes, b)
  BY DEF Take
<1>3. bytes \in Seq(Bytes) /\ offset \in Nat /\ Len(bytes) \in Nat
  BY DEF IInv
<1>4. bytes' \in Seq(Bytes)
  BY <1>2, <1>3
<1>5. CASE read.purpose # "index"
  <2>1. /\ bytes' = Append(bytes, b) /\ Len(bytes') = Len(bytes) + 1
        /\ bytes'[Len(bytes')] = b
        /\ \A k \in 1..(Len(bytes') - 1) : bytes'[k] = bytes[k] /\ bytes[k].more
        /\ offset + 1 = Len(bytes')
    BY <1>1, <1>2, <1>3, <1>5 DEF ReadSoFar
  <2>2. Len(bytes') \in Nat \ {0} /\ bytes' # <<>> /\ offset + 1 \in Nat
    BY <1>3, <2>1
  <2>3. CASE ~b.more /\ status' = "done" /\ offset' = offset + 1 /\ read' = read
    BY <1>4, <2>1, <2>2, <2>3 DEF IInv, WholeEncodingRead, Complete, Last
  <2>4. CASE /\ ~b.more /\ status' = status /\ offset' = offset
             /\ read' = Unsigned(LongBits, "index")
    <3>1. read'.purpose = "index" /\ read' \in AllReads
      BY <2>4 DEF Unsigned, AllReads
    <3>2. ReadSoFar'
      BY <1>3, <2>1, <2>2, <2>4, <3>1 DEF ReadSoFar
    <3> QED BY <1>1, <1>3, <1>4, <2>4, <3>1, <3>2 DEF IInv, WholeEncodingRead
  <2>5. CASE b.more /\ status' = status /\ offset' = offset + 1 /\ read' = read
    <3>1. \A k \in 1..Len(bytes') : bytes'[k].more
      BY <2>1, <2>2, <2>5
    <3>2. ReadSoFar'
      BY <1>5, <2>1, <2>5, <3>1 DEF ReadSoFar
    <3> QED BY <1>1, <1>4, <2>2, <2>5, <3>2 DEF IInv, WholeEncodingRead
  <2>6. CASE status' = "refused" /\ offset' = offset + 1 /\ read' = read
    BY <1>4, <2>2, <2>6 DEF IInv, WholeEncodingRead
  <2> QED BY <2>3, <2>4, <2>5, <2>6, TakeCases
<1>6. CASE read.purpose = "index"
  <2>1. /\ Len(bytes) > 0 /\ offset + 1 = Len(bytes) /\ bytes' = bytes
        /\ b = bytes[Len(bytes)] /\ ~b.more
        /\ \A k \in 1..(Len(bytes) - 1) : bytes[k].more
    BY <1>1, <1>2, <1>3, <1>6 DEF ReadSoFar
  <2>2. status' \in {"done", "refused"} /\ offset' = offset + 1 /\ read' = read
    BY <1>6, <2>1, TakeCases
  <2>3. bytes # <<>> /\ offset + 1 \in Nat
    BY <1>3, <2>1
  <2>4. WholeEncodingRead'
    BY <1>3, <2>1, <2>2, <2>3 DEF WholeEncodingRead, Complete, Last
  <2> QED BY <1>4, <2>2, <2>3, <2>4 DEF IInv
<1> QED BY <1>5, <1>6

LEMMA NextInv == IInv /\ [Next]_vars => IInv'
<1> SUFFICES ASSUME IInv, [Next]_vars PROVE IInv'
  OBVIOUS
<1>1. CASE End
  BY <1>1 DEF End, IInv, ReadSoFar, WholeEncodingRead
<1>2. ASSUME NEW b \in Bytes, Take(b) PROVE IInv'
  BY <1>2, TakeInv
<1>3. CASE UNCHANGED vars
  BY <1>3 DEF vars, IInv, ReadSoFar, WholeEncodingRead, Complete, Last
<1> QED BY <1>1, <1>2, <1>3 DEF Next

-----------------------------------------------------------------------------
(* What is read.                                                           *)

\* The second read of a block type of one byte starts afresh, and that byte is
\* not the code of a type.
ReadAgain ==
  Len(bytes) = 1 =>
    count = 0 /\ result = 0 /\ bytes[1].bits \notin ValueTypes \cup {EmptyType}

DInv ==
  /\ status = "reading" => IF read.purpose = "index" THEN ReadAgain ELSE Progress
  /\ DecodesExactly /\ RefusesOnlyUnrepresentable /\ ShortTypesRead

LEMMA InitDecoding == Init => DInv
<1> SUFFICES ASSUME Init PROVE DInv
  OBVIOUS
<1>1. /\ bytes = <<>> /\ Len(bytes) = 0 /\ count = 0 /\ result = 0 /\ status = "reading"
      /\ read \in AllReads
  BY DEF Init, AllReads
<1>2. count * GroupBits = 0 /\ (read.signed => read.width \in Nat /\ read.width > 0)
  BY <1>1, WidthsOfReads, WidthFacts, GroupFacts
<1>3. Progress
  BY <1>1, <1>2, ValueOfNone DEF Progress
<1> QED BY <1>1, <1>3
    DEF DInv, ReadAgain, DecodesExactly, RefusesOnlyUnrepresentable, ShortTypesRead

\* A byte that is not the last leaves the value of all of them, the last one gives
\* it, and what is refused cannot be represented.
LEMMA TakenByte ==
  ASSUME IInv, DInv, NEW b \in Bytes, Take(b), read.purpose # "index"
  PROVE  LET bs == Append(bytes, b) IN
         /\ bytes' = bs
         /\ \/ Refuse /\ Unrepresentable(bs)
            \/ b.more /\ status' = status /\ read' = read /\ Progress'
            \/ \E v \in Int :
                 /\ ~b.more /\ Finish(v)
                 /\ \/ v = Value(bs) /\ Len(bs) <= MostBytes
                    \/ /\ read.width = NarrowBits /\ Len(bs) = 2 /\ MostBytes = 2
                       /\ v = UnsignedValue(bs) % Pow2[NarrowBits]
<1> DEFINE bs == Append(bytes, b)
<1>1. status = "reading" /\ ReadSoFar /\ Progress /\ bytes \in Seq(Bytes) /\ read \in AllReads
  BY DEF Take, IInv, DInv
<1>2. bytes' = bs
  <2>1. offset = Len(bytes) /\ Len(bytes) \in Nat
    BY <1>1 DEF ReadSoFar
  <2> QED BY <2>1 DEF Take
<1>3. bs \in Seq(Bytes) /\ Len(bs) = Len(bytes) + 1 /\ count = Len(bytes)
  BY <1>1, LastOfAppend DEF Progress
<1>4. UnsignedValue(bs) \in Int /\ SignedValue(bs) \in Int
  <2>1. UnsignedValue(bs) \in Nat
    BY <1>3, ValueBound
  <2>2. Len(bs) \in Nat
    BY <1>3
  <2>3. Pow2[Len(bs) * GroupBits] \in Nat
    BY <2>2, PowerOfGroups
  <2> HIDE DEF bs
  <2> QED BY <2>1, <2>3 DEF SignedValue
<1>5. CASE ~read.signed
  <2> DEFINE value == (result + ShiftedLeft(b.bits)) % Pow2[read.width]
  <2>1. Value(bs) = UnsignedValue(bs)
    BY <1>5 DEF Value
  <2>2. /\ TooLarge(b) => Unrepresentable(bs)
        /\ ~TooLarge(b) =>
             /\ Len(bs) <= MostBytes
             /\ \/ value = UnsignedValue(bs)
                \/ /\ read.width = NarrowBits /\ Len(bs) = 2 /\ MostBytes = 2
                   /\ value = UnsignedValue(bs) % Pow2[NarrowBits]
    BY <1>1, <1>5, UnsignedStep
  <2>3. IF TooLarge(b) THEN Refuse ELSE IF b.more THEN GoOn(value) ELSE Finish(value)
    BY <1>5 DEF Take, TakeUnsigned
  <2>4. ~TooLarge(b) => value \in Int
    <3>1. Pow2[NarrowBits] \in Nat \ {0} /\ UnsignedValue(bs) \in Int
      BY <1>4, WidthFacts, PowerIsPositive
    <3>2. UnsignedValue(bs) % Pow2[NarrowBits] \in Int
      BY <3>1, Division
    <3> QED BY <1>4, <2>2, <3>2
  <2> HIDE DEF value, bs
  <2>5. CASE ~TooLarge(b) /\ b.more
    <3>1. GoOn(value)
      BY <2>3, <2>5
    <3>2. count' = Len(bs) /\ result' = value /\ status' = status /\ read' = read
      BY <1>3, <3>1 DEF GoOn
    <3>3. Progress'
      BY <1>2, <1>5, <2>2, <2>5, <3>2 DEF Progress
    <3> QED BY <1>2, <2>5, <3>2, <3>3 DEF bs
  <2> QED BY <1>2, <2>1, <2>2, <2>3, <2>4, <2>5 DEF bs
<1>6. CASE read.signed
  <2> DEFINE value == (result + b.bits * Pow2[Shift]) % Pow2[read.width]
  <2>1. Value(bs) = SignedValue(bs)
    BY <1>6 DEF Value
  <2>2. TakeSigned(b)
    BY <1>6 DEF Take
  <2>3. CASE Shift >= read.width - GroupBits
    <3>1. /\ Len(bs) = MostBytes
          /\ b.more \/ SignAndUnused(b) \notin {0, -1} => Unrepresentable(bs)
          /\ SignAndUnused(b) \in {0, -1} => AsSigned(value, read.width) = SignedValue(bs)
      BY <1>1, <1>6, <2>3, SignedLastStep
    <3>2. IF b.more \/ SignAndUnused(b) \notin {0, -1} THEN Refuse
          ELSE Finish(AsSigned(value, read.width))
      BY <2>2, <2>3 DEF TakeSigned
    <3>3. Len(bs) <= MostBytes
      <4>1. Len(bs) \in Nat
        BY <1>3
      <4> QED BY <3>1, <4>1
    <3> HIDE DEF value, bs
    <3> QED BY <1>2, <1>4, <2>1, <3>1, <3>2, <3>3 DEF bs
  <2>4. CASE ~(Shift >= read.width - GroupBits)
    <3>1. /\ Len(bs) <= MostBytes /\ (count + 1) * GroupBits < read.width
          /\ value = UnsignedValue(bs)
          /\ AsSigned(value + SignExtension(b), read.width) = SignedValue(bs)
      BY <1>1, <1>6, <2>4, SignedStep
    <3>2. IF b.more THEN GoOn(value)
          ELSE Finish(AsSigned(value + SignExtension(b), read.width))
      BY <2>2, <2>4 DEF TakeSigned
    <3> HIDE DEF value, bs
    <3>3. CASE b.more
      <4>1. /\ count' = count + 1 /\ result' = value /\ status' = status /\ read' = read
        BY <3>2, <3>3 DEF GoOn
      <4>2. count' = Len(bs) /\ count' * GroupBits < read'.width
        BY <1>3, <3>1, <4>1
      <4>3. Progress'
        BY <1>2, <3>1, <4>1, <4>2 DEF Progress
      <4> QED BY <1>2, <3>3, <4>1, <4>3 DEF bs
    <3> QED BY <1>2, <1>4, <2>1, <3>1, <3>2, <3>3 DEF bs
  <2> QED BY <2>3, <2>4
<1> QED BY <1>5, <1>6

\* The value of one byte.
LEMMA OneByte ==
  ASSUME NEW b \in Bytes
  PROVE  LET bs == Append(<<>>, b) IN
         /\ bs \in Seq(Bytes) /\ Len(bs) = 1 /\ bs[1] = b
         /\ UnsignedValue(bs) = b.bits
         /\ SignedValue(bs) = IF b.bits >= Half THEN b.bits - Group ELSE b.bits
<1> DEFINE bs == Append(<<>>, b)
<1>1. bs \in Seq(Bytes) /\ Len(bs) = 1 /\ bs[1] = b /\ Last(bs) = b /\ b.bits \in 0..(Group - 1)
  BY DEF Bytes, Last
<1>2. <<>> \in Seq(Bytes) /\ Len(<<>>) = 0
  OBVIOUS
<1>3. UnsignedValue(bs) = UnsignedValue(<<>>) + b.bits * Pow2[Len(<<>>) * GroupBits]
  BY <1>2, ValueOfAppend
<1>4. Len(<<>>) * GroupBits = 0 /\ Len(bs) * GroupBits = GroupBits
  BY <1>1, <1>2, GroupFacts
<1>5. UnsignedValue(bs) = b.bits
  <2>1. Pow2[Len(<<>>) * GroupBits] = 1
    BY <1>4, Powers
  <2>2. b.bits \in Nat
    BY <1>1, GroupFacts
  <2>3. \A x \in Nat : 0 + x * 1 = x
    OBVIOUS
  <2> QED BY <1>3, <2>1, <2>2, <2>3, ValueOfNone
<1>6. SignedValue(bs) = IF b.bits >= Half THEN b.bits - Group ELSE b.bits
  <2>1. Pow2[Len(bs) * GroupBits] = Group
    <3>1. Group = Pow2[GroupBits]
      BY GroupFacts
    <3> HIDE DEF bs
    <3> QED BY <1>4, <3>1
  <2> HIDE DEF bs
  <2> QED BY <1>1, <1>5, <2>1 DEF SignedValue
<1> QED BY <1>1, <1>5, <1>6

\* The code of a type, and that alone, is a negative number of one byte.
LEMMA CodesOfTypes ==
  ASSUME NEW b \in Bytes
  PROVE  /\ AsType(b.bits) = b.bits
         /\ LET bs == Append(<<>>, b) IN
            IF b.bits = EmptyType THEN BlockTypeMeaning(bs) = [what |-> "empty", n |-> 0]
            ELSE IF b.bits \in ValueTypes
            THEN BlockTypeMeaning(bs) = [what |-> "type", n |-> b.bits]
            ELSE BlockTypeMeaning(bs) \in {[what |-> "index", n |-> b.bits], Nothing}
<1> DEFINE bs == Append(<<>>, b)
           B == b.bits
           v == SignedValue(bs)
<1>1. B \in 0..(Group - 1) /\ v = IF B >= Half THEN B - Group ELSE B
  BY OneByte DEF Bytes
<1>2. EmptyType = Half /\ ValueTypes \subseteq (Half + 1)..(Group - 1)
  BY Leb128Assumption
<1>3. BlockTypeMeaning(bs) =
        IF v >= 0 THEN [what |-> "index", n |-> v]
        ELSE IF v + Group = EmptyType THEN [what |-> "empty", n |-> 0]
        ELSE IF v + Group \in ValueTypes THEN [what |-> "type", n |-> v + Group]
        ELSE Nothing
  BY DEF BlockTypeMeaning
<1>4. AsType(B) = B
  <2>1. Pow2[NarrowBits] \in Nat \ {0} /\ Group <= Pow2[NarrowBits]
    <3>1. GroupBits \in Nat /\ NarrowBits \in Nat /\ GroupBits <= NarrowBits
      BY WidthFacts, GroupFacts
    <3> QED BY <3>1, GroupFacts, PowerIsPositive, PowersGrow
  <2>2. B \in 0..(Pow2[NarrowBits] - 1)
    BY <1>1, <2>1, GroupFacts
  <2> HIDE DEF B
  <2> QED BY <2>1, <2>2, SmallRemainder DEF AsType
<1> HIDE DEF v, B, bs
<1>5. CASE B < Half
  BY <1>1, <1>2, <1>3, <1>4, <1>5, GroupFacts DEF B, bs
<1>6. CASE B >= Half
  <2>1. v < 0 /\ v + Group = B
    BY <1>1, <1>6, GroupFacts
  <2>2. BlockTypeMeaning(bs) = IF B = EmptyType THEN [what |-> "empty", n |-> 0]
                               ELSE IF B \in ValueTypes THEN [what |-> "type", n |-> B]
                               ELSE Nothing
    <3>1. ~(v >= 0)
      BY <1>1, <1>6, GroupFacts
    <3> QED BY <1>3, <2>1, <3>1
  <2> QED BY <1>4, <2>2 DEF B, bs
<1> QED BY <1>1, <1>5, <1>6, GroupFacts

\* The read of a value, type or block type: the first time.
LEMMA TakeDecodes ==
  ASSUME IInv, DInv, NEW b \in Bytes, Take(b), read.purpose # "index"
  PROVE  DInv'
<1> DEFINE bs == Append(bytes, b)
<1>1. status = "reading" /\ bytes \in Seq(Bytes) /\ read \in AllReads
  BY DEF Take, IInv
<1>2. bytes' = bs /\ Len(bs) = Len(bytes) + 1 /\ Len(bytes) \in Nat
  BY <1>1, TakenByte, LastOfAppend
<1>3. Len(bs) = 1 => bs = Append(<<>>, b)
  <2>1. Len(bytes) = 0 => bytes = <<>>
    BY <1>1
  <2>2. Len(bs) = 1 => Len(bytes) = 0
    BY <1>2
  <2> QED BY <2>1, <2>2
<1> HIDE DEF bs
<1>4. CASE Refuse /\ Unrepresentable(bs)
  <2>1. status' = "refused" /\ read' = read
    BY <1>4 DEF Refuse
  <2>2. RefusesOnlyUnrepresentable'
    BY <1>2, <1>4, <2>1
    DEF RefusesOnlyUnrepresentable, Unrepresentable, MostBytes, InRange, Value
  <2> QED BY <2>1, <2>2 DEF DInv, DecodesExactly, ShortTypesRead
<1>5. CASE b.more /\ status' = status /\ read' = read /\ Progress'
  BY <1>1, <1>5 DEF DInv, DecodesExactly, RefusesOnlyUnrepresentable, ShortTypesRead
<1>6. ASSUME NEW v \in Int, ~b.more, Finish(v),
             \/ v = Value(bs) /\ Len(bs) <= MostBytes
             \/ /\ read.width = NarrowBits /\ Len(bs) = 2 /\ MostBytes = 2
                /\ v = UnsignedValue(bs) % Pow2[NarrowBits]
      PROVE  DInv'
  <2>1. CASE read.purpose = "value"
    <3>1. Answer("value", v)
      BY <1>6, <2>1 DEF Finish
    <3>2. status' = "done" /\ answer'.n = v /\ read' = read
      BY <3>1 DEF Answer
    <3>3. DecodesExactly'
      BY <1>2, <1>6, <3>2 DEF DecodesExactly, MostBytes, Value
    <3> QED BY <2>1, <3>2, <3>3 DEF DInv, RefusesOnlyUnrepresentable, ShortTypesRead
  <2>2. CASE read.purpose \in {"type", "blocktype"}
    <3>1. ~read.signed /\ read.width = WordBits
      BY <1>1, <2>2 DEF AllReads, Reads, Unsigned
    <3>2. Len(bs) = 1 => v = b.bits
      BY <1>3, <1>6, <3>1, OneByte DEF Value
    <3>3. Len(bs) = 1 => AsType(v) = b.bits
      BY <3>2, CodesOfTypes
    <3>4. CASE read.purpose = "type"
      <4>1. ReadType(v)
        BY <1>6, <3>4 DEF Finish
      <4>2. \/ status' = "refused" /\ read' = read
            \/ status' = "done" /\ read' = read /\ answer'.n = AsType(v)
        BY <4>1 DEF ReadType, Refuse, Answer
      <4>3. Len(bs) = 1 => bs[1] = b
        BY <1>3
      <4>4. ShortTypesRead'
        BY <1>2, <3>3, <3>4, <4>2, <4>3 DEF ShortTypesRead
      <4> QED BY <3>4, <4>2, <4>4 DEF DInv, DecodesExactly, RefusesOnlyUnrepresentable
    <3>5. CASE read.purpose = "blocktype"
      <4>1. ReadBlockType(v)
        BY <1>6, <3>5 DEF Finish
      <4>2. CASE AsType(v) = EmptyType
        <5>1. status' = "done" /\ read' = read /\ answer' = [what |-> "empty", n |-> 0]
          BY <4>1, <4>2 DEF ReadBlockType, Answer
        <5>2. Len(bs) = 1 => BlockTypeMeaning(bs) = answer'
          BY <1>3, <3>3, <4>2, <5>1, CodesOfTypes
        <5>3. ShortTypesRead'
          BY <1>2, <3>5, <5>1, <5>2 DEF ShortTypesRead
        <5> QED BY <3>5, <5>1, <5>3 DEF DInv, DecodesExactly, RefusesOnlyUnrepresentable
      <4>3. CASE AsType(v) # EmptyType /\ AsType(v) \in ValueTypes
        <5>1. status' = "done" /\ read' = read /\ answer' = [what |-> "type", n |-> AsType(v)]
          BY <4>1, <4>3 DEF ReadBlockType, Answer
        <5>2. Len(bs) = 1 => BlockTypeMeaning(bs) = answer'
          BY <1>3, <3>3, <4>3, <5>1, CodesOfTypes
        <5>3. ShortTypesRead'
          BY <1>2, <3>5, <5>1, <5>2 DEF ShortTypesRead
        <5> QED BY <3>5, <5>1, <5>3 DEF DInv, DecodesExactly, RefusesOnlyUnrepresentable
      <4>4. CASE AsType(v) # EmptyType /\ AsType(v) \notin ValueTypes
        <5>1. ReadIndex
          BY <4>1, <4>4 DEF ReadBlockType
        <5>2. /\ status' = status /\ count' = 0 /\ result' = 0
              /\ read'.purpose = "index"
          BY <5>1 DEF ReadIndex, Unsigned
        <5>3. Len(bs) = 1 => bs[1] = b
          BY <1>3
        <5>4. ReadAgain'
          BY <1>2, <3>3, <4>4, <5>2, <5>3 DEF ReadAgain
        <5> QED BY <1>1, <5>2, <5>4
            DEF DInv, DecodesExactly, RefusesOnlyUnrepresentable, ShortTypesRead
      <4> QED BY <4>2, <4>3, <4>4
    <3> QED BY <2>2, <3>4, <3>5
  <2>3. read.purpose \in {"value", "type", "blocktype"}
    BY <1>1, Purposes
  <2> QED BY <2>1, <2>2, <2>3
<1> QED BY <1>4, <1>5, <1>6, TakenByte DEF bs

\* The second read of a block type.
LEMMA TakeAgainDecodes ==
  ASSUME IInv, DInv, NEW b \in Bytes, Take(b), read.purpose = "index"
  PROVE  DInv'
<1>1. /\ status = "reading" /\ ReadSoFar /\ ReadAgain
      /\ bytes \in Seq(Bytes) /\ read \in AllReads
  BY DEF Take, IInv, DInv
<1>2. /\ read.width = LongBits /\ ~read.signed
  BY <1>1 DEF AllReads, Reads, Unsigned
<1>3. /\ Len(bytes) \in Nat /\ Len(bytes) > 0 /\ bytes' = bytes /\ b = bytes[Len(bytes)]
      /\ ~b.more
  BY <1>1 DEF ReadSoFar, Take
<1> DEFINE value == (result + ShiftedLeft(b.bits)) % Pow2[read.width]
<1>4. IF TooLarge(b) THEN Refuse ELSE Finish(value)
  BY <1>2, <1>3 DEF Take, TakeUnsigned
<1>5. CASE Refuse
  <2>1. status' = "refused" /\ read' = read
    BY <1>5 DEF Refuse
  <2> QED BY <2>1 DEF DInv, DecodesExactly, RefusesOnlyUnrepresentable, ShortTypesRead
<1>6. CASE Finish(value)
  <2>1. status' = "done" /\ read' = read /\ answer' = [what |-> "index", n |-> value]
    BY <1>6 DEF Finish, Answer
  <2>2. ASSUME Len(bytes) = 1
        PROVE  BlockTypeMeaning(bytes) \in {answer', Nothing}
    <3>1. bytes = Append(<<>>, b) /\ b = bytes[1]
      BY <1>1, <1>3, <2>2
    <3>2. count = 0 /\ result = 0 /\ b.bits \notin ValueTypes \cup {EmptyType}
      BY <1>1, <2>2, <3>1 DEF ReadAgain
    <3>3. b.bits \in 0..(Group - 1)
      BY DEF Bytes
    <3>4. Shift = 0 /\ Pow2[Shift] = 1
      BY <3>2, Powers, GroupFacts DEF Shift
    <3>5. b.bits \in 0..(Pow2[LongBits] - 1) /\ Pow2[LongBits] \in Nat \ {0}
      <4>1. Group <= Pow2[LongBits] /\ Pow2[LongBits] \in Nat \ {0}
        <5>1. GroupBits \in Nat /\ LongBits \in Nat /\ GroupBits <= LongBits
          BY WidthFacts, GroupFacts
        <5> QED BY <5>1, GroupFacts, PowersGrow, PowerIsPositive
      <4> QED BY <3>3, <4>1, GroupFacts
    <3>6. b.bits % Pow2[LongBits] = b.bits
      BY <3>5, SmallRemainder
    <3>7. ShiftedLeft(b.bits) = b.bits
      <4>1. (b.bits * Pow2[Shift]) = b.bits
        BY <3>3, <3>4, GroupFacts
      <4>2. ~(read.width < WordBits)
        BY <1>2, WidthFacts
      <4> QED BY <1>2, <3>6, <4>1, <4>2 DEF ShiftedLeft
    <3>8. value = b.bits
      <4>1. result + ShiftedLeft(b.bits) = b.bits
        BY <3>2, <3>3, <3>7, GroupFacts
      <4> QED BY <1>2, <3>6, <4>1
    <3> HIDE DEF value
    <3> QED BY <2>1, <3>1, <3>2, <3>8, CodesOfTypes
  <2> HIDE DEF value
  <2>3. ShortTypesRead'
    BY <1>3, <2>1, <2>2 DEF ShortTypesRead
  <2> QED BY <2>1, <2>3 DEF DInv, DecodesExactly, RefusesOnlyUnrepresentable
<1> QED BY <1>4, <1>5, <1>6

LEMMA NextDecodes == IInv /\ DInv /\ [Next]_vars => DInv'
<1> SUFFICES ASSUME IInv, DInv, [Next]_vars PROVE DInv'
  OBVIOUS
<1>1. CASE End
  BY <1>1 DEF End, DInv, DecodesExactly, RefusesOnlyUnrepresentable, ShortTypesRead
<1>2. ASSUME NEW b \in Bytes, Take(b) PROVE DInv'
  BY <1>2, TakeDecodes, TakeAgainDecodes
<1>3. CASE UNCHANGED vars
  <2>1. (status = "reading" => IF read.purpose = "index" THEN ReadAgain ELSE Progress)'
    BY <1>3 DEF vars, DInv, ReadAgain, Progress
  <2>2. DecodesExactly' /\ RefusesOnlyUnrepresentable' /\ ShortTypesRead'
    BY <1>3 DEF vars, DInv, DecodesExactly, RefusesOnlyUnrepresentable, ShortTypesRead,
                MostBytes, InRange, Value
  <2> QED BY <2>1, <2>2 DEF DInv
<1> QED BY <1>1, <1>2, <1>3 DEF Next

LEMMA DecodingAlways == Spec => [](IInv /\ DInv)
<1>1. Init => IInv /\ DInv
  BY InitInv, InitDecoding
<1>2. IInv /\ DInv /\ [Next]_vars => IInv' /\ DInv'
  BY NextInv, NextDecodes
<1> QED BY <1>1, <1>2, PTL DEF Spec

-----------------------------------------------------------------------------
(* The theorems.                                                           *)

\* Whatever is read, the stream goes on after the whole encoding of the value
\* and no further, for every width of groups and integers and every encoding;
\* also when a block type of several bytes is read twice (WasmFile.cpp:418).
THEOREM WholeEncodingAlwaysRead == Spec => []WholeEncodingRead
<1>1. Init => IInv
  BY InitInv
<1>2. IInv /\ [Next]_vars => IInv'
  BY NextInv
<1>3. IInv => WholeEncodingRead
  BY DEF IInv
<1> QED BY <1>1, <1>2, <1>3, PTL DEF Spec

\* A value is the one its bytes encode, and takes no more bytes than the widest
\* needs, for every width and sign (Stream.h:67-132); but for the low bits of a
\* uint8_t of two bytes.
THEOREM ValuesAlwaysDecodeExactly == Spec => []DecodesExactly
<1>1. IInv /\ DInv => DecodesExactly
  BY DEF DInv
<1> QED BY <1>1, DecodingAlways, PTL

\* Nothing that the type can hold is refused (Stream.h:83, 87, 119, 121).
THEOREM RefusesAlwaysUnrepresentable == Spec => []RefusesOnlyUnrepresentable
<1>1. IInv /\ DInv => RefusesOnlyUnrepresentable
  BY DEF DInv
<1> QED BY <1>1, DecodingAlways, PTL

\* Types and block types of one byte are read as what they mean, also when the
\* byte is given back and read as an index (WasmFile.cpp:408, Type.cpp:6).
THEOREM ShortTypesAlwaysRead == Spec => []ShortTypesRead
<1>1. IInv /\ DInv => ShortTypesRead
  BY DEF DInv
<1> QED BY <1>1, DecodingAlways, PTL
=============================================================================
