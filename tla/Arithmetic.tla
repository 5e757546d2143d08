----------------------------- MODULE Arithmetic -----------------------------
(***************************************************************************)
(* Facts about numbers that the proofs of several modules need: induction  *)
(* over a set of naturals, congruences, and what a prime modulus gives.    *)
(***************************************************************************)
EXTENDS Integers, Modular, WellFoundedInduction, TLAPS

\* A set of naturals that is not empty has a least element.
LEMMA Least ==
  ASSUME NEW S, S \subseteq Nat, S # {}
  PROVE  \E m \in S : \A k \in S : m <= k
<1>1. \E R : /\ IsWellFoundedOn(R, Nat)
             /\ \A a, b \in Nat : a < b => <<a, b>> \in R
  <2>1. \A a, b \in Nat : a < b => <<a, b>> \in OpToRel(<, Nat)
    BY DEF OpToRel
  <2> QED
    BY <2>1, NatLessThanWellFounded, Zenon
<1>2. PICK R : /\ IsWellFoundedOn(R, Nat)
               /\ \A a, b \in Nat : a < b => <<a, b>> \in R
  BY <1>1
<1>3. PICK x \in S : \A y \in S : ~ (<<y, x>> \in R)
  <2>1. IsWellFoundedOn(R, Nat)
    BY <1>2
  <2> QED
    BY <2>1, WFMin, Zenon
<1>4. \A k \in S : ~(k < x)
  BY <1>2, <1>3
<1> QED
  BY <1>4

\* A bounded set of naturals that is not empty has a greatest element.
LEMMA Greatest ==
  ASSUME NEW b \in Nat, NEW S, S \subseteq 0 .. b, S # {}
  PROVE  \E m \in S : \A k \in S : m >= k
<1> DEFINE D == {d \in Nat : b - d \in S}
<1>1. D \subseteq Nat /\ D # {}
  <2>1. PICK k \in S : TRUE
    OBVIOUS
  <2>2. k \in Int /\ b - k \in Nat /\ b - (b - k) = k
    BY <2>1
  <2> QED
    BY <2>2
<1>2. PICK m \in D : \A k \in D : m <= k
  BY <1>1, Least
<1>3. ASSUME NEW k \in S PROVE b - m >= k
  <2>1. k \in Int /\ b - k \in Nat /\ b - (b - k) = k
    OBVIOUS
  <2>2. m <= b - k
    BY <1>2, <2>1
  <2> QED
    BY <2>1, <2>2
<1> QED
  BY <1>2, <1>3

\* Induction, for a claim that is given as the set of the numbers it holds for.
LEMMA SetInduction ==
  ASSUME NEW S, S \subseteq Nat, 0 \in S, \A k \in S : k + 1 \in S
  PROVE  S = Nat
<1>1. CASE Nat \ S # {}
  <2>1. PICK m \in Nat \ S : \A k \in Nat \ S : m <= k
    BY <1>1, Least
  <2>2. m # 0 /\ m - 1 \in Nat /\ m - 1 \in S
    BY <2>1
  <2> QED
    BY <2>1, <2>2
<1> QED
  BY <1>1

\* A factor that is not 0 cancels.
LEMMA Cancel ==
  ASSUME NEW m \in Nat \ {0}, NEW a \in Int, NEW b \in Int, m * a = m * b
  PROVE  a = b
<1> DEFINE d == a - b
<1>1. d \in Int /\ m * d = 0
  OBVIOUS
<1> HIDE DEF d
<1>2. d >= 1 => m * d >= 1
  BY <1>1
<1>3. d <= -1 => m * d <= -1
  BY <1>1
<1>4. d = 0
  BY <1>1, <1>2, <1>3
<1> QED
  BY <1>4 DEF d

\* Division with remainder.
LEMMA DivMod ==
  ASSUME NEW m \in Nat \ {0}, NEW a \in Int
  PROVE  /\ a % m \in 0 .. m - 1
         /\ a \div m \in Int
         /\ a = m * (a \div m) + (a % m)
OBVIOUS

\* Quotient and remainder are unique.
LEMMA ModUnique ==
  ASSUME NEW m \in Nat \ {0}, NEW a \in Int, NEW t \in Int, NEW v \in 0 .. m - 1,
         a = m * t + v
  PROVE  a % m = v
<1>1. /\ a % m \in 0 .. m - 1
      /\ a \div m \in Int
      /\ a = m * (a \div m) + (a % m)
  BY DivMod
<1> DEFINE d == (a \div m) - t
<1>2. d \in Int /\ m * d = v - (a % m)
  BY <1>1
<1>3. d >= 1 => m * d >= m
  BY <1>2
<1>4. d <= -1 => m * d <= -m
  BY <1>2
<1>5. d = 0
  BY <1>1, <1>2, <1>3, <1>4
<1> QED
  BY <1>1, <1>2, <1>5

\* See ModUnique.
LEMMA DivUnique ==
  ASSUME NEW m \in Nat \ {0}, NEW a \in Int, NEW t \in Int, NEW v \in 0 .. m - 1,
         a = m * t + v
  PROVE  a \div m = t
<1> DEFINE d == a \div m
           w == a % m
<1>1. d \in Int /\ w \in Int /\ a = m * d + w
  BY DivMod
<1>2. w = v
  BY ModUnique
<1> HIDE DEF d, w
<1>3. m * d = m * t
  BY <1>1, <1>2
<1>4. d = t
  BY <1>1, <1>3, Cancel
<1> QED
  BY <1>4 DEF d

\* Dividing twice is dividing by the product; the second remainder is what the
\* first quotient loses.
LEMMA DivDiv ==
  ASSUME NEW b \in Nat \ {0}, NEW c \in Nat \ {0}, NEW a \in Nat
  PROVE  /\ a \div c \in Nat /\ a \div (b * c) \in Nat
         /\ a \div c = (a \div (b * c)) * b + ((a \div c) % b)
<1> DEFINE w == a \div c
           r == a % c
<1>1. w \in Int /\ r \in 0 .. c - 1 /\ a = c * w + r
  BY DivMod
<1>2. w \in Nat
  <2> HIDE DEF w, r
  <2>1. w <= -1 => c * w <= -c
    BY <1>1
  <2> QED
    BY <1>1, <2>1
<1> HIDE DEF w, r
<1> DEFINE e == w \div b
           f == w % b
<1>3. e \in Int /\ f \in 0 .. b - 1 /\ w = b * e + f
  BY <1>2, DivMod
<1>4. e \in Nat
  <2> HIDE DEF e, f
  <2>1. e <= -1 => b * e <= -b
    BY <1>3
  <2> QED
    BY <1>2, <1>3, <2>1
<1> HIDE DEF e, f
<1> DEFINE m == b * c
           v == c * f + r
<1>5. m \in Nat \ {0}
  OBVIOUS
<1>6. v \in 0 .. m - 1
  <2>1. c * f >= 0 /\ c * f <= c * (b - 1)
    BY <1>3
  <2>2. c * (b - 1) = m - c
    OBVIOUS
  <2> QED
    BY <1>1, <1>3, <2>1, <2>2
<1>7. a = m * e + v
  <2>1. c * w = c * (b * e) + c * f
    BY <1>3
  <2>2. c * (b * e) = m * e
    BY <1>3
  <2> QED
    BY <1>1, <1>3, <2>1, <2>2
<1>8. a \div m = e
  <2> HIDE DEF m, v
  <2>1. a \in Int
    OBVIOUS
  <2> QED
    BY <1>3, <1>5, <1>6, <1>7, <2>1, DivUnique
<1>9. a \div (b * c) = e
  BY <1>8
<1>10. e * b + f = w
  BY <1>3
<1> QED
  BY <1>2, <1>4, <1>9, <1>10 DEF w, f

\* Adding a multiple of the modulus changes no remainder.
LEMMA ModShift ==
  ASSUME NEW m \in Nat \ {0}, NEW a \in Int, NEW t \in Int
  PROVE  (a + m * t) % m = a % m
<1>1. /\ a % m \in 0 .. m - 1
      /\ a \div m \in Int
      /\ a = m * (a \div m) + (a % m)
  BY DivMod
<1>2. a + m * t = m * ((a \div m) + t) + (a % m)
  BY <1>1
<1>3. a + m * t \in Int /\ (a \div m) + t \in Int
  BY <1>1
<1> QED
  BY <1>1, <1>2, <1>3, ModUnique

\* a and b are congruent modulo m. The proofs leave it unexpanded where they can:
\* the provers are better at it than at remainders.
Cong(m, a, b) == \E t \in Int : a = b + m * t

\* Numbers are congruent when their remainders are the same.
LEMMA CongMod ==
  ASSUME NEW m \in Nat \ {0}, NEW a \in Int, NEW b \in Int
  PROVE  Cong(m, a, b) <=> a % m = b % m
<1>1. ASSUME a % m = b % m PROVE Cong(m, a, b)
  <2>1. /\ a \div m \in Int /\ b \div m \in Int
        /\ a = m * (a \div m) + (a % m) /\ b = m * (b \div m) + (b % m)
        /\ a % m \in Int
    BY DivMod
  <2>2. a = b + m * ((a \div m) - (b \div m))
    BY <1>1, <2>1
  <2> QED
    BY <2>1, <2>2 DEF Cong
<1>2. ASSUME NEW t \in Int, a = b + m * t PROVE a % m = b % m
  BY <1>2, ModShift
<1> QED
  BY <1>1, <1>2 DEF Cong

\* A divisor leaves no remainder.
LEMMA Divides ==
  ASSUME NEW m \in Nat \ {0}, NEW a \in Int
  PROVE  Cong(m, a, 0) <=> a % m = 0
<1>1. 0 \in Int /\ 0 % m = 0
  BY ModUnique, 0 = m * 0 + 0
<1> QED
  BY <1>1, CongMod

\* Congruence is reflexive, symmetric and transitive.
LEMMA CongRefl ==
  ASSUME NEW m \in Int, NEW a \in Int
  PROVE  Cong(m, a, a)
<1>1. a = a + m * 0 /\ 0 \in Int
  OBVIOUS
<1> QED
  BY <1>1 DEF Cong

\* See CongRefl.
LEMMA CongSym ==
  ASSUME NEW m \in Int, NEW a \in Int, NEW b \in Int, Cong(m, a, b)
  PROVE  Cong(m, b, a)
<1>1. PICK t \in Int : a = b + m * t
  BY DEF Cong
<1>2. b = a + m * (-t) /\ -t \in Int
  BY <1>1
<1> QED
  BY <1>2 DEF Cong

\* See CongRefl.
LEMMA CongTrans ==
  ASSUME NEW m \in Int, NEW a \in Int, NEW b \in Int, NEW c \in Int,
         Cong(m, a, b), Cong(m, b, c)
  PROVE  Cong(m, a, c)
<1>1. PICK t \in Int : a = b + m * t
  BY DEF Cong
<1>2. PICK u \in Int : b = c + m * u
  BY DEF Cong
<1>3. a = c + m * (t + u) /\ t + u \in Int
  BY <1>1, <1>2
<1> QED
  BY <1>3 DEF Cong

\* Congruences may be multiplied.
LEMMA CongTimes ==
  ASSUME NEW m \in Int, NEW a \in Int, NEW b \in Int,
         NEW c \in Int, NEW d \in Int, Cong(m, a, b), Cong(m, c, d)
  PROVE  Cong(m, a * c, b * d)
<1>1. PICK t \in Int : a = b + m * t
  BY DEF Cong
<1>2. PICK u \in Int : c = d + m * u
  BY DEF Cong
<1> DEFINE w == b * u + t * d + m * t * u
<1>3. a * c = b * d + m * w /\ w \in Int
  BY <1>1, <1>2
<1> QED
  BY <1>3 DEF Cong

\* A number below the modulus is its own remainder.
LEMMA ModSmall ==
  ASSUME NEW m \in Nat \ {0}, NEW a \in 0 .. m - 1
  PROVE  a % m = a
<1>1. a \in Int /\ 0 \in Int /\ a = m * 0 + a
  OBVIOUS
<1> QED
  BY <1>1, ModUnique

\* A remainder is below the modulus, and congruent to the number.
LEMMA Reduced ==
  ASSUME NEW m \in Nat \ {0}, NEW a \in Int
  PROVE  a % m \in 0 .. m - 1 /\ a % m \in Int /\ Cong(m, a % m, a)
<1> DEFINE v == a % m
          d == a \div m
<1>1. v \in 0 .. m - 1 /\ d \in Int /\ a = m * d + v
  BY DivMod
<1> HIDE DEF v, d
<1>2. v = a + m * (-d) /\ -d \in Int /\ v \in Int
  BY <1>1
<1>3. Cong(m, v, a)
  BY <1>2 DEF Cong
<1> QED
  BY <1>1, <1>2, <1>3 DEF v

\* Numbers below the modulus are congruent only when they are equal.
LEMMA CongSmall ==
  ASSUME NEW m \in Nat \ {0}, NEW a \in 0 .. m - 1, NEW b \in 0 .. m - 1,
         Cong(m, a, b)
  PROVE  a = b
<1>1. PICK t \in Int : a = b + m * t
  BY DEF Cong
<1>2. t >= 1 => m * t >= m
  OBVIOUS
<1>3. t <= -1 => m * t <= -m
  OBVIOUS
<1>4. t = 0
  BY <1>1, <1>2, <1>3
<1> QED
  BY <1>1, <1>4

\* A number below a prime has an inverse: the least positive combination of
\* the two divides both, so that it is 1.
LEMMA PrimeInverse ==
  ASSUME NEW m, IsPrime(m), NEW a \in 1 .. m - 1
  PROVE  \E z \in 1 .. m - 1 : (z * a) % m = 1
<1>0. m \in Nat \ {0} /\ m \in Nat /\ m > 1 /\ a \in Nat
  BY DEF IsPrime
<1> DEFINE S == {d \in Nat : d # 0 /\ \E x \in Int, y \in Int : d = x * a + y * m}
<1>1. a \in S
  <2>1. a = 1 * a + 0 * m /\ a # 0
    BY <1>0
  <2> QED
    BY <1>0, <2>1
<1>2. m \in S
  <2>1. m = 0 * a + 1 * m /\ m # 0
    BY <1>0
  <2> QED
    BY <1>0, <2>1
<1>3. PICK d \in S : \A k \in S : d <= k
  <2>1. S \subseteq Nat /\ S # {}
    BY <1>1
  <2> QED
    BY <2>1, Least
<1>4. PICK x \in Int, y \in Int : d = x * a + y * m
  BY <1>3
<1>5. d \in Nat /\ d \in Nat \ {0} /\ d >= 1
  BY <1>3
<1>6. ASSUME NEW b \in Int, NEW bx \in Int, NEW by \in Int, b = bx * a + by * m
      PROVE  b % d = 0
  <2> DEFINE e == b \div d
             w == b % d
  <2>1. w \in 0 .. d - 1 /\ e \in Int /\ b = d * e + w
    BY <1>5, DivMod
  <2> HIDE DEF e, w
  <2>2. w = (bx - e * x) * a + (by - e * y) * m
    <3>1. w = b - d * e
      BY <1>0, <1>5, <2>1
    <3>2. d * e = (e * x) * a + (e * y) * m
      BY <1>0, <1>4, <2>1
    <3> QED
      BY <1>0, <1>6, <2>1, <3>1, <3>2
  <2>3. bx - e * x \in Int /\ by - e * y \in Int
    BY <2>1
  <2>4. w # 0 => w \in S
    <3>1. w \in Nat
      BY <1>5, <2>1
    <3>2. \E u \in Int, v \in Int : w = u * a + v * m
      BY <2>2, <2>3, Zenon
    <3> QED
      BY <3>1, <3>2
  <2>5. w # 0 => d <= w
    BY <1>3, <2>4
  <2> HIDE DEF S
  <2>6. w = 0
    BY <1>5, <2>1, <2>5
  <2> QED
    BY <2>6 DEF w
<1>7. a % d = 0 /\ m % d = 0
  <2>1. /\ a = 1 * a + 0 * m /\ m = 0 * a + 1 * m /\ a \in Int /\ m \in Int
        /\ 0 \in Int /\ 1 \in Int
    BY <1>0
  <2> QED
    BY <1>6, <2>1, Zenon
<1>8. d <= a
  BY <1>1, <1>3
<1> HIDE DEF S
<1>9. d = 1
  <2>1. d < m
    BY <1>0, <1>5, <1>8
  <2> QED
    BY <1>0, <1>5, <1>7, <2>1 DEF IsPrime
<1> DEFINE z == x % m
<1>10. z \in 0 .. m - 1 /\ z \in Int /\ Cong(m, z, x)
  BY <1>0, Reduced
<1> HIDE DEF z
<1>11. Cong(m, z * a, x * a)
  <2>1. Cong(m, a, a) /\ a \in Int /\ m \in Int
    BY <1>0, CongRefl
  <2> QED
    BY <1>10, <2>1, CongTimes, Zenon
<1>12. Cong(m, x * a, 1)
  <2>1. x * a = 1 + m * (-y) /\ -y \in Int
    BY <1>0, <1>4, <1>9
  <2> QED
    BY <2>1 DEF Cong
<1>13. Cong(m, z * a, 1)
  <2>1. z * a \in Int /\ x * a \in Int /\ 1 \in Int /\ m \in Int
    BY <1>0, <1>10
  <2> QED
    BY <2>1, <1>11, <1>12, CongTrans, Zenon
<1>14. (z * a) % m = 1
  <2>1. z * a \in Int /\ 1 \in Int /\ 1 \in 0 .. m - 1
    BY <1>0, <1>10
  <2>2. (z * a) % m = 1 % m
    BY <1>0, <2>1, <1>13, CongMod, Zenon
  <2> QED
    BY <1>0, <2>1, <2>2, ModSmall
<1>15. z # 0
  <2>1. z = 0 => z * a = 0
    BY <1>0
  <2> QED
    BY <2>1, <1>0, <1>14, ModSmall
<1>16. z \in 1 .. m - 1
  BY <1>0, <1>10, <1>15
<1> QED
  BY <1>14, <1>16, Zenon

\* A prime that divides a product divides a factor.
LEMMA PrimeProduct ==
  ASSUME NEW m, IsPrime(m), NEW a \in Int, NEW b \in Int, Cong(m, a * b, 0)
  PROVE  Cong(m, a, 0) \/ Cong(m, b, 0)
<1>0. m \in Nat \ {0} /\ m > 1 /\ m \in Int /\ 0 \in Int /\ 1 \in Int
  BY DEF IsPrime
<1> SUFFICES ASSUME ~Cong(m, a, 0) PROVE Cong(m, b, 0)
  OBVIOUS
<1> DEFINE v == a % m
<1>1. v \in 0 .. m - 1 /\ v \in Int /\ Cong(m, v, a)
  BY <1>0, Reduced, Zenon
<1> HIDE DEF v
<1>2. v # 0
  BY <1>0, <1>1, CongSym
<1>3. PICK z \in 1 .. m - 1 : (z * v) % m = 1
  <2>1. v \in 1 .. m - 1
    BY <1>0, <1>1, <1>2
  <2> QED
    BY <2>1, PrimeInverse
<1>4. z \in Int
  BY <1>0
<1>5. Cong(m, z * v, 1)
  <2>1. 1 % m = 1 /\ z * v \in Int
    BY <1>0, <1>1, <1>4, ModSmall
  <2> QED
    BY <1>0, <1>3, <2>1, CongMod
<1> DEFINE c == z * v
           d == v * b
<1>6. c \in Int /\ d \in Int /\ c * b = z * d /\ 1 * b = b /\ z * 0 = 0
      /\ a * b \in Int
  BY <1>1, <1>4
<1>7. Cong(m, d, 0)
  <2>1. Cong(m, b, b)
    BY <1>0, CongRefl
  <2>2. Cong(m, d, a * b)
    BY <1>0, <1>1, <2>1, CongTimes, Zenon
  <2> QED
    BY <1>0, <1>6, <2>2, CongTrans, Zenon
<1> HIDE DEF c, d
<1>8. Cong(m, c * b, b)
  <2>1. Cong(m, b, b)
    BY <1>0, CongRefl
  <2>2. Cong(m, c * b, 1 * b)
    BY <1>0, <1>5, <1>6, <2>1, CongTimes, Zenon DEF c
  <2> QED
    BY <1>6, <2>2
<1>9. Cong(m, z * d, 0)
  <2>1. Cong(m, z, z)
    BY <1>0, <1>4, CongRefl
  <2>2. Cong(m, z * d, z * 0)
    BY <1>0, <1>4, <1>6, <1>7, <2>1, CongTimes, Zenon
  <2> QED
    BY <1>6, <2>2
<1>10. c * b \in Int /\ Cong(m, b, c * b)
  <2>1. c * b \in Int
    BY <1>6
  <2> QED
    BY <1>0, <1>8, <2>1, CongSym, Zenon
<1>11. Cong(m, c * b, 0)
  BY <1>6, <1>9
<1> QED
  BY <1>0, <1>10, <1>11, CongTrans, Zenon

-----------------------------------------------------------------------------
(* Recursive functions and powers.                                         *)

StepsIn(S) == [Nat -> [S -> S]]

\* F is a first value a and a step for each further one; they define a function.
Defines(S, a, F) ==
    \E h \in [Nat -> S] : h[0] = a /\ \A k \in Nat : h[k + 1] = F[k][h[k]]

\* A function on the naturals may be defined by a first value and a step.
LEMMA Recursion ==
  ASSUME NEW S, NEW a \in S, NEW F \in StepsIn(S)
  PROVE  Defines(S, a, F)
<1> USE DEF StepsIn
<1> DEFINE Part(h, m) == /\ h \in [0 .. m -> S] /\ h[0] = a
                         /\ \A k \in 0 .. m - 1 : h[k + 1] = F[k][h[k]]
           M == {m \in Nat : \E h : Part(h, m)}
           G == [m \in Nat |-> CHOOSE h : Part(h, m)]
           H == [m \in Nat |-> G[m][m]]
<1>1. M = Nat
  <2>1. 0 \in M
    <3> DEFINE h == [k \in 0 .. 0 |-> a]
    <3>1. Part(h, 0)
      OBVIOUS
    <3> QED
      BY <3>1
  <2>2. ASSUME NEW m \in M PROVE m + 1 \in M
    <3>1. PICK g : Part(g, m)
      OBVIOUS
    <3> DEFINE h == [k \in 0 .. m + 1 |-> IF k = m + 1 THEN F[m][g[m]] ELSE g[k]]
    <3>2. m \in Nat /\ \A k \in 0 .. m : g[k] \in S
      BY <3>1
    <3>3. F[m][g[m]] \in S
      BY <3>2
    <3>4. h \in [0 .. m + 1 -> S] /\ h[0] = a
      BY <3>1, <3>2, <3>3
    <3>5. ASSUME NEW k \in 0 .. (m + 1) - 1 PROVE h[k + 1] = F[k][h[k]]
      BY <3>1, <3>2
    <3>6. Part(h, m + 1)
      BY <3>4, <3>5
    <3> HIDE DEF Part, h
    <3> QED
      BY <3>2, <3>6
  <2>3. M \subseteq Nat
    OBVIOUS
  <2> HIDE DEF M
  <2> QED
    BY <2>1, <2>2, <2>3, SetInduction, Zenon
<1>2. ASSUME NEW m \in Nat, NEW h, Part(h, m), NEW g, Part(g, m + 1)
      PROVE  h[m] = g[m]
  <2> DEFINE U == {k \in Nat : k <= m => h[k] = g[k]}
  <2>1. 0 \in U
    BY <1>2
  <2>2. ASSUME NEW k \in U PROVE k + 1 \in U
    <3> SUFFICES ASSUME k + 1 <= m PROVE h[k + 1] = g[k + 1]
      OBVIOUS
    <3>1. k \in 0 .. m - 1 /\ k \in 0 .. (m + 1) - 1 /\ h[k] = g[k]
      BY <1>2
    <3>2. h[k + 1] = F[k][h[k]] /\ g[k + 1] = F[k][g[k]]
      BY <1>2, <3>1
    <3> QED
      BY <3>1, <3>2
  <2>3. U = Nat
    <3>1. U \subseteq Nat
      OBVIOUS
    <3> HIDE DEF U
    <3> QED
      BY <2>1, <2>2, <3>1, SetInduction, Zenon
  <2> QED
    BY <2>3
<1>3. ASSUME NEW m \in Nat PROVE Part(G[m], m)
  <2> HIDE DEF Part
  <2>1. \E h : Part(h, m)
    BY <1>1
  <2> QED
    BY <2>1
<1> HIDE DEF G
<1>4. ASSUME NEW m \in Nat PROVE H[m] \in S
  BY <1>3
<1>5. H[0] = a
  <2>1. Part(G[0], 0)
    BY <1>3
  <2> QED
    BY <2>1
<1>6. ASSUME NEW m \in Nat PROVE H[m + 1] = F[m][H[m]]
  <2>1. Part(G[m], m) /\ Part(G[m + 1], m + 1)
    <3> HIDE DEF Part
    <3>1. m + 1 \in Nat
      OBVIOUS
    <3> QED
      BY <1>3, <3>1
  <2>2. G[m][m] = G[m + 1][m]
    <3> HIDE DEF Part
    <3> QED
      BY <1>2, <2>1
  <2>3. G[m + 1][m + 1] = F[m][G[m + 1][m]]
    <3>1. m \in 0 .. (m + 1) - 1
      OBVIOUS
    <3> QED
      BY <2>1, <3>1
  <2> QED
    BY <2>2, <2>3
<1>7. H \in [Nat -> S]
  <2> HIDE DEF H
  <2>1. H = [m \in Nat |-> H[m]]
    BY DEF H
  <2> QED
    BY <1>4, <2>1
<1> HIDE DEF H
<1> QED
  BY <1>5, <1>6, <1>7 DEF Defines

\* Powers are what their recursion says.
LEMMA PowerRecursion ==
  ASSUME NEW b \in Nat
  PROVE  /\ Power(b) \in [Nat -> Nat]
         /\ Power(b)[0] = 1
         /\ \A k \in Nat : Power(b)[k + 1] = b * Power(b)[k]
<1> DEFINE F == [k \in Nat |-> [x \in Nat |-> b * x]]
           P == CHOOSE P : P = [k \in Nat |-> IF k = 0 THEN 1 ELSE b * P[k - 1]]
<1>1. F \in StepsIn(Nat) /\ 1 \in Nat
  BY DEF StepsIn
<1>2. \A k \in Nat : \A x \in Nat : F[k][x] = b * x
  OBVIOUS
<1> HIDE DEF F
<1>3. \E h \in [Nat -> Nat] : h[0] = 1 /\ \A k \in Nat : h[k + 1] = F[k][h[k]]
  <2>1. Defines(Nat, 1, F)
    BY <1>1, Recursion
  <2> QED
    BY <2>1 DEF Defines
<1>4. PICK h \in [Nat -> Nat] : h[0] = 1 /\ \A k \in Nat : h[k + 1] = b * h[k]
  <2>1. PICK h \in [Nat -> Nat] : h[0] = 1 /\ \A k \in Nat : h[k + 1] = F[k][h[k]]
    BY <1>3
  <2>2. ASSUME NEW k \in Nat PROVE h[k + 1] = b * h[k]
    <3>1. h[k] \in Nat
      OBVIOUS
    <3> QED
      BY <1>2, <2>1, <3>1
  <2> QED
    BY <2>1, <2>2
<1>5. h = [k \in Nat |-> IF k = 0 THEN 1 ELSE b * h[k - 1]]
  <2>1. ASSUME NEW k \in Nat, k # 0 PROVE h[k] = b * h[k - 1]
    <3>1. k - 1 \in Nat /\ (k - 1) + 1 = k
      BY <2>1
    <3> QED
      BY <1>4, <3>1
  <2> QED
    BY <1>4, <2>1
<1>6. P = [k \in Nat |-> IF k = 0 THEN 1 ELSE b * P[k - 1]]
  BY <1>5
<1>7. Power(b) = P
  BY DEF Power
<1> HIDE DEF P
<1>8. P[0] = 1 /\ \A k \in Nat : P[k + 1] = b * P[k]
  BY <1>6
<1> DEFINE U == {k \in Nat : P[k] \in Nat}
<1>9. U = Nat
  <2>1. 0 \in U /\ U \subseteq Nat /\ \A k \in U : k + 1 \in U
    BY <1>8
  <2> HIDE DEF U
  <2> QED
    BY <2>1, SetInduction, Zenon
<1>10. P \in [Nat -> Nat]
  <2>1. \A k \in Nat : P[k] \in Nat
    BY <1>9
  <2>2. P = [k \in Nat |-> P[k]]
    BY <1>6
  <2> QED
    BY <2>1, <2>2
<1> QED
  BY <1>7, <1>8, <1>10

\* The same, for one power.
LEMMA PowerStep ==
  ASSUME NEW b \in Nat, NEW k \in Nat
  PROVE  /\ Power(b)[k] \in Nat
         /\ Power(b)[0] = 1 /\ Power(b)[1] = b
         /\ Power(b)[k + 1] = b * Power(b)[k]
<1>1. /\ Power(b) \in [Nat -> Nat] /\ Power(b)[0] = 1
      /\ \A j \in Nat : Power(b)[j + 1] = b * Power(b)[j]
  BY PowerRecursion
<1>2. Power(b)[0 + 1] = b * Power(b)[0]
  BY <1>1
<1> QED
  BY <1>1, <1>2

\* Exponents add up when powers are multiplied.
LEMMA PowerPlus ==
  ASSUME NEW b \in Nat, NEW j \in Nat, NEW k \in Nat
  PROVE  Power(b)[j + k] = Power(b)[j] * Power(b)[k]
<1> DEFINE S == {i \in Nat : Power(b)[j + i] = Power(b)[j] * Power(b)[i]}
<1>1. 0 \in S
  <2>1. Power(b)[j] \in Nat /\ Power(b)[0] = 1
    BY PowerStep
  <2> QED
    BY <2>1
<1>2. ASSUME NEW i \in S PROVE i + 1 \in S
  <2>1. i \in Nat /\ j + i \in Nat /\ (j + i) + 1 = j + (i + 1)
    OBVIOUS
  <2>2. /\ Power(b)[i + 1] = b * Power(b)[i] /\ Power(b)[i] \in Nat
        /\ Power(b)[(j + i) + 1] = b * Power(b)[j + i] /\ Power(b)[j] \in Nat
    BY <2>1, PowerStep
  <2> DEFINE x == Power(b)[i]
             y == Power(b)[j]
  <2>3. x \in Nat /\ y \in Nat /\ Power(b)[j + i] = y * x
    BY <2>2
  <2> HIDE DEF x, y
  <2>4. b * (y * x) = y * (b * x)
    BY <2>3
  <2> QED
    BY <2>1, <2>2, <2>3, <2>4 DEF x, y
<1>3. S \subseteq Nat
  OBVIOUS
<1> HIDE DEF S
<1>4. S = Nat
  BY <1>1, <1>2, <1>3, SetInduction, Zenon
<1> QED
  BY <1>4 DEF S

\* A power of a power is the power of the product of the exponents.
LEMMA PowerTimes ==
  ASSUME NEW b \in Nat, NEW j \in Nat, NEW k \in Nat
  PROVE  Power(Power(b)[j])[k] = Power(b)[j * k]
<1> DEFINE a == Power(b)[j]
           S == {i \in Nat : Power(a)[i] = Power(b)[j * i]}
<1>0. a \in Nat
  BY PowerStep
<1>1. 0 \in S
  <2>1. Power(a)[0] = 1 /\ Power(b)[0] = 1 /\ j * 0 = 0
    BY <1>0, PowerStep
  <2> QED
    BY <2>1
<1>2. ASSUME NEW i \in S PROVE i + 1 \in S
  <2>1. i \in Nat /\ j * i \in Nat /\ j * (i + 1) = j + j * i
    OBVIOUS
  <2>2. Power(a)[i + 1] = a * Power(a)[i]
    BY <1>0, <2>1, PowerStep
  <2>3. Power(b)[j + j * i] = a * Power(b)[j * i]
    BY <2>1, PowerPlus
  <2> QED
    BY <2>1, <2>2, <2>3
<1>3. S \subseteq Nat
  OBVIOUS
<1> HIDE DEF S
<1>4. S = Nat
  BY <1>1, <1>2, <1>3, SetInduction, Zenon
<1> QED
  BY <1>4 DEF S

\* A power of a product is the product of the powers.
LEMMA PowerProduct ==
  ASSUME NEW a \in Nat, NEW b \in Nat, NEW k \in Nat
  PROVE  Power(a * b)[k] = Power(a)[k] * Power(b)[k]
<1> DEFINE S == {i \in Nat : Power(a * b)[i] = Power(a)[i] * Power(b)[i]}
<1>0. a * b \in Nat
  OBVIOUS
<1>1. 0 \in S
  <2>1. Power(a)[0] = 1 /\ Power(b)[0] = 1 /\ Power(a * b)[0] = 1
    BY <1>0, PowerStep
  <2> QED
    BY <2>1
<1>2. ASSUME NEW i \in S PROVE i + 1 \in S
  <2> DEFINE x == Power(a)[i]
             y == Power(b)[i]
  <2>1. /\ i \in Nat /\ x \in Nat /\ y \in Nat
        /\ Power(a)[i + 1] = a * x /\ Power(b)[i + 1] = b * y
        /\ Power(a * b)[i + 1] = (a * b) * (x * y)
    BY <1>0, PowerStep
  <2> HIDE DEF x, y
  <2>2. (a * b) * (x * y) = (a * x) * (b * y)
    BY <2>1
  <2> QED
    BY <2>1, <2>2
<1>3. S \subseteq Nat
  OBVIOUS
<1> HIDE DEF S
<1>4. S = Nat
  BY <1>1, <1>2, <1>3, SetInduction, Zenon
<1> QED
  BY <1>4 DEF S

\* Powers of congruent numbers are congruent.
LEMMA CongPower ==
  ASSUME NEW m \in Int, NEW a \in Nat, NEW b \in Nat, Cong(m, a, b),
         NEW k \in Nat
  PROVE  Cong(m, Power(a)[k], Power(b)[k])
<1> DEFINE S == {i \in Nat : Cong(m, Power(a)[i], Power(b)[i])}
<1>1. 0 \in S
  <2>1. Power(a)[0] = 1 /\ Power(b)[0] = 1 /\ Cong(m, 1, 1)
    BY PowerStep, CongRefl
  <2> QED
    BY <2>1
<1>2. ASSUME NEW i \in S PROVE i + 1 \in S
  <2>1. /\ i \in Nat /\ Power(a)[i] \in Int /\ Power(b)[i] \in Int
        /\ Power(a)[i + 1] = a * Power(a)[i]
        /\ Power(b)[i + 1] = b * Power(b)[i]
    BY PowerStep
  <2>2. Cong(m, a * Power(a)[i], b * Power(b)[i])
    <3>1. a \in Int /\ b \in Int
      OBVIOUS
    <3> QED
      BY <2>1, <3>1, CongTimes
  <2> QED
    BY <2>1, <2>2
<1>3. S \subseteq Nat
  OBVIOUS
<1> HIDE DEF S
<1>4. S = Nat
  BY <1>1, <1>2, <1>3, SetInduction, Zenon
<1> QED
  BY <1>4 DEF S

\* Congruences may be added.
LEMMA CongPlus ==
  ASSUME NEW m \in Int, NEW a \in Int, NEW b \in Int,
         NEW c \in Int, NEW d \in Int, Cong(m, a, b), Cong(m, c, d)
  PROVE  Cong(m, a + c, b + d)
<1>1. PICK t \in Int : a = b + m * t
  BY DEF Cong
<1>2. PICK u \in Int : c = d + m * u
  BY DEF Cong
<1>3. a + c = (b + d) + m * (t + u) /\ t + u \in Int
  BY <1>1, <1>2
<1> QED
  BY <1>3 DEF Cong

\* A congruence modulo a product is one modulo each factor.
LEMMA CongFactor ==
  ASSUME NEW m \in Int, NEW k \in Int, NEW a \in Int, NEW b \in Int,
         Cong(m * k, a, b)
  PROVE  Cong(m, a, b)
<1>1. PICK t \in Int : a = b + (m * k) * t
  BY DEF Cong
<1>2. a = b + m * (k * t) /\ k * t \in Int
  BY <1>1
<1> QED
  BY <1>2 DEF Cong

\* Modulo m^2, the binomial of 1 + m t has two terms.
LEMMA PowerOfOnePlus ==
  ASSUME NEW m \in Nat, NEW t \in Nat, NEW k \in Nat
  PROVE  Cong(m * m, Power(1 + m * t)[k], 1 + (k * t) * m)
<1> DEFINE a == 1 + m * t
           S == {i \in Nat : Cong(m * m, Power(a)[i], 1 + (i * t) * m)}
<1>0. a \in Nat /\ m * m \in Int
  OBVIOUS
<1>1. 0 \in S
  <2>1. Power(a)[0] = 1 /\ 1 + (0 * t) * m = 1 /\ Cong(m * m, 1, 1)
    BY <1>0, PowerStep, CongRefl
  <2> QED
    BY <2>1
<1>2. ASSUME NEW i \in S PROVE i + 1 \in S
  <2> DEFINE x == Power(a)[i]
             y == 1 + (i * t) * m
             z == 1 + ((i + 1) * t) * m
  <2>1. i \in Nat /\ x \in Int /\ y \in Int /\ Power(a)[i + 1] = a * x
    BY <1>0, PowerStep
  <2>2. Cong(m * m, x, y)
    OBVIOUS
  <2>3. Cong(m * m, a * x, a * y)
    <3>1. a \in Int /\ Cong(m * m, a, a)
      BY <1>0, CongRefl
    <3> HIDE DEF a, x, y
    <3> QED
      BY <1>0, <2>1, <2>2, <3>1, CongTimes, Zenon
  <2>4. Cong(m * m, a * y, z)
    <3> DEFINE w == t * (i * t)
    <3>1. w \in Int
      BY <2>1
    <3>2. (m * t) * ((i * t) * m) = (m * m) * w
      <4> DEFINE v == i * t
      <4>1. v \in Int
        BY <2>1
      <4> HIDE DEF v
      <4>2. (m * t) * (v * m) = (m * m) * (t * v)
        BY <4>1
      <4> QED
        BY <4>2 DEF v
    <3>3. (i + 1) * t = i * t + t
      BY <2>1
    <3>4. a * y = z + (m * t) * ((i * t) * m)
      <4> DEFINE v == i * t
      <4>1. v \in Int
        BY <2>1
      <4> HIDE DEF v
      <4>2. (1 + m * t) * (1 + v * m) = (1 + (v + t) * m) + (m * t) * (v * m)
        BY <4>1
      <4> QED
        BY <3>3, <4>2 DEF v
    <3> HIDE DEF w, a, y, z
    <3> QED
      BY <3>1, <3>2, <3>4 DEF Cong
  <2>5. Cong(m * m, a * x, z)
    <3>1. a * x \in Int /\ a * y \in Int /\ z \in Int
      <4>1. z \in Int
        BY <2>1
      <4> HIDE DEF x, y, z, a
      <4> QED
        BY <1>0, <2>1, <4>1
    <3> HIDE DEF x, y, z, a
    <3> QED
      BY <1>0, <2>3, <2>4, <3>1, CongTrans, Zenon
  <2> QED
    BY <2>1, <2>5
<1>3. S \subseteq Nat
  OBVIOUS
<1> HIDE DEF S
<1>4. S = Nat
  BY <1>1, <1>2, <1>3, SetInduction, Zenon
<1> QED
  BY <1>4 DEF S

\* a_exp_b_mod_c is the remainder of the power: the function that squares and
\* multiplies is the only one with its recursion.
LEMMA PowModIsPower ==
  ASSUME NEW a \in Nat, NEW b \in Nat, NEW c \in Nat \ {0}
  PROVE  PowMod(a, b, c) = Power(a)[b] % c
<1> DEFINE Next(f, e) == IF e = 0 THEN 1 % c
                         ELSE LET half == f[e \div 2]
                              IN  (((half * half) % c)
                                     * (IF e % 2 = 1 THEN a ELSE 1)) % c
           F == [e \in 0 .. b |-> Power(a)[e] % c]
           f == CHOOSE h : h = [e \in 0 .. b |-> Next(h, e)]
<1>1. ASSUME NEW e \in 0 .. b, e # 0
      PROVE  e \div 2 \in 0 .. b /\ e \div 2 < e
  <2>1. /\ e \div 2 \in Int /\ e % 2 \in 0 .. 1
        /\ e = 2 * (e \div 2) + (e % 2)
    BY DivMod
  <2> QED
    BY <1>1, <2>1
<1>2. ASSUME NEW e \in 0 .. b, e # 0, NEW half, half = Power(a)[e \div 2] % c
      PROVE  (((half * half) % c) * (IF e % 2 = 1 THEN a ELSE 1)) % c
               = Power(a)[e] % c
  <2> DEFINE k == e \div 2
             x == Power(a)[k]
             d == IF e % 2 = 1 THEN a ELSE 1
             s == (half * half) % c
  <2>1. k \in Nat /\ (e = k + k \/ (e = (k + k) + 1 /\ e % 2 = 1))
        /\ (e = k + k => e % 2 = 0)
    OBVIOUS
  <2>2. x \in Nat /\ x \in Int /\ d \in Nat /\ d \in Int
    <3>1. x \in Nat
      BY <2>1, PowerStep
    <3> QED
      BY <3>1
  <2>3. Power(a)[k + k] = x * x
    BY <2>1, PowerPlus
  <2>4. Power(a)[e] = d * (x * x)
    <3>1. k + k \in Nat /\ x * x \in Int
      BY <2>1, <2>2
    <3>2. Power(a)[(k + k) + 1] = a * (x * x)
      BY <2>3, <3>1, PowerStep
    <3>3. CASE e = k + k
      <4>1. d = 1
        BY <2>1, <3>3
      <4> HIDE DEF d, x, k
      <4> QED
        BY <2>3, <3>1, <3>3, <4>1
    <3>4. CASE e = (k + k) + 1 /\ e % 2 = 1
      BY <3>2, <3>4
    <3> QED
      BY <2>1, <3>3, <3>4
  <2> HIDE DEF x, d, k
  <2>5. half \in Int /\ Cong(c, half, x)
    BY <1>2, <2>2, Reduced DEF x, k
  <2>6. s \in Int /\ Cong(c, s, half * half)
    <3>1. half * half \in Int
      BY <2>5
    <3> QED
      BY <3>1, Reduced
  <2> HIDE DEF s
  <2>7. Cong(c, half * half, x * x)
    <3>1. c \in Int
      OBVIOUS
    <3> QED
      BY <2>2, <2>5, <3>1, CongTimes, Zenon
  <2>8. Cong(c, s, x * x) /\ half * half \in Int /\ x * x \in Int /\ c \in Int
    <3>1. half * half \in Int /\ x * x \in Int /\ c \in Int
      BY <2>2, <2>5
    <3> QED
      BY <2>6, <2>7, <3>1, CongTrans, Zenon
  <2>9. Cong(c, s * d, (x * x) * d)
    <3>1. Cong(c, d, d)
      BY <2>2, <2>8, CongRefl
    <3> QED
      BY <2>2, <2>6, <2>8, <3>1, CongTimes, Zenon
  <2>10. (s * d) % c = ((x * x) * d) % c
    <3>1. s * d \in Int /\ (x * x) * d \in Int
      BY <2>2, <2>6, <2>8
    <3> QED
      BY <2>9, <3>1, CongMod, Zenon
  <2>11. (x * x) * d = d * (x * x)
    BY <2>2, <2>8
  <2> QED
    BY <2>4, <2>10, <2>11 DEF s, d
<1>3. F = [e \in 0 .. b |-> Next(F, e)]
  <2>1. ASSUME NEW e \in 0 .. b PROVE F[e] = Next(F, e)
    <3>1. CASE e = 0
      <4>1. Power(a)[0] = 1
        BY PowerStep, 0 \in Nat
      <4> QED
        BY <3>1, <4>1
    <3>2. CASE e # 0
      <4>1. F[e \div 2] = Power(a)[e \div 2] % c
        BY <1>1, <3>2
      <4> QED
        BY <1>2, <3>2, <4>1
    <3> QED
      BY <3>1, <3>2
  <2> QED
    BY <2>1
<1> HIDE DEF F
<1>4. f = [e \in 0 .. b |-> Next(f, e)]
  <2> HIDE DEF Next
  <2> QED
    BY <1>3
<1>5. PowMod(a, b, c) = f[b]
  BY DEF PowMod
<1> HIDE DEF f
<1> DEFINE Bad == {e \in 0 .. b : f[e] # F[e]}
<1>6. Bad = {}
  <2>1. SUFFICES ASSUME Bad # {} PROVE FALSE
    OBVIOUS
  <2>2. PICK e \in Bad : \A k \in Bad : e <= k
    <3>1. Bad \subseteq Nat
      OBVIOUS
    <3> HIDE DEF Bad
    <3> QED
      BY <2>1, <3>1, Least
  <2>3. f[e] = Next(f, e) /\ F[e] = Next(F, e) /\ e \in 0 .. b /\ f[e] # F[e]
    <3>1. e \in 0 .. b /\ f[e] # F[e]
      OBVIOUS
    <3> HIDE DEF Next, Bad
    <3> QED
      BY <1>3, <1>4, <3>1, Zenon
  <2>4. e # 0
    BY <2>3
  <2>5. e \div 2 \notin Bad /\ e \div 2 \in 0 .. b
    BY <1>1, <2>2, <2>4
  <2>6. f[e \div 2] = F[e \div 2]
    BY <2>5
  <2>7. Next(f, e) = Next(F, e)
    BY <2>6, Zenon
  <2> QED
    BY <2>3, <2>7
<1>7. f[b] = F[b] /\ b \in 0 .. b
  BY <1>6
<1> QED
  BY <1>5, <1>7 DEF F

-----------------------------------------------------------------------------
(* Fermat's little theorem, from the rows of Pascal's triangle.            *)

\* R is Pascal's triangle: the row of (1 + x)^i, with zeros after it.
Triangle(R) ==
    /\ R \in [Nat -> [Nat -> Nat]]
    /\ \A k \in Nat : R[0][k] = IF k = 0 THEN 1 ELSE 0
    /\ \A i, k \in Nat : R[i + 1][k] = IF k = 0 THEN R[i][0]
                                       ELSE R[i][k - 1] + R[i][k]

\* There is such a triangle.
LEMMA TriangleExists == \E R : Triangle(R)
<1> DEFINE S == [Nat -> Nat]
           a == [k \in Nat |-> IF k = 0 THEN 1 ELSE 0]
           F == [i \in Nat |-> [x \in S |->
                  [k \in Nat |-> IF k = 0 THEN x[0] ELSE x[k - 1] + x[k]]]]
<1>1. a \in S
  OBVIOUS
<1>2. ASSUME NEW x \in S
      PROVE  [k \in Nat |-> IF k = 0 THEN x[0] ELSE x[k - 1] + x[k]] \in S
  <2>1. ASSUME NEW k \in Nat
        PROVE  (IF k = 0 THEN x[0] ELSE x[k - 1] + x[k]) \in Nat
    <3>1. x[0] \in Nat /\ x[k] \in Nat /\ (k # 0 => x[k - 1] \in Nat)
      OBVIOUS
    <3> QED
      BY <3>1
  <2> QED
    BY <2>1
<1>3. F \in StepsIn(S)
  BY <1>2 DEF StepsIn
<1>4. \A i \in Nat : \A x \in S : \A k \in Nat :
         F[i][x][k] = IF k = 0 THEN x[0] ELSE x[k - 1] + x[k]
  OBVIOUS
<1>5. \A k \in Nat : a[k] = IF k = 0 THEN 1 ELSE 0
  OBVIOUS
<1> HIDE DEF F, a
<1>6. Defines(S, a, F)
  <2> HIDE DEF S
  <2> QED
    BY <1>1, <1>3, Recursion
<1>7. PICK h \in [Nat -> S] : h[0] = a /\ \A k \in Nat : h[k + 1] = F[k][h[k]]
  BY <1>6 DEF Defines
<1>8. ASSUME NEW i \in Nat, NEW k \in Nat
      PROVE  h[i + 1][k] = IF k = 0 THEN h[i][0] ELSE h[i][k - 1] + h[i][k]
  <2>1. h[i] \in S /\ h[i + 1] = F[i][h[i]]
    BY <1>7
  <2> DEFINE x == h[i]
  <2>2. x \in S
    BY <2>1
  <2> HIDE DEF x, S
  <2>3. F[i][x][k] = IF k = 0 THEN x[0] ELSE x[k - 1] + x[k]
    BY <1>4, <2>2
  <2> QED
    BY <2>1, <2>3 DEF x
<1>9. \A k \in Nat : h[0][k] = IF k = 0 THEN 1 ELSE 0
  BY <1>5, <1>7
<1>10. h \in [Nat -> [Nat -> Nat]]
  BY <1>7
<1> QED
  BY <1>8, <1>9, <1>10 DEF Triangle

\* Its entries are naturals, 1 at both ends of a row and 0 after it.
LEMMA TriangleEnds ==
  ASSUME NEW R, Triangle(R), NEW i \in Nat
  PROVE  /\ \A k \in Nat : R[i][k] \in Nat
         /\ R[i][0] = 1 /\ R[i][i] = 1
         /\ \A k \in Nat : k > i => R[i][k] = 0
<1> DEFINE Ends(j) == /\ R[j][0] = 1 /\ R[j][j] = 1
                      /\ \A k \in Nat : k > j => R[j][k] = 0
           S == {j \in Nat : Ends(j)}
<1>1. 0 \in S
  <2>1. \A k \in Nat : R[0][k] = IF k = 0 THEN 1 ELSE 0
    BY DEF Triangle
  <2>2. Ends(0)
    BY <2>1
  <2> HIDE DEF Ends
  <2> QED
    BY <2>2
<1>2. ASSUME NEW j \in S PROVE j + 1 \in S
  <2>1. j \in Nat /\ j + 1 \in Nat /\ j + 1 # 0 /\ Ends(j)
    OBVIOUS
  <2>2. \A k \in Nat : R[j + 1][k] = IF k = 0 THEN R[j][0]
                                     ELSE R[j][k - 1] + R[j][k]
    BY <2>1 DEF Triangle
  <2>3. R[j + 1][0] = 1
    BY <2>1, <2>2
  <2>4. R[j + 1][j + 1] = 1
    <3>1. R[j][j + 1] = 0 /\ (j + 1) - 1 = j
      BY <2>1
    <3> QED
      BY <2>1, <2>2, <3>1
  <2>5. ASSUME NEW k \in Nat, k > j + 1 PROVE R[j + 1][k] = 0
    <3>1. k - 1 \in Nat /\ k - 1 > j /\ k > j /\ k # 0
      BY <2>1, <2>5
    <3>2. R[j][k - 1] = 0 /\ R[j][k] = 0
      BY <2>1, <3>1
    <3> QED
      BY <2>2, <3>1, <3>2
  <2>6. Ends(j + 1)
    BY <2>3, <2>4, <2>5
  <2> HIDE DEF Ends
  <2> QED
    BY <2>1, <2>6
<1>3. S \subseteq Nat
  OBVIOUS
<1>4. S = Nat
  <2> HIDE DEF S
  <2> QED
    BY <1>1, <1>2, <1>3, SetInduction, Zenon
<1>5. Ends(i)
  <2> HIDE DEF Ends
  <2> QED
    BY <1>4
<1>6. \A k \in Nat : R[i][k] \in Nat
  BY DEF Triangle
<1> QED
  BY <1>5, <1>6

\* (k + 1) times an entry is the next row's number times the one above left.
LEMMA Absorption ==
  ASSUME NEW R, Triangle(R), NEW i \in Nat, NEW k \in Nat
  PROVE  (k + 1) * R[i + 1][k + 1] = (i + 1) * R[i][k]
<1> DEFINE Holds(j) == \A l \in Nat :
                         (l + 1) * R[j + 1][l + 1] = (j + 1) * R[j][l]
           S == {j \in Nat : Holds(j)}
<1>1. ASSUME NEW j \in Nat, NEW l \in Nat
      PROVE  R[j + 1][l + 1] = R[j][l] + R[j][l + 1]
  <2>1. l + 1 \in Nat /\ l + 1 # 0 /\ (l + 1) - 1 = l
    OBVIOUS
  <2> QED
    BY <2>1 DEF Triangle
<1>2. 0 \in S
  <2>1. ASSUME NEW l \in Nat
        PROVE  (l + 1) * R[0 + 1][l + 1] = (0 + 1) * R[0][l]
    <3>1. R[0][l] = (IF l = 0 THEN 1 ELSE 0) /\ R[0][l + 1] = 0
      <4>1. \A x \in Nat : R[0][x] = IF x = 0 THEN 1 ELSE 0
        BY DEF Triangle
      <4>2. l + 1 \in Nat /\ l + 1 # 0
        OBVIOUS
      <4> HIDE DEF S, Holds
      <4> QED
        BY <4>1, <4>2
    <3>2. R[0 + 1][l + 1] = R[0][l] + R[0][l + 1]
      BY <1>1
    <3> QED
      BY <3>1, <3>2
  <2> QED
    BY <2>1
<1>3. ASSUME NEW j \in S PROVE j + 1 \in S
  <2>1. j \in Nat /\ j + 1 \in Nat /\ Holds(j)
    OBVIOUS
  <2>2. ASSUME NEW l \in Nat
        PROVE  (l + 1) * R[(j + 1) + 1][l + 1] = ((j + 1) + 1) * R[j + 1][l]
    <3> DEFINE x == R[j + 1][l]
               y == R[j + 1][l + 1]
               z == R[j][l]
    <3>1. x \in Nat /\ y \in Nat /\ z \in Nat /\ l + 1 \in Nat
      BY <2>1, TriangleEnds
    <3>2. R[(j + 1) + 1][l + 1] = x + y
      BY <1>1, <2>1
    <3>3. (l + 1) * y = (j + 1) * z
      BY <2>1
    <3>4. (l + 1) * x + (j + 1) * z = ((j + 1) + 1) * x
      <4>1. CASE l = 0
        <5>1. x = 1 /\ z = 1
          BY <2>1, <4>1, TriangleEnds
        <5> HIDE DEF x, z
        <5> QED
          BY <2>1, <4>1, <5>1
      <4>2. CASE l # 0
        <5> DEFINE m == l - 1
                   w == R[j][m]
        <5>1. m \in Nat /\ l = m + 1
          BY <4>2
        <5>2. x = w + z /\ w \in Nat
          BY <1>1, <2>1, <5>1, TriangleEnds
        <5>3. (m + 1) * R[j + 1][m + 1] = (j + 1) * w
          BY <2>1, <5>1
        <5>4. l * x = (j + 1) * w
          BY <5>1, <5>3
        <5> HIDE DEF x, z, w, m
        <5>5. (l + 1) * x = l * x + x
          BY <3>1
        <5>6. (j + 1) * w + (j + 1) * z = (j + 1) * x
          BY <2>1, <3>1, <5>2
        <5>7. ((j + 1) + 1) * x = (j + 1) * x + x
          BY <2>1, <3>1
        <5>8. (j + 1) * w \in Int /\ (j + 1) * z \in Int /\ (j + 1) * x \in Int
          BY <2>1, <3>1, <5>2
        <5> QED
          BY <3>1, <5>4, <5>5, <5>6, <5>7, <5>8
      <4> QED
        BY <4>1, <4>2
    <3> HIDE DEF x, y, z
    <3>5. (l + 1) * (x + y) = (l + 1) * x + (l + 1) * y
      BY <3>1
    <3> QED
      BY <3>2, <3>3, <3>4, <3>5 DEF x
  <2>3. Holds(j + 1)
    BY <2>2
  <2> HIDE DEF Holds
  <2> QED
    BY <2>1, <2>3
<1>4. S \subseteq Nat
  OBVIOUS
<1>5. S = Nat
  <2> HIDE DEF S
  <2> QED
    BY <1>2, <1>3, <1>4, SetInduction, Zenon
<1>6. Holds(i)
  <2> HIDE DEF Holds
  <2> QED
    BY <1>5
<1> QED
  BY <1>6

\* s[i][m] is the sum of the first m terms of (1 + a)^i.
Sums(R, a, s) ==
    /\ s \in [Nat -> [Nat -> Nat]]
    /\ \A i \in Nat : s[i][0] = 0
    /\ \A i, m \in Nat : s[i][m + 1] = s[i][m] + R[i][m] * Power(a)[m]

\* There are such sums.
LEMMA SumsExist ==
  ASSUME NEW R, Triangle(R), NEW a \in Nat
  PROVE  \E s : Sums(R, a, s)
<1> DEFINE Row(i, h) == /\ h \in [Nat -> Nat] /\ h[0] = 0
                        /\ \A m \in Nat : h[m + 1] = h[m] + R[i][m] * Power(a)[m]
<1>1. ASSUME NEW i \in Nat PROVE \E h : Row(i, h)
  <2> DEFINE F == [m \in Nat |-> [x \in Nat |-> x + R[i][m] * Power(a)[m]]]
  <2>1. \A m \in Nat : R[i][m] \in Nat /\ Power(a)[m] \in Nat
                       /\ R[i][m] * Power(a)[m] \in Nat
    <3>1. \A m \in Nat : R[i][m] \in Nat /\ Power(a)[m] \in Nat
      BY TriangleEnds, PowerStep
    <3> QED
      BY <3>1
  <2>2. F \in StepsIn(Nat)
    BY <2>1 DEF StepsIn
  <2>3. \A m \in Nat : \A x \in Nat : F[m][x] = x + R[i][m] * Power(a)[m]
    OBVIOUS
  <2> HIDE DEF F
  <2>4. Defines(Nat, 0, F)
    BY <2>2, Recursion
  <2>5. PICK h \in [Nat -> Nat] :
               h[0] = 0 /\ \A k \in Nat : h[k + 1] = F[k][h[k]]
    BY <2>4 DEF Defines
  <2>6. \A m \in Nat : h[m + 1] = h[m] + R[i][m] * Power(a)[m]
    BY <2>3, <2>5
  <2> QED
    BY <2>5, <2>6
<1> DEFINE s == [i \in Nat |-> CHOOSE h : Row(i, h)]
<1>2. \A i \in Nat : Row(i, s[i])
  <2> HIDE DEF Row
  <2> QED
    BY <1>1
<1>3. s = [i \in Nat |-> s[i]]
  <2> HIDE DEF Row
  <2> QED
    OBVIOUS
<1> HIDE DEF s
<1>4. s \in [Nat -> [Nat -> Nat]]
  BY <1>2, <1>3
<1>5. Sums(R, a, s)
  BY <1>2, <1>4 DEF Sums
<1> QED
  BY <1>5

\* A partial sum of the next row is made of two of this row.
LEMMA SumsStep ==
  ASSUME NEW R, Triangle(R), NEW a \in Nat, NEW s, Sums(R, a, s),
         NEW i \in Nat, NEW m \in Nat
  PROVE  s[i + 1][m + 1] = s[i][m + 1] + a * s[i][m]
<1> DEFINE S == {j \in Nat : s[i + 1][j + 1] = s[i][j + 1] + a * s[i][j]}
<1>0. i + 1 \in Nat
  OBVIOUS
<1>1. ASSUME NEW l \in Nat, NEW j \in Nat
      PROVE  /\ s[l][0] = 0 /\ s[l][j] \in Nat
             /\ s[l][j + 1] = s[l][j] + R[l][j] * Power(a)[j]
  BY DEF Sums
<1>2. 0 \in S
  <2>1. Power(a)[0] = 1 /\ R[i][0] = 1 /\ R[i + 1][0] = 1
    BY <1>0, PowerStep, TriangleEnds, 0 \in Nat
  <2>2. /\ s[i][0] = 0 /\ s[i + 1][0] = 0
        /\ s[i][0 + 1] = s[i][0] + R[i][0] * Power(a)[0]
        /\ s[i + 1][0 + 1] = s[i + 1][0] + R[i + 1][0] * Power(a)[0]
    <3> HIDE DEF S
    <3> QED
      BY <1>0, <1>1, 0 \in Nat, Zenon
  <2> QED
    BY <2>1, <2>2
<1>3. ASSUME NEW j \in S PROVE j + 1 \in S
  <2> DEFINE x == R[i][j]
             y == R[i][j + 1]
             w == Power(a)[j]
  <2>1. j \in Nat /\ j + 1 \in Nat /\ j + 1 # 0 /\ (j + 1) - 1 = j
    OBVIOUS
  <2>2. x \in Nat /\ y \in Nat /\ w \in Nat /\ Power(a)[j + 1] = a * w
    BY <2>1, TriangleEnds, PowerStep
  <2>3. R[i + 1][j + 1] = x + y
    BY <2>1 DEF Triangle
  <2>4. /\ s[i + 1][(j + 1) + 1] = s[i + 1][j + 1] + (x + y) * (a * w)
        /\ s[i][(j + 1) + 1] = s[i][j + 1] + y * (a * w)
        /\ s[i][j + 1] = s[i][j] + x * w
        /\ s[i][j] \in Nat /\ s[i][j + 1] \in Nat
    <3>1. /\ s[i + 1][(j + 1) + 1]
               = s[i + 1][j + 1] + R[i + 1][j + 1] * Power(a)[j + 1]
          /\ s[i][(j + 1) + 1] = s[i][j + 1] + R[i][j + 1] * Power(a)[j + 1]
          /\ s[i][j + 1] = s[i][j] + R[i][j] * Power(a)[j]
          /\ s[i][j] \in Nat /\ s[i][j + 1] \in Nat
      <4> HIDE DEF S
      <4> QED
        BY <1>0, <1>1, <2>1, Zenon
    <3> QED
      BY <2>2, <2>3, <3>1
  <2>5. s[i + 1][j + 1] = s[i][j + 1] + a * s[i][j]
    OBVIOUS
  <2> DEFINE e == s[i][j]
             f == s[i][j + 1]
  <2> HIDE DEF x, y, w, S
  <2>6. a * (e + x * w) = a * e + x * (a * w)
    <3>1. e \in Nat
      BY <2>4
    <3> HIDE DEF e
    <3> QED
      BY <2>2, <3>1
  <2>7. (x + y) * (a * w) = x * (a * w) + y * (a * w)
    <3> DEFINE v == a * w
    <3>1. v \in Nat
      BY <2>2
    <3> HIDE DEF v
    <3>2. (x + y) * v = x * v + y * v
      BY <2>2, <3>1
    <3> QED
      BY <3>2 DEF v
  <2>8. x * (a * w) \in Nat /\ y * (a * w) \in Nat /\ a * e \in Nat
    <3>1. a * w \in Nat /\ a * e \in Nat
      BY <2>2, <2>4
    <3> QED
      BY <2>2, <3>1
  <2>9. s[i + 1][(j + 1) + 1] = s[i][(j + 1) + 1] + a * s[i][j + 1]
    BY <2>4, <2>5, <2>6, <2>7, <2>8
  <2> QED
    BY <2>1, <2>9 DEF S
<1>4. S \subseteq Nat
  OBVIOUS
<1>5. S = Nat
  <2> HIDE DEF S
  <2> QED
    BY <1>2, <1>3, <1>4, SetInduction, Zenon
<1> QED
  BY <1>5

\* The whole sum is the power of 1 + a.
LEMMA Binomial ==
  ASSUME NEW R, Triangle(R), NEW a \in Nat, NEW s, Sums(R, a, s), NEW i \in Nat
  PROVE  s[i][i + 1] = Power(1 + a)[i]
<1> DEFINE S == {j \in Nat : s[j][j + 1] = Power(1 + a)[j]}
<1>0. 1 + a \in Nat
  OBVIOUS
<1>1. ASSUME NEW l \in Nat, NEW j \in Nat
      PROVE  /\ s[l][0] = 0 /\ s[l][j] \in Nat
             /\ s[l][j + 1] = s[l][j] + R[l][j] * Power(a)[j]
  BY DEF Sums
<1>2. 0 \in S
  <2>1. Power(a)[0] = 1 /\ Power(1 + a)[0] = 1 /\ R[0][0] = 1
    BY <1>0, PowerStep, TriangleEnds, 0 \in Nat
  <2>2. s[0][0 + 1] = 1
    BY <1>1, <2>1
  <2> QED
    BY <2>1, <2>2
<1>3. ASSUME NEW j \in S PROVE j + 1 \in S
  <2>1. j \in Nat /\ j + 1 \in Nat /\ s[j][j + 1] = Power(1 + a)[j]
        /\ s[j][j + 1] \in Nat
    BY <1>1
  <2>2. s[j + 1][(j + 1) + 1] = s[j][(j + 1) + 1] + a * s[j][j + 1]
    BY <2>1, SumsStep
  <2>3. s[j][(j + 1) + 1] = s[j][j + 1]
    <3>1. R[j][j + 1] = 0 /\ Power(a)[j + 1] \in Nat
      BY <2>1, TriangleEnds, PowerStep
    <3>2. s[j][(j + 1) + 1] = s[j][j + 1] + 0 * Power(a)[j + 1]
      BY <1>1, <2>1, <3>1
    <3> QED
      BY <2>1, <3>1, <3>2
  <2>4. Power(1 + a)[j + 1] = (1 + a) * Power(1 + a)[j]
    BY <1>0, <2>1, PowerStep
  <2> DEFINE x == s[j][j + 1]
  <2>5. (1 + a) * x = x + a * x
    <3>1. x \in Nat
      BY <2>1
    <3> HIDE DEF x
    <3> QED
      BY <3>1
  <2> QED
    BY <2>1, <2>2, <2>3, <2>4, <2>5
<1>4. S \subseteq Nat
  OBVIOUS
<1>5. S = Nat
  <2> HIDE DEF S
  <2> QED
    BY <1>2, <1>3, <1>4, SetInduction, Zenon
<1> QED
  BY <1>5

\* A prime divides the inner entries of its row.
LEMMA PrimeRow ==
  ASSUME NEW R, Triangle(R), NEW m, IsPrime(m), NEW k \in 1 .. m - 1
  PROVE  Cong(m, R[m][k], 0)
<1> DEFINE i == m - 1
           l == k - 1
           x == R[m][k]
<1>0. m \in Nat /\ m \in Int /\ m > 1 /\ m \in Nat \ {0}
  BY DEF IsPrime
<1>1. /\ i \in Nat /\ i + 1 = m /\ l \in Nat /\ l + 1 = k
      /\ k \in Nat /\ k \in 1 .. m - 1
  BY <1>0
<1>2. x \in Nat /\ R[i][l] \in Nat
  BY <1>0, <1>1, TriangleEnds
<1>3. k * x = m * R[i][l]
  <2>1. (l + 1) * R[i + 1][l + 1] = (i + 1) * R[i][l]
    BY <1>1, Absorption
  <2> HIDE DEF i, l
  <2> QED
    BY <1>1, <2>1
<1> HIDE DEF i, l, x
<1>4. Cong(m, k * x, 0)
  <2>1. k * x = 0 + m * R[i][l] /\ R[i][l] \in Int
    BY <1>0, <1>2, <1>3
  <2> QED
    BY <2>1 DEF Cong
<1>5. ~Cong(m, k, 0)
  <2>1. k % m = k /\ k # 0 /\ k \in Int
    BY <1>0, <1>1, ModSmall
  <2> QED
    BY <1>0, <2>1, Divides
<1>6. k \in Int /\ x \in Int
  BY <1>1, <1>2
<1>7. Cong(m, x, 0)
  BY <1>4, <1>5, <1>6, PrimeProduct
<1> QED
  BY <1>7 DEF x

\* Modulo a prime its power is additive.
LEMMA FreshmansDream ==
  ASSUME NEW m, IsPrime(m), NEW a \in Nat
  PROVE  Cong(m, Power(1 + a)[m], 1 + Power(a)[m])
<1>0. m \in Nat /\ m \in Int /\ m > 1 /\ 0 \in Nat /\ 0 \in Int /\ 1 \in Int
  BY DEF IsPrime
<1>1. PICK R : Triangle(R)
  BY TriangleExists
<1>2. PICK s : Sums(R, a, s)
  BY <1>1, SumsExist
<1> DEFINE b(k) == R[m][k] * Power(a)[k]
<1>3. ASSUME NEW k \in Nat
      PROVE  /\ s[m][0] = 0 /\ s[m][k] \in Nat /\ s[m][k] \in Int
             /\ s[m][k + 1] = s[m][k] + b(k)
             /\ R[m][k] \in Int /\ Power(a)[k] \in Int /\ b(k) \in Int
  <2>1. R[m][k] \in Nat /\ Power(a)[k] \in Nat
    BY <1>0, <1>1, TriangleEnds, PowerStep
  <2>2. b(k) \in Int
    BY <2>1
  <2>3. s[m][0] = 0 /\ s[m][k] \in Nat /\ s[m][k + 1] = s[m][k] + b(k)
    BY <1>0, <1>2 DEF Sums
  <2> QED
    BY <2>1, <2>2, <2>3
<1>4. ASSUME NEW k \in 1 .. m - 1 PROVE Cong(m, b(k), 0)
  <2>1. k \in Nat /\ Cong(m, R[m][k], 0)
    BY <1>0, <1>1, PrimeRow
  <2>2. R[m][k] \in Int /\ Power(a)[k] \in Int
    BY <1>3, <2>1
  <2>3. Cong(m, Power(a)[k], Power(a)[k])
    BY <1>0, <2>2, CongRefl
  <2>4. Cong(m, R[m][k] * Power(a)[k], 0 * Power(a)[k])
    BY <1>0, <2>1, <2>2, <2>3, CongTimes, Zenon
  <2>5. 0 * Power(a)[k] = 0
    BY <2>2
  <2> QED
    BY <2>4, <2>5
<1>5. b(0) = 1 /\ b(m) = Power(a)[m]
  <2>1. R[m][0] = 1 /\ R[m][m] = 1 /\ Power(a)[0] = 1 /\ Power(a)[m] \in Nat
    BY <1>0, <1>1, TriangleEnds, PowerStep
  <2> QED
    BY <2>1
<1> HIDE DEF b
<1> DEFINE S == {k \in Nat : k < m => Cong(m, s[m][k + 1], 1)}
<1>6. 0 \in S
  <2>1. s[m][0 + 1] = 1
    BY <1>0, <1>3, <1>5
  <2>2. Cong(m, 1, 1)
    BY <1>0, CongRefl
  <2> QED
    BY <2>1, <2>2
<1>7. ASSUME NEW k \in S PROVE k + 1 \in S
  <2>1. k \in Nat /\ k + 1 \in Nat
    OBVIOUS
  <2>2. CASE k + 1 < m
    <3>1. k + 1 \in 1 .. m - 1 /\ k < m
      BY <1>0, <2>1, <2>2
    <3>2. Cong(m, s[m][k + 1], 1) /\ Cong(m, b(k + 1), 0)
      BY <1>4, <3>1
    <3>3. /\ s[m][k + 1] \in Int /\ b(k + 1) \in Int
          /\ s[m][(k + 1) + 1] = s[m][k + 1] + b(k + 1)
      BY <1>3, <2>1
    <3>4. Cong(m, s[m][k + 1] + b(k + 1), 1 + 0)
      BY <1>0, <3>2, <3>3, CongPlus, Zenon
    <3>5. Cong(m, s[m][(k + 1) + 1], 1)
      BY <3>3, <3>4
    <3> QED
      BY <2>1, <3>5
  <2> QED
    BY <2>1, <2>2
<1>8. S \subseteq Nat
  OBVIOUS
<1>9. S = Nat
  <2> HIDE DEF S
  <2> QED
    BY <1>6, <1>7, <1>8, SetInduction, Zenon
<1>10. Cong(m, s[m][m], 1)
  <2>1. m - 1 \in Nat /\ m - 1 < m /\ (m - 1) + 1 = m
    BY <1>0
  <2>2. m - 1 \in S
    <3> HIDE DEF S
    <3> QED
      BY <1>9, <2>1
  <2> QED
    BY <2>1, <2>2
<1> HIDE DEF S
<1>11. s[m][m + 1] = Power(1 + a)[m]
  BY <1>0, <1>1, <1>2, Binomial
<1>12. s[m][m + 1] = s[m][m] + Power(a)[m] /\ s[m][m] \in Int
       /\ Power(a)[m] \in Int
  BY <1>0, <1>3, <1>5
<1>13. Cong(m, Power(a)[m], Power(a)[m])
  BY <1>0, <1>12, CongRefl
<1>14. Cong(m, s[m][m] + Power(a)[m], 1 + Power(a)[m])
  BY <1>0, <1>10, <1>12, <1>13, CongPlus, Zenon
<1> QED
  BY <1>11, <1>12, <1>14

\* Fermat: a number is its own power to a prime modulus.
LEMMA Fermat ==
  ASSUME NEW m, IsPrime(m), NEW a \in Nat
  PROVE  Cong(m, Power(a)[m], a)
<1>0. m \in Nat /\ m \in Int /\ m > 1 /\ 1 \in Int
  BY DEF IsPrime
<1> DEFINE S == {b \in Nat : Cong(m, Power(b)[m], b)}
<1>1. 0 \in S
  <2>1. Power(0)[(m - 1) + 1] = 0 * Power(0)[m - 1] /\ Power(0)[m - 1] \in Nat
    <3>1. m - 1 \in Nat /\ 0 \in Nat
      BY <1>0
    <3> QED
      BY <3>1, PowerStep
  <2>2. (m - 1) + 1 = m
    BY <1>0
  <2>3. Power(0)[m] = 0
    BY <2>1, <2>2
  <2>4. Cong(m, 0, 0)
    BY <1>0, CongRefl
  <2> QED
    BY <2>3, <2>4
<1>2. ASSUME NEW b \in S PROVE b + 1 \in S
  <2>1. b \in Nat /\ b \in Int /\ b + 1 \in Nat /\ 1 + b = b + 1
        /\ Cong(m, Power(b)[m], b)
    OBVIOUS
  <2>2. Power(b)[m] \in Int /\ Power(1 + b)[m] \in Int
    <3>1. Power(b)[m] \in Nat /\ Power(1 + b)[m] \in Nat
      BY <1>0, <2>1, PowerStep
    <3> QED
      BY <3>1
  <2>3. Cong(m, Power(1 + b)[m], 1 + Power(b)[m])
    BY <2>1, FreshmansDream
  <2>4. Cong(m, 1 + Power(b)[m], 1 + b)
    <3>1. Cong(m, 1, 1)
      BY <1>0, CongRefl
    <3> QED
      BY <1>0, <2>1, <2>2, <3>1, CongPlus, Zenon
  <2>5. Cong(m, Power(1 + b)[m], 1 + b)
    <3>1. 1 + Power(b)[m] \in Int /\ 1 + b \in Int
      BY <2>1, <2>2
    <3> QED
      BY <1>0, <2>2, <2>3, <2>4, <3>1, CongTrans, Zenon
  <2> QED
    BY <2>1, <2>5
<1>3. S \subseteq Nat
  OBVIOUS
<1> HIDE DEF S
<1>4. S = Nat
  BY <1>1, <1>2, <1>3, SetInduction, Zenon
<1> QED
  BY <1>4 DEF S

\* A factor prime to a prime modulus cancels.
LEMMA PrimeCancel ==
  ASSUME NEW m, IsPrime(m), NEW a \in Int, NEW b \in Int, NEW c \in Int,
         ~Cong(m, a, 0), Cong(m, a * b, a * c)
  PROVE  Cong(m, b, c)
<1>1. PICK t \in Int : a * b = a * c + m * t
  BY DEF Cong
<1>2. m \in Int
  BY DEF IsPrime
<1>3. a * (b - c) = 0 + m * t /\ b - c \in Int
  BY <1>1, <1>2
<1>4. Cong(m, a * (b - c), 0)
  BY <1>3 DEF Cong
<1>5. Cong(m, b - c, 0)
  BY <1>3, <1>4, PrimeProduct
<1>6. PICK w \in Int : b - c = 0 + m * w
  BY <1>5 DEF Cong
<1>7. b = c + m * w
  BY <1>2, <1>6
<1> QED
  BY <1>7 DEF Cong

\* Fermat, for a number prime to the modulus.
LEMMA FermatUnit ==
  ASSUME NEW m, IsPrime(m), NEW a \in Nat, ~Cong(m, a, 0)
  PROVE  Cong(m, Power(a)[m - 1], 1)
<1>0. m \in Nat /\ m > 1 /\ m - 1 \in Nat /\ (m - 1) + 1 = m
  BY DEF IsPrime
<1> DEFINE x == Power(a)[m - 1]
<1>1. x \in Nat /\ Power(a)[m] = a * x
  <2>1. Power(a)[(m - 1) + 1] = a * x /\ x \in Nat
    BY <1>0, PowerStep
  <2> QED
    BY <1>0, <2>1
<1> HIDE DEF x
<1>2. Cong(m, a * x, a * 1)
  <2>1. Cong(m, a * x, a)
    BY <1>1, Fermat
  <2> QED
    BY <2>1
<1>3. Cong(m, x, 1)
  <2>1. a \in Int /\ x \in Int /\ 1 \in Int
    BY <1>1
  <2> QED
    BY <1>2, <2>1, PrimeCancel
<1> QED
  BY <1>3 DEF x

\* A prime that divides a power divides the number.
LEMMA PrimePower ==
  ASSUME NEW m, IsPrime(m), NEW a \in Nat, NEW k \in Nat,
         Cong(m, Power(a)[k], 0)
  PROVE  Cong(m, a, 0)
<1>0. m \in Nat \ {0} /\ m > 1
  BY DEF IsPrime
<1> SUFFICES ASSUME ~Cong(m, a, 0) PROVE FALSE
  OBVIOUS
<1> DEFINE S == {i \in Nat : ~Cong(m, Power(a)[i], 0)}
<1>1. 0 \in S
  <2>1. Power(a)[0] = 1
    BY PowerStep
  <2>2. 1 % m = 1 /\ 1 \in Int
    BY <1>0, ModSmall
  <2>3. ~Cong(m, 1, 0)
    BY <1>0, <2>2, Divides
  <2> QED
    BY <2>1, <2>3
<1>2. ASSUME NEW i \in S PROVE i + 1 \in S
  <2>1. i \in Nat /\ ~Cong(m, Power(a)[i], 0)
    OBVIOUS
  <2>2. Power(a)[i + 1] = a * Power(a)[i] /\ Power(a)[i] \in Nat
    BY <2>1, PowerStep
  <2>3. ~Cong(m, a * Power(a)[i], 0)
    <3>1. a \in Int /\ Power(a)[i] \in Int
      BY <2>2
    <3> QED
      BY <2>1, <3>1, PrimeProduct
  <2> QED
    BY <2>1, <2>2, <2>3
<1>3. S \subseteq Nat
  OBVIOUS
<1> HIDE DEF S
<1>4. S = Nat
  BY <1>1, <1>2, <1>3, SetInduction, Zenon
<1> QED
  BY <1>4 DEF S

\* A prime divides a product when it divides a factor.
LEMMA DividesProduct ==
  ASSUME NEW a, IsPrime(a), NEW x \in Int, NEW y \in Int
  PROVE  Cong(a, x * y, 0) <=> Cong(a, x, 0) \/ Cong(a, y, 0)
<1>0. a \in Int
  BY DEF IsPrime
<1>1. ASSUME NEW v \in Int, NEW w \in Int, Cong(a, v, 0) PROVE Cong(a, v * w, 0)
  <2>1. PICK t \in Int : v = 0 + a * t
    BY <1>1 DEF Cong
  <2>2. v * w = 0 + a * (t * w) /\ t * w \in Int
    BY <1>0, <2>1
  <2> QED
    BY <2>2 DEF Cong
<1>2. x * y = y * x
  OBVIOUS
<1>3. Cong(a, x, 0) => Cong(a, x * y, 0)
  BY <1>1
<1>4. Cong(a, y, 0) => Cong(a, x * y, 0)
  BY <1>1, <1>2
<1> QED
  BY <1>3, <1>4, PrimeProduct

\* A prime divides a power of positive exponent when it divides the number,
\* and never 1.
LEMMA DividesPower ==
  ASSUME NEW a, IsPrime(a), NEW x \in Nat, NEW k \in Nat
  PROVE  /\ Cong(a, Power(x)[k], 0) => Cong(a, x, 0)
         /\ k # 0 /\ Cong(a, x, 0) => Cong(a, Power(x)[k], 0)
<1>1. Cong(a, Power(x)[k], 0) => Cong(a, x, 0)
  BY PrimePower
<1>2. ASSUME k # 0, Cong(a, x, 0) PROVE Cong(a, Power(x)[k], 0)
  <2>1. k - 1 \in Nat /\ (k - 1) + 1 = k
    BY <1>2
  <2>2. Power(x)[(k - 1) + 1] = x * Power(x)[k - 1] /\ Power(x)[k - 1] \in Nat
    BY <2>1, PowerStep
  <2>3. Cong(a, x * Power(x)[k - 1], 0)
    <3>1. x \in Int /\ Power(x)[k - 1] \in Int
      BY <2>2
    <3> QED
      BY <1>2, <3>1, DividesProduct
  <2> QED
    BY <2>1, <2>2, <2>3
<1> QED
  BY <1>1, <1>2

\* Two different primes that divide a number divide it together.
LEMMA TwoPrimes ==
  ASSUME NEW p, IsPrime(p), NEW q, IsPrime(q), p # q,
         NEW a \in Int, NEW b \in Int, Cong(p, a, b), Cong(q, a, b)
  PROVE  Cong(p * q, a, b)
<1>0. /\ p \in Nat \ {0} /\ q \in Nat \ {0} /\ p > 1 /\ q > 1
      /\ p \in Int /\ q \in Int
  BY DEF IsPrime
<1>1. PICK t \in Int : a = b + p * t
  BY DEF Cong
<1>2. PICK w \in Int : a = b + q * w
  BY DEF Cong
<1>3. Cong(q, p * t, 0)
  <2>1. p * t = 0 + q * w
    BY <1>0, <1>1, <1>2
  <2> QED
    BY <2>1 DEF Cong
<1>4. ~Cong(q, p, 0)
  <2>1. CASE p < q
    <3>1. p % q = p
      BY <1>0, <2>1, ModSmall
    <3> QED
      BY <1>0, <3>1, Divides
  <2>2. CASE q < p
    <3>1. q \in 2 .. p - 1
      BY <1>0, <2>2
    <3>2. p % q # 0
      BY <3>1 DEF IsPrime
    <3> QED
      BY <1>0, <3>2, Divides
  <2> QED
    BY <1>0, <2>1, <2>2
<1>5. Cong(q, t, 0)
  BY <1>0, <1>3, <1>4, PrimeProduct
<1>6. PICK v \in Int : t = 0 + q * v
  BY <1>5 DEF Cong
<1>7. a = b + (p * q) * v
  BY <1>0, <1>1, <1>6
<1> QED
  BY <1>7 DEF Cong

\* Euler, for a product of two different primes.
LEMMA Euler ==
  ASSUME NEW p, IsPrime(p), NEW q, IsPrime(q), p # q,
         NEW a \in Nat, ~Cong(p, a, 0), ~Cong(q, a, 0)
  PROVE  Cong(p * q, Power(a)[(p - 1) * (q - 1)], 1)
<1>0. p \in Int /\ q \in Int /\ p - 1 \in Nat /\ q - 1 \in Nat /\ 1 \in Nat
  BY DEF IsPrime
<1>1. ASSUME NEW m, IsPrime(m), ~Cong(m, a, 0), NEW k \in Nat
      PROVE  Cong(m, Power(a)[(m - 1) * k], 1)
  <2>1. m \in Int /\ m - 1 \in Nat /\ 1 \in Nat
    BY <1>1 DEF IsPrime
  <2> DEFINE x == Power(a)[m - 1]
  <2>2. Cong(m, x, 1) /\ x \in Nat
    BY <1>1, <2>1, FermatUnit, PowerStep
  <2> HIDE DEF x
  <2>3. Cong(m, Power(x)[k], Power(1)[k])
    BY <2>1, <2>2, CongPower
  <2>4. Power(1)[k] = 1
    <3> DEFINE S == {i \in Nat : Power(1)[i] = 1}
    <3>1. 0 \in S
      BY PowerStep, 0 \in Nat, 1 \in Nat
    <3>2. ASSUME NEW i \in S PROVE i + 1 \in S
      <4>1. i \in Nat /\ Power(1)[i] = 1 /\ Power(1)[i + 1] = 1 * Power(1)[i]
        BY PowerStep, 1 \in Nat
      <4> QED
        BY <4>1
    <3>3. S \subseteq Nat
      OBVIOUS
    <3> HIDE DEF S
    <3>4. S = Nat
      BY <3>1, <3>2, <3>3, SetInduction, Zenon
    <3> QED
      BY <3>4 DEF S
  <2>5. Power(x)[k] = Power(a)[(m - 1) * k]
    BY <2>1, PowerTimes DEF x
  <2> QED
    BY <2>3, <2>4, <2>5
<1> DEFINE f == (p - 1) * (q - 1)
<1>2. f = (q - 1) * (p - 1) /\ f \in Nat
  BY <1>0
<1>3. Cong(p, Power(a)[f], 1) /\ Cong(q, Power(a)[f], 1)
  BY <1>0, <1>1, <1>2
<1>4. Power(a)[f] \in Int
  <2>1. Power(a)[f] \in Nat
    BY <1>2, PowerStep
  <2> QED
    BY <2>1
<1> HIDE DEF f
<1>5. Cong(p * q, Power(a)[f], 1)
  BY <1>3, <1>4, TwoPrimes, 1 \in Int
<1> QED
  BY <1>5 DEF f

\* A number prime to two different primes has an inverse modulo their product.
LEMMA InverseOfTwo ==
  ASSUME NEW p, IsPrime(p), NEW q, IsPrime(q), p # q,
         NEW a \in Nat, ~Cong(p, a, 0), ~Cong(q, a, 0)
  PROVE  \E z \in 1 .. p * q - 1 : (z * a) % (p * q) = 1
<1>0. /\ p \in Nat \ {0} /\ q \in Nat \ {0} /\ p > 1 /\ q > 1
      /\ p \in Int /\ q \in Int
  BY DEF IsPrime
<1> DEFINE N == p * q
<1>1. N \in Nat \ {0} /\ N > 1 /\ N \in Int
  <2>1. p * q >= p * 1
    BY <1>0
  <2> QED
    BY <1>0, <2>1
<1>2. ASSUME NEW m, IsPrime(m), ~Cong(m, a, 0)
      PROVE  \E x \in Int : Cong(m, x * a, 1)
  <2>1. m \in Nat \ {0} /\ m > 1 /\ m \in Int
    BY <1>2 DEF IsPrime
  <2> DEFINE v == a % m
  <2>2. v \in 0 .. m - 1 /\ v \in Int /\ Cong(m, v, a)
    BY <2>1, Reduced
  <2> HIDE DEF v
  <2>3. v # 0
    <3>1. a \in Int /\ 0 \in Int
      OBVIOUS
    <3> QED
      BY <1>2, <2>1, <2>2, <3>1, CongSym
  <2>4. PICK x \in 1 .. m - 1 : (x * v) % m = 1
    <3>1. v \in 1 .. m - 1
      BY <2>1, <2>2, <2>3
    <3> QED
      BY <1>2, <3>1, PrimeInverse
  <2>5. x \in Int /\ x * v \in Int /\ x * a \in Int /\ 1 \in Int /\ a \in Int
    BY <2>1, <2>2, <2>4
  <2>6. Cong(m, x * v, 1)
    <3>1. 1 % m = 1
      BY <2>1, ModSmall
    <3> QED
      BY <2>1, <2>4, <2>5, <3>1, CongMod
  <2>7. Cong(m, x * a, x * v)
    <3>1. Cong(m, x, x) /\ Cong(m, a, v)
      BY <2>1, <2>2, <2>5, CongRefl, CongSym
    <3> QED
      BY <2>1, <2>2, <2>5, <3>1, CongTimes, Zenon
  <2>8. Cong(m, x * a, 1)
    BY <2>1, <2>5, <2>6, <2>7, CongTrans, Zenon
  <2> QED
    BY <2>5, <2>8
<1>3. PICK x \in Int : Cong(p, x * a, 1)
  BY <1>2
<1>4. PICK y \in Int : Cong(q, y * a, 1)
  BY <1>2
<1>5. PICK s \in Int : x * a = 1 + p * s
  BY <1>3 DEF Cong
<1>6. PICK t \in Int : y * a = 1 + q * t
  BY <1>4 DEF Cong
<1> DEFINE w == x + y - (x * y) * a
           z == w % N
<1>7. w \in Int /\ w * a = 1 + N * (-(s * t))
  <2>1. w \in Int
    <3>1. x * y \in Int
      OBVIOUS
    <3> QED
      BY <3>1
  <2> DEFINE xa == x * a
             ya == y * a
  <2>2. xa \in Int /\ ya \in Int
    OBVIOUS
  <2>3. w * a = xa + ya - xa * ya
    <3> DEFINE xy == x * y
    <3>1. xy \in Int /\ (x * a) * (y * a) = (xy * a) * a
      <4>1. (x * a) * (y * a) = ((x * y) * a) * a
        OBVIOUS
      <4> QED
        BY <4>1
    <3> HIDE DEF xy
    <3>2. (x + y - xy * a) * a = x * a + y * a - (xy * a) * a
      BY <3>1
    <3> QED
      BY <3>1, <3>2 DEF xy
  <2>4. xa = 1 + p * s /\ ya = 1 + q * t
    BY <1>5, <1>6
  <2> HIDE DEF xa, ya, w
  <2>5. xa + ya - xa * ya = 1 - (p * s) * (q * t)
    <3> DEFINE u == p * s
               v == q * t
    <3>1. u \in Int /\ v \in Int
      BY <1>0
    <3> HIDE DEF u, v
    <3>2. (1 + u) + (1 + v) - (1 + u) * (1 + v) = 1 - u * v
      BY <3>1
    <3> QED
      BY <2>4, <3>2 DEF u, v
  <2>6. 1 - (p * s) * (q * t) = 1 + N * (-(s * t))
    <3>1. (p * s) * (q * t) = (p * q) * (s * t)
      BY <1>0
    <3> QED
      BY <1>0, <3>1
  <2> QED
    BY <2>1, <2>3, <2>5, <2>6
<1> HIDE DEF N, w
<1>8. z \in 0 .. N - 1 /\ z \in Int /\ Cong(N, z, w)
  BY <1>1, <1>7, Reduced
<1> HIDE DEF z
<1>9. Cong(N, z * a, 1)
  <2>1. Cong(N, a, a) /\ a \in Int /\ 1 \in Int
    BY <1>1, CongRefl
  <2>2. Cong(N, z * a, w * a)
    BY <1>1, <1>7, <1>8, <2>1, CongTimes, Zenon
  <2>3. Cong(N, w * a, 1)
    <3>1. -(s * t) \in Int
      OBVIOUS
    <3> QED
      BY <1>7, <3>1 DEF Cong
  <2>4. z * a \in Int /\ w * a \in Int
    BY <1>7, <1>8
  <2> QED
    BY <1>1, <2>1, <2>2, <2>3, <2>4, CongTrans, Zenon
<1>10. (z * a) % N = 1
  <2>1. z * a \in Int /\ 1 \in Int /\ 1 % N = 1
    BY <1>1, <1>8, ModSmall
  <2> QED
    BY <1>1, <1>9, <2>1, CongMod
<1>11. z # 0
  <2>1. z = 0 => z * a = 0 /\ 0 % N = 0
    BY <1>1, ModSmall
  <2> QED
    BY <1>10, <2>1
<1>12. z \in 1 .. N - 1
  BY <1>1, <1>8, <1>11
<1> QED
  BY <1>10, <1>12 DEF N
=============================================================================
