----------------------- MODULE TimedCommitment_proofs -----------------------
(***************************************************************************)
(* Proofs about the timed commitment, for every pair of safe primes        *)
(* congruent to 3 modulo 4, every bound on the primes in get_g, every time *)
(* parameter, message and draw. The first half is about powers modulo n,   *)
(* the second is the inductive invariant, one lemma for each action, and   *)
(* the theorems.                                                           *)
(***************************************************************************)
EXTENDS TimedCommitment, Arithmetic, SequenceTheorems

-----------------------------------------------------------------------------
(* Powers modulo n.                                                        *)

\* The primes and the numbers made of them.
LEMMA Numbers ==
  /\ IsPrime(p) /\ IsPrime(q) /\ p # q
  /\ p \in Nat \ {0} /\ q \in Nat \ {0} /\ p \in Int /\ q \in Int /\ p > 2 /\ q > 2
  /\ n \in Nat \ {0} /\ n \in Int /\ n > p /\ n > q /\ n > 4
  /\ phi \in Nat \ {0} /\ phi \in Int
  /\ p - 1 \in Nat /\ q - 1 \in Nat
  /\ \E i \in Nat : p = 2 * (2 * i + 1) + 1
  /\ \E i \in Nat : q = 2 * (2 * i + 1) + 1
  /\ q1 \in Nat /\ q1 > 1 /\ q2 \in Nat /\ q2 > 1
  /\ IsPrime(q1) /\ q1 # 2 /\ phi = q1 * (2 * (q - 1))
<1>1. /\ IsPrime(p) /\ IsPrime(q) /\ p # q /\ p % 4 = 3 /\ q % 4 = 3
      /\ IsPrime((p - 1) \div 2) /\ IsPrime((q - 1) \div 2)
  BY TimedCommitmentAssumption
<1>2. p \in Nat /\ q \in Nat /\ p > 1 /\ q > 1
  BY <1>1 DEF IsPrime
<1>3. ASSUME NEW a \in Nat, a > 1, a % 4 = 3, IsPrime((a - 1) \div 2)
      PROVE  /\ a > 6 /\ a = 2 * ((a - 1) \div 2) + 1
             /\ (a - 1) \div 2 # 2
             /\ \E i \in Nat : a = 2 * (2 * i + 1) + 1
  <2> DEFINE i == a \div 4
  <2>1. i \in Nat /\ a = 4 * i + 3
    BY <1>3
  <2> HIDE DEF i
  <2>2. (a - 1) \div 2 = 2 * i + 1
    BY <2>1
  <2>3. i # 0
    BY <1>3, <2>1, <2>2 DEF IsPrime
  <2> QED
    BY <2>1, <2>2, <2>3
<1>4. /\ p > 6 /\ p = 2 * q1 + 1 /\ q1 # 2
      /\ \E i \in Nat : p = 2 * (2 * i + 1) + 1
  BY <1>1, <1>2, <1>3 DEF q1
<1>5. /\ q > 6 /\ \E i \in Nat : q = 2 * (2 * i + 1) + 1
  BY <1>1, <1>2, <1>3
<1>6. IsPrime(q1) /\ q1 \in Nat /\ q1 > 1
  BY <1>1 DEF q1, IsPrime
<1>7. q2 \in Nat /\ q2 > 1
  BY <1>2, <1>5 DEF q2
<1>8. n \in Nat \ {0} /\ n > p /\ n > q /\ n > 4
  <2>1. p * q >= p * 2 /\ p * q >= 2 * q /\ p * q \in Nat
    BY <1>2, <1>4, <1>5
  <2> QED
    BY <1>2, <1>4, <2>1 DEF n
<1>9. phi \in Nat \ {0} /\ phi = q1 * (2 * (q - 1))
  <2>1. p - 1 = 2 * q1 /\ q - 1 \in Nat /\ q - 1 > 5
    BY <1>2, <1>4, <1>5, <1>6
  <2> DEFINE a == q1
             b == q - 1
  <2>2. a \in Nat /\ a > 1 /\ b \in Nat /\ b > 5 /\ phi = (2 * a) * b
    BY <1>6, <2>1 DEF phi
  <2> HIDE DEF a, b
  <2>3. (2 * a) * b = a * (2 * b) /\ a * b >= 1 * b /\ a * b \in Nat
    BY <2>2
  <2>4. (2 * a) * b = 2 * (a * b)
    BY <2>2
  <2>5. phi \in Nat \ {0} /\ phi = a * (2 * b)
    BY <2>2, <2>3, <2>4
  <2> QED
    BY <2>5 DEF a, b
<1> QED
  BY <1>1, <1>2, <1>4, <1>5, <1>6, <1>7, <1>8, <1>9

\* Powers of 1.
LEMMA PowerOfOne ==
  ASSUME NEW k \in Nat
  PROVE  Power(1)[k] = 1
<1> DEFINE S == {i \in Nat : Power(1)[i] = 1}
<1>1. 0 \in S /\ S \subseteq Nat /\ \A i \in S : i + 1 \in S
  BY PowerStep, 1 \in Nat
<1> HIDE DEF S
<1>2. S = Nat
  BY <1>1, SetInduction, Zenon
<1> QED
  BY <1>2 DEF S

\* If a to the o is 1, exponents congruent modulo o give the same power.
LEMMA PowersAgree ==
  ASSUME NEW k \in Int, NEW a \in Nat, NEW o \in Nat, Cong(k, Power(a)[o], 1),
         NEW e \in Nat, NEW f \in Nat, Cong(o, e, f)
  PROVE  Cong(k, Power(a)[e], Power(a)[f])
<1>1. ASSUME NEW d \in Nat, NEW t \in Nat
      PROVE  Cong(k, Power(a)[d + o * t], Power(a)[d])
  <2>1. o * t \in Nat
    OBVIOUS
  <2>2. /\ Power(a)[d + o * t] = Power(a)[d] * Power(a)[o * t]
        /\ Power(Power(a)[o])[t] = Power(a)[o * t]
    <3>1. Power(a)[d + o * t] = Power(a)[d] * Power(a)[o * t]
      BY <2>1, PowerPlus
    <3>2. Power(Power(a)[o])[t] = Power(a)[o * t]
      BY PowerTimes
    <3> QED
      BY <3>1, <3>2
  <2>3. /\ Power(a)[d] \in Nat /\ Power(a)[o] \in Nat
        /\ Power(Power(a)[o])[t] \in Nat
    BY PowerStep
  <2>4. Cong(k, Power(Power(a)[o])[t], 1)
    BY <2>3, PowerOfOne, CongPower, 1 \in Nat
  <2> DEFINE x == Power(a)[d]
             y == Power(Power(a)[o])[t]
  <2>5. x \in Int /\ y \in Int /\ 1 \in Int /\ Cong(k, x, x) /\ Cong(k, y, 1)
    BY <2>3, <2>4, CongRefl
  <2> HIDE DEF x, y
  <2>6. Cong(k, x * y, x * 1)
    BY <2>5, CongTimes, Zenon
  <2>7. x * 1 = x
    BY <2>5
  <2> QED
    BY <2>2, <2>6, <2>7 DEF x, y
<1>2. PICK t \in Int : e = f + o * t
  BY DEF Cong
<1>3. CASE t >= 0
  <2>1. t \in Nat
    BY <1>3
  <2>2. Cong(k, Power(a)[f + o * t], Power(a)[f])
    BY <1>1, <2>1
  <2> QED
    BY <1>2, <2>2
<1>4. CASE t < 0
  <2>1. -t \in Nat /\ f = e + o * (-t)
    BY <1>2, <1>4
  <2>2. Cong(k, Power(a)[f], Power(a)[e])
    BY <1>1, <2>1
  <2>3. Power(a)[e] \in Int /\ Power(a)[f] \in Int
    <3>1. Power(a)[e] \in Nat /\ Power(a)[f] \in Nat
      BY PowerStep
    <3> QED
      BY <3>1
  <2> QED
    BY <2>2, <2>3, CongSym, Zenon
<1> QED
  BY <1>2, <1>3, <1>4

\* Congruent modulo both primes is equal modulo n.
LEMMA ModN ==
  ASSUME NEW a \in Nat, NEW b \in Nat
  PROVE  /\ a % n = b % n <=> Cong(p, a, b) /\ Cong(q, a, b)
         /\ a % n = b % n <=> Cong(n, a, b)
<1>1. a \in Int /\ b \in Int
  OBVIOUS
<1>2. a % n = b % n <=> Cong(n, a, b)
  BY <1>1, Numbers, CongMod
<1>3. Cong(p, a, b) /\ Cong(q, a, b) => Cong(n, a, b)
  BY <1>1, Numbers, TwoPrimes DEF n
<1>4. Cong(n, a, b) => Cong(p, a, b)
  BY <1>1, Numbers, CongFactor DEF n
<1>5. Cong(n, a, b) => Cong(q, a, b)
  <2>1. n = q * p
    BY Numbers DEF n
  <2> QED
    BY <1>1, <2>1, Numbers, CongFactor
<1> QED
  BY <1>2, <1>3, <1>4, <1>5

\* Positive exponents congruent modulo phi give the same power modulo n, even
\* of a number that shares a factor with n.
LEMMA ExponentPhi ==
  ASSUME NEW a \in Nat, NEW e \in Nat \ {0}, NEW f \in Nat \ {0}, Cong(phi, e, f)
  PROVE  Power(a)[e] % n = Power(a)[f] % n
<1>1. ASSUME NEW r, IsPrime(r), NEW s \in Int, phi = (r - 1) * s
      PROVE  Cong(r, Power(a)[e], Power(a)[f])
  <2>0. r \in Nat /\ r \in Int /\ r - 1 \in Nat /\ r - 1 \in Int
    BY <1>1 DEF IsPrime
  <2>1. /\ Power(a)[e] \in Nat /\ Power(a)[f] \in Nat
        /\ Power(a)[e] \in Int /\ Power(a)[f] \in Int /\ 0 \in Int
    <3>1. Power(a)[e] \in Nat /\ Power(a)[f] \in Nat
      BY PowerStep
    <3> QED
      BY <3>1
  <2>2. CASE Cong(r, a, 0)
    <3>1. Cong(r, Power(a)[e], 0) /\ Cong(r, Power(a)[f], 0)
      BY <1>1, <2>2, DividesPower
    <3>2. Cong(r, 0, Power(a)[f])
      BY <2>0, <2>1, <3>1, CongSym, Zenon
    <3> QED
      BY <2>0, <2>1, <3>1, <3>2, CongTrans, Zenon
  <2>3. CASE ~Cong(r, a, 0)
    <3>1. Cong(r, Power(a)[r - 1], 1)
      BY <1>1, <2>3, FermatUnit
    <3>2. Cong(r - 1, e, f)
      <4>1. e \in Int /\ f \in Int
        OBVIOUS
      <4> QED
        BY <1>1, <2>0, <4>1, CongFactor
    <3> QED
      BY <2>0, <3>1, <3>2, PowersAgree
  <2> QED
    BY <2>2, <2>3
<1>2. Cong(p, Power(a)[e], Power(a)[f])
  BY <1>1, Numbers DEF phi
<1>3. Cong(q, Power(a)[e], Power(a)[f])
  <2>1. phi = (q - 1) * (p - 1)
    BY Numbers DEF phi
  <2> QED
    BY <1>1, <2>1, Numbers
<1>4. Power(a)[e] \in Nat /\ Power(a)[f] \in Nat
  BY PowerStep
<1> QED
  BY <1>2, <1>3, <1>4, ModN

-----------------------------------------------------------------------------
(* Repeated squaring.                                                      *)

\* A square to a power.
LEMMA SquarePower ==
  ASSUME NEW x \in Nat, NEW e \in Nat
  PROVE  Power(x * x)[e] = Power(x)[e] * Power(x)[e]
BY PowerProduct

\* a after e squarings modulo n.
Sq(a, e) == Power(a)[Power(2)[e]] % n

\* Powers of 2.
LEMMA TwoPower ==
  ASSUME NEW k \in Nat
  PROVE  /\ Power(2)[k] \in Nat \ {0} /\ Power(2)[0] = 1 /\ Power(2)[1] = 2
         /\ Power(2)[k + 1] = 2 * Power(2)[k]
<1> DEFINE S == {i \in Nat : Power(2)[i] \in Nat \ {0}}
<1>1. 0 \in S /\ S \subseteq Nat /\ \A i \in S : i + 1 \in S
  BY PowerStep, 2 \in Nat
<1> HIDE DEF S
<1>2. S = Nat
  BY <1>1, SetInduction, Zenon
<1>3. Power(2)[k] \in Nat \ {0}
  BY <1>2 DEF S
<1> QED
  BY <1>3, PowerStep, 2 \in Nat

\* A number of squarings is a power.
LEMMA SquaringsArePower ==
  ASSUME NEW a \in Nat, NEW e \in Nat
  PROVE  /\ Power(a)[Power(2)[e]] \in Nat
         /\ Sq(a, e) \in 0 .. n - 1 /\ Sq(a, e) \in Nat
         /\ Squared(a, e) = Sq(a, e)
         /\ Sq(a, e) % n = Sq(a, e)
<1>1. Power(2)[e] \in Nat
  BY TwoPower
<1> DEFINE x == Power(a)[Power(2)[e]]
<1>2. x \in Nat /\ x \in Int
  <2>1. x \in Nat
    BY <1>1, PowerStep
  <2> QED
    BY <2>1
<1>3. PowMod(a, Power(2)[e], n) = x % n
  BY <1>1, Numbers, PowModIsPower
<1> HIDE DEF x
<1> DEFINE y == x % n
<1> HIDE DEF y
<1>4. y \in 0 .. n - 1 /\ y \in Nat
  <2>1. n \in Nat \ {0}
    BY Numbers
  <2>2. y \in 0 .. n - 1
    BY <1>2, <2>1, Reduced DEF y
  <2> QED
    BY <2>1, <2>2
<1>5. y % n = y
  BY <1>4, Numbers, ModSmall
<1> QED
  BY <1>2, <1>3, <1>4, <1>5 DEF Sq, Squared, x, y

\* A power of a number reduced modulo n.
LEMMA PowerReduced ==
  ASSUME NEW a \in Nat, NEW e \in Nat
  PROVE  a % n \in Nat /\ Power(a % n)[e] % n = Power(a)[e] % n
<1>1. a % n \in Nat /\ Cong(n, a % n, a)
  <2>1. a \in Int
    OBVIOUS
  <2>2. a % n \in 0 .. n - 1 /\ Cong(n, a % n, a)
    BY <2>1, Numbers, Reduced
  <2> QED
    BY <2>2, Numbers
<1> DEFINE b == a % n
<1> HIDE DEF b
<1>2. b \in Nat /\ Cong(n, b, a)
  BY <1>1 DEF b
<1>3. Cong(n, Power(b)[e], Power(a)[e])
  BY <1>2, Numbers, CongPower
<1>4. Power(b)[e] \in Nat /\ Power(a)[e] \in Nat
  BY <1>2, PowerStep
<1>5. Power(b)[e] % n = Power(a)[e] % n
  BY <1>3, <1>4, ModN
<1> QED
  BY <1>1, <1>5 DEF b

\* Squarings add up.
LEMMA SqSq ==
  ASSUME NEW a \in Nat, NEW e \in Nat, NEW f \in Nat
  PROVE  Sq(Sq(a, e), f) = Sq(a, e + f)
<1> DEFINE s == Power(2)[e]
           t == Power(2)[f]
           x == Power(a)[s]
<1>1. s \in Nat /\ t \in Nat /\ Power(2)[e + f] = s * t
  <2>1. s \in Nat /\ t \in Nat
    BY TwoPower
  <2>2. Power(2)[e + f] = s * t
    BY PowerPlus, 2 \in Nat
  <2> QED
    BY <2>1, <2>2
<1> HIDE DEF s, t
<1>2. x \in Nat /\ Power(x)[t] = Power(a)[s * t]
  <2>1. x \in Nat
    BY <1>1, PowerStep
  <2>2. Power(Power(a)[s])[t] = Power(a)[s * t]
    BY <1>1, PowerTimes
  <2> QED
    BY <2>1, <2>2
<1> HIDE DEF x
<1>3. Power(x % n)[t] % n = Power(x)[t] % n
  BY <1>1, <1>2, PowerReduced
<1>4. Sq(a, e) = x % n
  BY DEF Sq, s, x
<1>5. Sq(Sq(a, e), f) = Power(x % n)[t] % n
  BY <1>4 DEF Sq, t
<1>6. Sq(a, e + f) = Power(a)[s * t] % n
  BY <1>1 DEF Sq
<1> QED
  BY <1>2, <1>3, <1>5, <1>6

\* No squaring, and one.
LEMMA SqOne ==
  ASSUME NEW a \in Nat
  PROVE  /\ a < n => Sq(a, 0) = a
         /\ Sq(a, 1) = (a * a) % n
<1>1. Power(2)[0] = 1 /\ Power(2)[1] = 2
  BY TwoPower, 0 \in Nat
<1>2. Power(a)[1] = a /\ Power(a)[2] = a * a
  <2>1. Power(a)[1] = a /\ Power(a)[1 + 1] = a * Power(a)[1]
    BY PowerStep, 1 \in Nat
  <2> QED
    BY <2>1
<1>3. a < n => a % n = a
  <2>1. a < n => a \in 0 .. n - 1
    BY Numbers
  <2> QED
    BY <2>1, Numbers, ModSmall
<1> QED
  BY <1>1, <1>2, <1>3 DEF Sq

\* A power of 2 is no multiple of phi, which has an odd prime factor.
LEMMA PowerOfTwoNotZero ==
  ASSUME NEW e \in Nat
  PROVE  /\ Power(2)[e] % phi \in Nat \ {0}
         /\ Cong(phi, Power(2)[e] % phi, Power(2)[e])
<1> DEFINE x == Power(2)[e]
<1>1. x \in Nat /\ x \in Int
  <2>1. x \in Nat \ {0}
    BY TwoPower
  <2> QED
    BY <2>1
<1>2. ~Cong(q1, x, 0)
  <2>1. ~Cong(q1, 2, 0)
    <3>1. q1 \in Nat \ {0} /\ q1 > 2
      BY Numbers
    <3>2. 2 % q1 = 2 /\ 2 \in Int
      BY <3>1, ModSmall
    <3> QED
      BY <3>1, <3>2, Divides
  <2> QED
    BY <2>1, Numbers, PrimePower, 2 \in Nat
<1> HIDE DEF x
<1>3. x % phi \in 0 .. phi - 1 /\ x % phi \in Int /\ Cong(phi, x % phi, x)
  BY <1>1, Numbers, Reduced
<1>4. x % phi # 0
  <2> SUFFICES ASSUME x % phi = 0 PROVE FALSE
    OBVIOUS
  <2>1. Cong(phi, x, 0)
    BY <1>1, Numbers, Divides
  <2>2. q1 \in Int /\ 2 * (q - 1) \in Int /\ 0 \in Int
    BY Numbers
  <2>3. Cong(q1, x, 0)
    BY <1>1, <2>1, <2>2, Numbers, CongFactor
  <2> QED
    BY <1>2, <2>3
<1> QED
  BY <1>3, <1>4, Numbers DEF x

\* The exponents that commit and open reduce modulo phi are numbers of squarings.
LEMMA ShortCut ==
  ASSUME NEW K \in Nat, NEW d \in Nat, d <= Power(2)[K], NEW a \in Nat
  PROVE  /\ Power(2)[K] - d \in Nat
         /\ PowMod(a, PowerOfTwo(K, d), n) = Sq(a, Power(2)[K] - d)
<1> DEFINE e == Power(2)[K] - d
           x == Power(2)[e]
           y == x % phi
<1>1. e \in Nat
  BY TwoPower
<1> HIDE DEF e
<1>2. PowerOfTwo(K, d) = y
  BY <1>1, Numbers, PowModIsPower, 2 \in Nat DEF PowerOfTwo, e
<1>3. x \in Nat \ {0} /\ y \in Nat \ {0} /\ Cong(phi, y, x)
  BY <1>1, TwoPower, PowerOfTwoNotZero
<1> HIDE DEF x, y
<1>4. Power(a)[y] % n = Power(a)[x] % n
  BY <1>3, ExponentPhi
<1>5. PowMod(a, y, n) = Power(a)[y] % n
  BY <1>3, Numbers, PowModIsPower
<1> QED
  BY <1>1, <1>2, <1>4, <1>5 DEF Sq, x, e

\* The loops of the forced openings are squarings.
LEMMA SquareFromIs ==
  ASSUME NEW v \in 0 .. n - 1, NEW k \in Nat
  PROVE  SquareFrom(v, k) = Sq(v, k)
<1> DEFINE Fix(f, j) == f = [t \in 0 .. j |-> IF t = 0 THEN v
                                             ELSE (f[t - 1] * f[t - 1]) % n]
           F == CHOOSE f : Fix(f, k)
<1>0. v \in Nat /\ v < n
  BY Numbers
<1>1. \E f : Fix(f, k)
  <2> DEFINE S == {j \in Nat : \E f : Fix(f, j)}
  <2>1. 0 \in S
    <3> DEFINE f == [t \in 0 .. 0 |-> v]
    <3>1. Fix(f, 0)
      OBVIOUS
    <3> QED
      BY <3>1
  <2>2. ASSUME NEW j \in S PROVE j + 1 \in S
    <3>1. j \in Nat /\ \E f : Fix(f, j)
      OBVIOUS
    <3>2. PICK f : Fix(f, j)
      BY <3>1
    <3> DEFINE h == [t \in 0 .. j + 1 |-> IF t = j + 1 THEN (f[j] * f[j]) % n
                                          ELSE f[t]]
    <3>3. ASSUME NEW t \in 0 .. j + 1
          PROVE  h[t] = IF t = 0 THEN v ELSE (h[t - 1] * h[t - 1]) % n
      <4>1. CASE t = j + 1
        <5>1. t - 1 \in 0 .. j + 1 /\ t - 1 # j + 1 /\ t - 1 = j /\ t # 0
          BY <3>1, <4>1
        <5> QED
          BY <4>1, <5>1
      <4>2. CASE t # j + 1
        <5>1. t \in 0 .. j /\ (t # 0 => t - 1 \in 0 .. j + 1 /\ t - 1 # j + 1)
          BY <3>1, <4>2
        <5>2. f[t] = IF t = 0 THEN v ELSE (f[t - 1] * f[t - 1]) % n
          BY <3>2, <5>1
        <5> QED
          BY <4>2, <5>1, <5>2
      <4> QED
        BY <4>1, <4>2
    <3>4. Fix(h, j + 1)
      <4>1. h = [t \in 0 .. j + 1 |-> h[t]]
        OBVIOUS
      <4> HIDE DEF h
      <4> QED
        BY <3>3, <4>1
    <3> HIDE DEF Fix, h
    <3> QED
      BY <3>1, <3>4
  <2>3. S \subseteq Nat
    OBVIOUS
  <2> HIDE DEF S
  <2>4. S = Nat
    BY <2>1, <2>2, <2>3, SetInduction, Zenon
  <2> HIDE DEF Fix
  <2> QED
    BY <2>4 DEF S
<1>2. Fix(F, k)
  <2> HIDE DEF Fix
  <2> QED
    BY <1>1
<1>3. SquareFrom(v, k) = F[k]
  BY DEF SquareFrom
<1> HIDE DEF F
<1>4. \A t \in 0 .. k : F[t] = IF t = 0 THEN v ELSE (F[t - 1] * F[t - 1]) % n
  BY <1>2
<1> DEFINE U == {t \in Nat : t <= k => F[t] = Sq(v, t)}
<1>5. 0 \in U
  <2>1. F[0] = v
    BY <1>4
  <2> QED
    BY <1>0, <2>1, SqOne
<1>6. ASSUME NEW t \in U PROVE t + 1 \in U
  <2> SUFFICES ASSUME t + 1 <= k PROVE F[t + 1] = Sq(v, t + 1)
    OBVIOUS
  <2>1. t \in Nat /\ t <= k /\ F[t] = Sq(v, t) /\ t + 1 \in 0 .. k
        /\ (t + 1) - 1 = t /\ t + 1 # 0
    OBVIOUS
  <2>2. F[t + 1] = (F[t] * F[t]) % n
    BY <1>4, <2>1
  <2>3. Sq(v, t) \in Nat
    BY <1>0, <2>1, SquaringsArePower
  <2>4. Sq(Sq(v, t), 1) = (Sq(v, t) * Sq(v, t)) % n
    BY <2>3, SqOne
  <2>5. Sq(Sq(v, t), 1) = Sq(v, t + 1)
    BY <1>0, <2>1, SqSq, 1 \in Nat
  <2> QED
    BY <2>1, <2>2, <2>4, <2>5
<1>7. U \subseteq Nat
  OBVIOUS
<1> HIDE DEF U
<1>8. U = Nat
  BY <1>5, <1>6, <1>7, SetInduction, Zenon
<1> QED
  BY <1>3, <1>8 DEF U

-----------------------------------------------------------------------------
(* The base g, its square roots and its order.                             *)

\* The exponent of get_g is even, because 2 is below B.
LEMMA MultIsEven == mult \in Nat /\ \E i \in Nat : mult = 2 * i
<1>0. B \in Nat /\ B > 2 /\ BITS \in Nat \ {0}
  BY TimedCommitmentAssumption
<1> DEFINE factor(r) == IF IsPrime(r) THEN Power(r)[BITS] ELSE 1
           Fix(f, j) == f = [r \in 1 .. j |-> IF r = 1 THEN 1
                                              ELSE f[r - 1] * factor(r)]
           F == CHOOSE f : Fix(f, B - 1)
<1>1. \A r \in Nat : factor(r) \in Nat
  BY <1>0, PowerStep, 1 \in Nat
<1>2. factor(2) \in Nat /\ \E i \in Nat : factor(2) = 2 * i
  <2>1. IsPrime(2)
    BY DEF IsPrime
  <2>2. BITS - 1 \in Nat /\ (BITS - 1) + 1 = BITS
    BY <1>0
  <2>3. Power(2)[(BITS - 1) + 1] = 2 * Power(2)[BITS - 1] /\ Power(2)[BITS - 1] \in Nat
    BY <2>2, PowerStep, 2 \in Nat
  <2>4. factor(2) = 2 * Power(2)[BITS - 1]
    BY <2>1, <2>2, <2>3
  <2> QED
    BY <2>3, <2>4
<1> HIDE DEF factor
<1>3. \E f : Fix(f, B - 1)
  <2> DEFINE S == {j \in Nat : \E f : Fix(f, j)}
  <2>1. 0 \in S
    <3> DEFINE f == [r \in 1 .. 0 |-> 1]
    <3>1. Fix(f, 0)
      OBVIOUS
    <3> QED
      BY <3>1
  <2>2. ASSUME NEW j \in S PROVE j + 1 \in S
    <3>1. j \in Nat /\ \E f : Fix(f, j)
      OBVIOUS
    <3>2. PICK f : Fix(f, j)
      BY <3>1
    <3> DEFINE h == [r \in 1 .. j + 1 |->
                       IF r = j + 1 THEN IF r = 1 THEN 1 ELSE f[r - 1] * factor(r)
                       ELSE f[r]]
    <3>3. ASSUME NEW r \in 1 .. j + 1
          PROVE  h[r] = IF r = 1 THEN 1 ELSE h[r - 1] * factor(r)
      <4>1. CASE r = j + 1
        <5>1. r # 1 => r - 1 \in 1 .. j + 1 /\ r - 1 # j + 1
          BY <3>1, <4>1
        <5> QED
          BY <4>1, <5>1
      <4>2. CASE r # j + 1
        <5>1. r \in 1 .. j /\ (r # 1 => r - 1 \in 1 .. j + 1 /\ r - 1 # j + 1)
          BY <3>1, <4>2
        <5>2. f[r] = IF r = 1 THEN 1 ELSE f[r - 1] * factor(r)
          BY <3>2, <5>1
        <5> QED
          BY <4>2, <5>1, <5>2
      <4> QED
        BY <4>1, <4>2
    <3>4. Fix(h, j + 1)
      <4>1. h = [r \in 1 .. j + 1 |-> h[r]]
        OBVIOUS
      <4> HIDE DEF h
      <4> QED
        BY <3>3, <4>1
    <3> HIDE DEF Fix, h
    <3> QED
      BY <3>1, <3>4
  <2>3. S \subseteq Nat
    OBVIOUS
  <2> HIDE DEF S
  <2>4. S = Nat
    BY <2>1, <2>2, <2>3, SetInduction, Zenon
  <2>5. B - 1 \in Nat
    BY <1>0
  <2> HIDE DEF Fix
  <2> QED
    BY <2>4, <2>5 DEF S
<1>4. Fix(F, B - 1)
  <2> HIDE DEF Fix
  <2> QED
    BY <1>3
<1>5. mult = F[B - 1]
  BY DEF mult, factor
<1> HIDE DEF F
<1>6. \A r \in 1 .. B - 1 : F[r] = IF r = 1 THEN 1 ELSE F[r - 1] * factor(r)
  BY <1>4
<1> DEFINE U == {j \in Nat : j + 2 <= B - 1 =>
                   F[j + 2] \in Nat /\ \E i \in Nat : F[j + 2] = 2 * i}
<1>7. 0 \in U
  <2>1. F[1] = 1 /\ F[2] = F[1] * factor(2)
    <3>1. 1 \in 1 .. B - 1 /\ 2 \in 1 .. B - 1 /\ 2 - 1 = 1 /\ 2 # 1
      BY <1>0
    <3> QED
      BY <1>6, <3>1
  <2>2. F[2] = factor(2)
    BY <1>2, <2>1
  <2> QED
    BY <1>2, <2>2
<1>8. ASSUME NEW j \in U PROVE j + 1 \in U
  <2> SUFFICES ASSUME (j + 1) + 2 <= B - 1
               PROVE  /\ F[(j + 1) + 2] \in Nat
                      /\ \E i \in Nat : F[(j + 1) + 2] = 2 * i
    OBVIOUS
  <2> DEFINE r == (j + 1) + 2
  <2>1. j \in Nat /\ r \in 1 .. B - 1 /\ r # 1 /\ r - 1 = j + 2 /\ j + 2 <= B - 1 /\ r \in Nat
    BY <1>0
  <2>2. F[r] = F[j + 2] * factor(r)
    BY <1>6, <2>1
  <2>3. PICK i \in Nat : F[j + 2] = 2 * i
    BY <2>1
  <2>4. factor(r) \in Nat
    BY <1>1, <2>1
  <2> DEFINE a == factor(r)
  <2> HIDE DEF a
  <2>5. a \in Nat /\ F[r] = (2 * i) * a
    BY <2>2, <2>3, <2>4 DEF a
  <2>6. (2 * i) * a = 2 * (i * a) /\ i * a \in Nat
    BY <2>5
  <2>7. F[r] = 2 * (i * a) /\ 2 * (i * a) \in Nat
    BY <2>5, <2>6
  <2> HIDE DEF r, F
  <2>8. F[r] \in Nat /\ \E k \in Nat : F[r] = 2 * k
    BY <2>6, <2>7
  <2> QED
    BY <2>8 DEF r
<1>9. U \subseteq Nat
  OBVIOUS
<1> HIDE DEF U
<1>10. U = Nat
  BY <1>7, <1>8, <1>9, SetInduction, Zenon
<1>11. B - 3 \in Nat /\ (B - 3) + 2 = B - 1
  BY <1>0
<1> QED
  BY <1>5, <1>10, <1>11 DEF U

\* get_g of a number.
LEMMA BaseIs ==
  ASSUME NEW h \in Nat
  PROVE  /\ get_g(n, h) = Power(h)[mult] % n
         /\ get_g(n, h) \in 0 .. n - 1 /\ get_g(n, h) \in Nat
         /\ Power(h)[mult] \in Nat
<1>1. Power(h)[mult] \in Nat /\ n \in Nat \ {0}
  BY MultIsEven, Numbers, PowerStep
<1>2. get_g(n, h) = Power(h)[mult] % n
  BY <1>1, MultIsEven, PowModIsPower DEF get_g
<1> DEFINE x == Power(h)[mult]
<1> HIDE DEF x
<1>3. x \in Int
  BY <1>1 DEF x
<1>4. x % n \in 0 .. n - 1
  BY <1>1, <1>3, Reduced
<1> QED
  BY <1>1, <1>2, <1>4 DEF x

\* The commiter opens with a root of h, from which get_g makes the same root
\* of g.
LEMMA BaseOfRoot ==
  ASSUME NEW h \in Nat, NEW e \in Nat
  PROVE  get_g(n, Sq(h, e)) = Sq(get_g(n, h), e)
<1> DEFINE s == Power(2)[e]
           k == mult
<1>1. s \in Nat /\ k \in Nat
  BY TwoPower, MultIsEven
<1>2. get_g(n, Sq(h, e)) = Power(Power(h)[s] % n)[k] % n
  BY SquaringsArePower, BaseIs DEF Sq
<1>3. Sq(get_g(n, h), e) = Power(Power(h)[k] % n)[s] % n
  BY BaseIs DEF Sq
<1> HIDE DEF s, k
<1>4. Power(h)[s] \in Nat /\ Power(h)[k] \in Nat
  BY <1>1, PowerStep
<1>5. Power(Power(h)[s] % n)[k] % n = Power(Power(h)[s])[k] % n
  BY <1>1, <1>4, PowerReduced
<1>6. Power(Power(h)[k] % n)[s] % n = Power(Power(h)[k])[s] % n
  BY <1>1, <1>4, PowerReduced
<1>7. Power(Power(h)[s])[k] = Power(h)[s * k] /\ Power(Power(h)[k])[s] = Power(h)[k * s]
  BY <1>1, PowerTimes
<1>8. s * k = k * s
  BY <1>1
<1> QED
  BY <1>2, <1>3, <1>5, <1>6, <1>7, <1>8

\* a is a square modulo n.
Square(a) == \E x \in Nat : Cong(n, a, x * x)

\* g is one.
LEMMA BaseIsSquare ==
  ASSUME NEW h \in Nat
  PROVE  Square(get_g(n, h))
<1>1. PICK i \in Nat : mult = 2 * i
  BY MultIsEven
<1> DEFINE x == Power(h)[i]
<1>2. x \in Nat /\ Power(h)[i + i] = x * x
  <2>1. x \in Nat
    BY PowerStep
  <2>2. Power(h)[i + i] = x * x
    BY PowerPlus
  <2> QED
    BY <2>1, <2>2
<1>3. i + i = mult
  BY <1>1
<1> HIDE DEF x
<1>4. get_g(n, h) = (x * x) % n /\ x * x \in Int
  BY <1>2, <1>3, BaseIs
<1>5. Cong(n, (x * x) % n, x * x)
  BY <1>4, Numbers, Reduced
<1> QED
  BY <1>2, <1>4, <1>5 DEF Square

\* What is squared is one.
LEMMA SqIsSquare ==
  ASSUME NEW a \in Nat, Square(a), NEW e \in Nat
  PROVE  Square(Sq(a, e))
<1>1. PICK x \in Nat : Cong(n, a, x * x)
  BY DEF Square
<1> DEFINE s == Power(2)[e]
           y == Power(x)[s]
           w == Power(a)[s]
<1>2. s \in Nat
  BY TwoPower
<1> HIDE DEF s
<1>3. x * x \in Nat /\ y \in Nat /\ w \in Nat /\ y * y \in Int /\ w \in Int
  <2>1. x * x \in Nat /\ y \in Nat /\ w \in Nat
    BY <1>2, PowerStep
  <2> HIDE DEF y, w
  <2> QED
    BY <2>1
<1>4. Cong(n, w, y * y)
  <2>1. Cong(n, Power(a)[s], Power(x * x)[s])
    BY <1>1, <1>2, <1>3, Numbers, CongPower
  <2>2. Power(x * x)[s] = y * y
    BY <1>2, SquarePower
  <2> QED
    BY <2>1, <2>2
<1> HIDE DEF y, w
<1>5. Cong(n, w % n, w) /\ w % n \in Int
  BY <1>3, Numbers, Reduced
<1>6. Cong(n, w % n, y * y)
  BY <1>3, <1>4, <1>5, Numbers, CongTrans, Zenon
<1>7. Sq(a, e) = w % n
  BY DEF Sq, s, w
<1> QED
  BY <1>3, <1>6, <1>7 DEF Square

\* Modulo a prime congruent to 3 modulo 4, -1 is no square: the sum of two
\* squares is 0 only if both are.
LEMMA NotOpposite ==
  ASSUME NEW r, IsPrime(r), NEW i \in Nat, r = 2 * (2 * i + 1) + 1,
         NEW x \in Nat, NEW y \in Nat, ~Cong(r, x, 0), ~Cong(r, y, 0)
  PROVE  ~Cong(r, x * x + y * y, 0)
<1> SUFFICES ASSUME Cong(r, x * x + y * y, 0) PROVE FALSE
  OBVIOUS
<1> DEFINE j == 2 * i + 1
           a == x * x
           b == y * y
           v == r - 1
<1>0. /\ r \in Nat \ {0} /\ r \in Int /\ r > 2 /\ j \in Nat /\ j + j = v
      /\ a \in Nat /\ b \in Nat /\ v \in Nat /\ v \in Int /\ 2 * i \in Nat
  <2>1. r \in Nat /\ r > 1
    BY DEF IsPrime
  <2> QED
    BY <2>1
<1>1. Cong(r, a, v * b)
  <2>1. PICK t \in Int : a + b = 0 + r * t
    BY DEF Cong
  <2>2. a = v * b + r * (t - b)
    <3> HIDE DEF a, b
    <3>1. v * b = r * b - b /\ r * (t - b) = r * t - r * b
      BY <1>0
    <3> QED
      BY <1>0, <2>1, <3>1
  <2>3. t - b \in Int
    BY <1>0
  <2> QED
    BY <2>2, <2>3 DEF Cong
<1>2. ASSUME NEW z \in Nat, ~Cong(r, z, 0)
      PROVE  Cong(r, Power(z * z)[j], 1) /\ Power(z * z)[j] \in Nat
  <2> HIDE DEF j, v, a, b
  <2>1. Power(z * z)[j] = Power(z)[j] * Power(z)[j]
    <3>1. j \in Nat
      BY <1>0, Zenon
    <3> QED
      BY <3>1, SquarePower
  <2>2. Power(z)[j + j] = Power(z)[j] * Power(z)[j]
    <3>1. j \in Nat
      BY <1>0, Zenon
    <3> QED
      BY <3>1, PowerPlus
  <2>3. Cong(r, Power(z)[r - 1], 1)
    BY <1>2, FermatUnit
  <2>4. Power(z)[j + j] \in Nat
    BY <1>0, PowerStep
  <2> QED
    BY <1>0, <2>1, <2>2, <2>3, <2>4 DEF v
<1>3. Cong(r, Power(a)[j], 1) /\ Cong(r, Power(b)[j], 1)
      /\ Power(a)[j] \in Nat /\ Power(b)[j] \in Nat
  BY <1>2
<1>4. Cong(r, Power(v)[j], v) /\ Power(v)[j] \in Nat
  <2> HIDE DEF v
  <2>1. Power(v)[2] = v * v
    <3>1. Power(v)[1] = v /\ Power(v)[1 + 1] = v * Power(v)[1]
      BY <1>0, PowerStep, 1 \in Nat
    <3> QED
      BY <3>1
  <2>2. Cong(r, v * v, 1)
    <3>1. v * v = 1 + r * (r - 2) /\ r - 2 \in Int
      BY <1>0 DEF v
    <3> QED
      BY <3>1 DEF Cong
  <2>3. Cong(r, Power(v)[2 * i], 1)
    <3>1. Power(Power(v)[2])[i] = Power(v)[2 * i]
      BY <1>0, PowerTimes, 2 \in Nat
    <3>2. v * v \in Nat
      BY <1>0
    <3>3. Cong(r, Power(v * v)[i], Power(1)[i])
      BY <1>0, <2>2, <3>2, CongPower, 1 \in Nat
    <3> QED
      BY <2>1, <3>1, <3>3, PowerOfOne
  <2> DEFINE w == Power(v)[2 * i]
  <2>4. Power(v)[2 * i + 1] = v * w /\ w \in Nat
    BY <1>0, PowerStep
  <2> HIDE DEF w
  <2>5. Cong(r, v * w, v * 1)
    <3>1. Cong(r, v, v) /\ Cong(r, w, 1) /\ w \in Int /\ 1 \in Int
      BY <1>0, <2>3, <2>4, CongRefl DEF w
    <3> QED
      BY <1>0, <3>1, CongTimes, Zenon
  <2>6. v * 1 = v /\ v * w \in Nat
    BY <1>0, <2>4
  <2> QED
    BY <2>4, <2>5, <2>6
<1> DEFINE A == Power(a)[j]
           C == Power(b)[j]
           V == Power(v)[j]
<1>5. A \in Int /\ C \in Int /\ V \in Int /\ 1 \in Int
  BY <1>3, <1>4
<1>6. Cong(r, A, V * C)
  <2>1. v * b \in Nat
    BY <1>0
  <2>2. Cong(r, A, Power(v * b)[j])
    <3> HIDE DEF v, b, a, j
    <3> QED
      BY <1>0, <1>1, <2>1, CongPower
  <2>3. Power(v * b)[j] = V * C
    <3> HIDE DEF v, b, a, j
    <3> QED
      BY <1>0, PowerProduct
  <2> QED
    BY <2>2, <2>3
<1>7. Cong(r, A, 1) /\ Cong(r, C, 1) /\ Cong(r, V, v)
  BY <1>3, <1>4
<1> HIDE DEF A, C, V, v, a, b, j
<1>8. Cong(r, V * C, v * 1)
  BY <1>0, <1>5, <1>7, CongTimes, Zenon
<1>9. v * 1 = v /\ V * C \in Int
  BY <1>0, <1>5
<1>10. Cong(r, A, v)
  <2>1. Cong(r, V * C, v)
    BY <1>8, <1>9
  <2> QED
    BY <1>0, <1>5, <1>6, <1>9, <2>1, CongTrans, Zenon
<1>11. Cong(r, 1, v)
  <2>1. Cong(r, 1, A)
    BY <1>0, <1>5, <1>7, CongSym, Zenon
  <2> QED
    BY <1>0, <1>5, <1>10, <2>1, CongTrans, Zenon
<1>12. 1 \in 0 .. r - 1 /\ v \in 0 .. r - 1 /\ v # 1
  BY <1>0 DEF v
<1> QED
  BY <1>0, <1>11, <1>12, CongSmall

\* Squares with the same square are the same, modulo such a prime.
LEMMA SquaresEqual ==
  ASSUME NEW r, IsPrime(r), NEW i \in Nat, r = 2 * (2 * i + 1) + 1,
         NEW x \in Nat, NEW y \in Nat,
         Cong(r, (x * x) * (x * x), (y * y) * (y * y))
  PROVE  Cong(r, x * x, y * y)
<1> DEFINE a == x * x
           b == y * y
<1>0. a \in Nat /\ b \in Nat /\ a \in Int /\ b \in Int /\ r \in Int /\ 0 \in Int
  BY DEF IsPrime
<1>1. Cong(r, a * a, b * b)
  OBVIOUS
<1>2. Cong(r, x, 0) => Cong(r, a, 0)
  BY DividesProduct
<1>3. Cong(r, y, 0) => Cong(r, b, 0)
  BY DividesProduct
<1>4. ~Cong(r, x, 0) /\ ~Cong(r, y, 0) => ~Cong(r, a + b, 0)
  BY NotOpposite
<1> HIDE DEF a, b
<1>5. Cong(r, (a - b) * (a + b), 0)
  <2>1. PICK t \in Int : a * a = b * b + r * t
    BY <1>1 DEF Cong
  <2>2. (a - b) * (a + b) = a * a - b * b /\ a * a \in Int /\ b * b \in Int
    BY <1>0
  <2>3. (a - b) * (a + b) = 0 + r * t
    BY <1>0, <2>1, <2>2
  <2> QED
    BY <2>3 DEF Cong
<1>6. Cong(r, a - b, 0) \/ Cong(r, a + b, 0)
  BY <1>0, <1>5, PrimeProduct
<1>7. Cong(r, a - b, 0) => Cong(r, a, b)
  <2> SUFFICES ASSUME Cong(r, a - b, 0) PROVE Cong(r, a, b)
    OBVIOUS
  <2>1. PICK t \in Int : a - b = 0 + r * t
    BY DEF Cong
  <2>2. a = b + r * t
    BY <1>0, <2>1
  <2> QED
    BY <2>2 DEF Cong
<1>8. ASSUME NEW c \in Int, NEW d \in Int, Cong(r, c, 0), Cong(r, c + d, 0)
      PROVE  Cong(r, d, 0)
  <2>1. PICK s \in Int : c = 0 + r * s
    BY <1>8 DEF Cong
  <2>2. PICK t \in Int : c + d = 0 + r * t
    BY <1>8 DEF Cong
  <2>3. d = 0 + r * (t - s) /\ t - s \in Int
    BY <1>0, <2>1, <2>2
  <2> QED
    BY <2>3 DEF Cong
<1>9. ASSUME Cong(r, a, 0), Cong(r, b, 0) PROVE Cong(r, a, b)
  <2>1. Cong(r, 0, b)
    BY <1>0, <1>9, CongSym, Zenon
  <2> QED
    BY <1>0, <1>9, <2>1, CongTrans, Zenon
<1>10. Cong(r, a + b, 0) => Cong(r, a, b)
  <2> SUFFICES ASSUME Cong(r, a + b, 0) PROVE Cong(r, a, b)
    OBVIOUS
  <2>1. CASE Cong(r, a, 0)
    BY <1>0, <1>8, <1>9, <2>1
  <2>2. CASE Cong(r, b, 0)
    <3>1. b + a = a + b
      BY <1>0
    <3> QED
      BY <1>0, <1>8, <1>9, <2>2, <3>1
  <2> QED
    BY <1>2, <1>3, <1>4, <2>1, <2>2
<1> QED
  BY <1>6, <1>7, <1>10 DEF a, b

\* Squares with the same square are the same, modulo n.
LEMMA OneSquareRoot ==
  ASSUME NEW a \in 0 .. n - 1, NEW b \in 0 .. n - 1, Square(a), Square(b),
         (a * a) % n = (b * b) % n
  PROVE  a = b
<1>0. a \in Nat /\ b \in Nat /\ a * a \in Nat /\ b * b \in Nat
  BY Numbers
<1>1. PICK x \in Nat : Cong(n, a, x * x)
  BY DEF Square
<1>2. PICK y \in Nat : Cong(n, b, y * y)
  BY DEF Square
<1> DEFINE X == x * x
           Y == y * y
<1>3. X \in Nat /\ Y \in Nat /\ X * X \in Nat /\ Y * Y \in Nat
  <2>1. X \in Nat /\ Y \in Nat
    OBVIOUS
  <2> HIDE DEF X, Y
  <2> QED
    BY <2>1
<1>4. a % n = X % n /\ b % n = Y % n
  BY <1>0, <1>1, <1>2, <1>3, ModN
<1>5. ASSUME NEW r \in {p, q} PROVE Cong(r, a, b)
  <2>1. r \in Int /\ IsPrime(r) /\ \E i \in Nat : r = 2 * (2 * i + 1) + 1
    BY Numbers
  <2>2. PICK i \in Nat : r = 2 * (2 * i + 1) + 1
    BY <2>1
  <2>3. Cong(r, a, X) /\ Cong(r, b, Y)
    <3> HIDE DEF X, Y
    <3> QED
      BY <1>0, <1>3, <1>4, ModN
  <2>4. Cong(r, a * a, b * b)
    BY <1>0, ModN
  <2>5. /\ a \in Int /\ b \in Int /\ X \in Int /\ Y \in Int /\ a * a \in Int
        /\ b * b \in Int /\ X * X \in Int /\ Y * Y \in Int
    BY <1>0, <1>3
  <2>6. Cong(r, X * X, Y * Y)
    <3> HIDE DEF X, Y
    <3>1. Cong(r, a * a, X * X) /\ Cong(r, b * b, Y * Y)
      BY <2>1, <2>3, <2>5, CongTimes, Zenon
    <3>2. Cong(r, X * X, a * a)
      BY <2>1, <2>5, <3>1, CongSym, Zenon
    <3>3. Cong(r, X * X, b * b)
      BY <2>1, <2>4, <2>5, <3>2, CongTrans, Zenon
    <3> QED
      BY <2>1, <2>5, <3>1, <3>3, CongTrans, Zenon
  <2>7. Cong(r, X, Y)
    BY <2>1, <2>2, <2>6, SquaresEqual
  <2> HIDE DEF X, Y
  <2>8. Cong(r, a, Y) /\ Cong(r, Y, b)
    <3>1. Cong(r, a, Y)
      BY <2>1, <2>3, <2>5, <2>7, CongTrans, Zenon
    <3> QED
      BY <2>1, <2>3, <2>5, <3>1, CongSym, Zenon
  <2> QED
    BY <2>1, <2>5, <2>8, CongTrans, Zenon
<1>6. a % n = b % n
  BY <1>0, <1>5, ModN
<1>7. a % n = a /\ b % n = b
  BY Numbers, ModSmall
<1> QED
  BY <1>6, <1>7

\* Squares that are the same after k squarings are the same.
LEMMA RootsUnique ==
  ASSUME NEW k \in Nat, NEW a \in 0 .. n - 1, NEW b \in 0 .. n - 1,
         Square(a), Square(b), Sq(a, k) = Sq(b, k)
  PROVE  a = b
<1> DEFINE Same(j) == \A c, d \in 0 .. n - 1 :
                        Square(c) /\ Square(d) /\ Sq(c, j) = Sq(d, j) => c = d
           S == {j \in Nat : Same(j)}
<1>0. \A c \in 0 .. n - 1 : c \in Nat /\ c < n
  BY Numbers
<1>1. 0 \in S
  BY <1>0, SqOne
<1>2. ASSUME NEW j \in S PROVE j + 1 \in S
  <2> SUFFICES ASSUME NEW c \in 0 .. n - 1, NEW d \in 0 .. n - 1,
                      Square(c), Square(d), Sq(c, j + 1) = Sq(d, j + 1)
               PROVE  c = d
    OBVIOUS
  <2>1. j \in Nat /\ Same(j) /\ 1 + j = j + 1 /\ c \in Nat /\ d \in Nat
    BY <1>0
  <2>2. Sq(Sq(c, 1), j) = Sq(c, j + 1) /\ Sq(Sq(d, 1), j) = Sq(d, j + 1)
    <3>1. Sq(Sq(c, 1), j) = Sq(c, 1 + j)
      BY <2>1, SqSq, 1 \in Nat
    <3>2. Sq(Sq(d, 1), j) = Sq(d, 1 + j)
      BY <2>1, SqSq, 1 \in Nat
    <3> QED
      BY <2>1, <3>1, <3>2
  <2>3. Square(Sq(c, 1)) /\ Square(Sq(d, 1))
    BY <2>1, SqIsSquare, 1 \in Nat
  <2>4. Sq(c, 1) \in 0 .. n - 1 /\ Sq(d, 1) \in 0 .. n - 1
    BY <2>1, SquaringsArePower, 1 \in Nat
  <2>5. Sq(c, 1) = Sq(d, 1)
    BY <2>1, <2>2, <2>3, <2>4
  <2>6. (c * c) % n = (d * d) % n
    BY <2>1, <2>5, SqOne
  <2> QED
    BY <2>6, OneSquareRoot
<1>3. S \subseteq Nat
  OBVIOUS
<1> HIDE DEF S
<1>4. S = Nat
  BY <1>1, <1>2, <1>3, SetInduction, Zenon
<1> QED
  BY <1>4 DEF S

\* No common divisor with n but 1: a multiple of neither prime.
LEMMA GcdOne ==
  ASSUME NEW h \in Nat
  PROVE  GCD(h, n) = 1 <=> ~Cong(p, h, 0) /\ ~Cong(q, h, 0)
<1> DEFINE D == {d \in 1 .. n : h % d = 0 /\ n % d = 0}
<1>0. n \in Nat \ {0} /\ n \in Int /\ h \in Int
  BY Numbers
<1>1. Max(D) \in D /\ \A d \in D : Max(D) >= d
  <2>1. 1 \in D
    BY <1>0
  <2>2. D \subseteq 0 .. n /\ n \in Nat /\ D # {}
    BY <1>0, <2>1
  <2> HIDE DEF D
  <2>3. \E m1 \in D : \A d \in D : m1 >= d
    BY <2>2, Greatest
  <2> QED
    BY <2>3 DEF Max
<1>2. GCD(h, n) = Max(D)
  BY DEF GCD
<1>3. ASSUME NEW r \in {p, q}, Cong(r, h, 0) PROVE r \in D /\ r > 1
  <2>1. r \in Nat \ {0} /\ r > 1 /\ r \in 1 .. n /\ r \in Int
    BY Numbers
  <2>2. h % r = 0
    BY <1>0, <1>3, <2>1, Divides
  <2>3. n % r = 0
    <3>1. n = 0 + p * q /\ n = 0 + q * p /\ p \in Int /\ q \in Int
      BY Numbers DEF n
    <3>2. Cong(r, n, 0)
      <4>1. CASE r = p
        BY <3>1, <4>1 DEF Cong
      <4>2. CASE r = q
        BY <3>1, <4>2 DEF Cong
      <4> QED
        BY <4>1, <4>2
    <3> QED
      BY <1>0, <2>1, <3>2, Divides
  <2> QED
    BY <2>1, <2>2, <2>3
<1>4. ASSUME ~Cong(p, h, 0), ~Cong(q, h, 0), NEW d \in D PROVE d = 1
  <2>1. PICK z \in 1 .. n - 1 : (z * h) % n = 1
    BY <1>4, Numbers, InverseOfTwo DEF n
  <2>2. d \in Nat \ {0} /\ d \in Int /\ h % d = 0 /\ n % d = 0
    BY <1>0
  <2>3. PICK k \in Int : h = d * k
    <3>1. Cong(d, h, 0)
      BY <1>0, <2>2, Divides
    <3>2. PICK k \in Int : h = 0 + d * k
      BY <3>1 DEF Cong
    <3> QED
      BY <2>2, <3>2
  <2>4. PICK j \in Int : n = d * j
    <3>1. Cong(d, n, 0)
      BY <1>0, <2>2, Divides
    <3>2. PICK j \in Int : n = 0 + d * j
      BY <3>1 DEF Cong
    <3> QED
      BY <2>2, <3>2
  <2>5. PICK t \in Int : z * h = 1 + n * t
    <3>1. z * h \in Int /\ 1 \in Int /\ 1 % n = 1
      BY Numbers, ModSmall
    <3>2. Cong(n, z * h, 1)
      BY <1>0, <2>1, <3>1, CongMod
    <3> QED
      BY <3>2 DEF Cong
  <2>6. z * h = d * (z * k) /\ n * t = d * (j * t) /\ z * k \in Int /\ j * t \in Int
    <3>1. z \in Int
      BY <1>0
    <3>2. z * (d * k) = d * (z * k) /\ (d * j) * t = d * (j * t)
      BY <2>2, <3>1
    <3> QED
      BY <2>3, <2>4, <3>1, <3>2
  <2>7. d * (z * k - j * t) = 1
    <3> DEFINE v == z * k
               w == j * t
    <3> HIDE DEF v, w
    <3>1. v \in Int /\ w \in Int /\ d * v = 1 + d * w
      BY <2>5, <2>6 DEF v, w
    <3>2. d * (v - w) = d * v - d * w /\ d * w \in Int
      BY <2>2, <3>1
    <3>3. d * (v - w) = 1
      BY <3>1, <3>2
    <3> QED
      BY <3>3 DEF v, w
  <2> DEFINE s == z * k - j * t
  <2>8. s \in Int
    BY <2>6
  <2> HIDE DEF s
  <2>9. d * s = 1
    BY <2>7 DEF s
  <2>10. s >= 1
    <3>1. s <= 0 => d * s <= 0
      BY <2>2, <2>8
    <3> QED
      BY <2>8, <2>9, <3>1
  <2>11. d * s >= d * 1
    BY <2>2, <2>8, <2>10
  <2> QED
    BY <2>2, <2>9, <2>11
<1>5. GCD(h, n) = 1 => ~Cong(p, h, 0) /\ ~Cong(q, h, 0)
  <2> SUFFICES ASSUME NEW r \in {p, q}, Cong(r, h, 0) PROVE GCD(h, n) # 1
    OBVIOUS
  <2>1. r \in D /\ r > 1 /\ r \in Int
    BY <1>3, Numbers
  <2>2. Max(D) >= r /\ Max(D) \in Int
    BY <1>0, <1>1, <2>1
  <2> HIDE DEF D
  <2> QED
    BY <1>2, <2>1, <2>2
<1> QED
  BY <1>1, <1>2, <1>4, <1>5

\* A number that shares no factor with n.
Unit(a) == ~Cong(p, a, 0) /\ ~Cong(q, a, 0)

\* Its inverse.
LEMMA InverseIs ==
  ASSUME NEW a \in Nat, Unit(a)
  PROVE  InverseMod(a, n) \in Nat /\ Cong(n, InverseMod(a, n) * a, 1)
<1>1. \E z \in 1 .. n - 1 : (z * a) % n = 1
  BY Numbers, InverseOfTwo DEF Unit, n
<1>2. GCD(a, n) = 1
  BY GcdOne DEF Unit
<1> DEFINE z == CHOOSE z \in 1 .. n - 1 : (z * a) % n = 1
<1>3. InverseMod(a, n) = z
  BY <1>2 DEF InverseMod
<1>4. z \in 1 .. n - 1 /\ (z * a) % n = 1
  BY <1>1
<1> HIDE DEF z
<1>5. z \in Nat /\ z * a \in Int /\ 1 \in Int /\ 1 % n = 1
  BY <1>4, Numbers, ModSmall
<1>6. Cong(n, z * a, 1)
  BY <1>4, <1>5, Numbers, CongMod
<1> QED
  BY <1>3, <1>5, <1>6

\* Powers of such a number, reduced, are such numbers.
LEMMA UnitPower ==
  ASSUME NEW a \in Nat, Unit(a), NEW e \in Nat
  PROVE  Power(a)[e] \in Nat /\ Unit(Power(a)[e] % n)
<1> DEFINE x == Power(a)[e]
           y == x % n
<1>1. x \in Nat /\ ~Cong(p, x, 0) /\ ~Cong(q, x, 0)
  BY Numbers, PowerStep, PrimePower DEF Unit
<1> HIDE DEF x
<1>2. y \in Nat /\ y % n = x % n
  <2>1. x \in Int
    BY <1>1
  <2>2. y \in 0 .. n - 1
    BY <2>1, Numbers, Reduced
  <2>3. y % n = y
    BY <2>2, Numbers, ModSmall
  <2> QED
    BY <2>2, <2>3, Numbers
<1> HIDE DEF y
<1>3. ASSUME NEW r \in {p, q}, Cong(r, y, 0) PROVE Cong(r, x, 0)
  <2>1. Cong(r, y, x)
    BY <1>1, <1>2, ModN
  <2>2. r \in Int /\ x \in Int /\ y \in Int /\ 0 \in Int
    BY <1>1, <1>2, Numbers
  <2>3. Cong(r, x, y)
    BY <2>1, <2>2, CongSym, Zenon
  <2> QED
    BY <1>3, <2>2, <2>3, CongTrans, Zenon
<1>4. Unit(y)
  BY <1>1, <1>3 DEF Unit
<1> QED
  BY <1>1, <1>4 DEF x, y

\* Dividing factors out of o keeps it an exponent that gives 1.
LEMMA DivideOutKeeps ==
  ASSUME NEW a, NEW s \in Nat, s > 1, NEW o \in Nat \ {0}
  PROVE  /\ DivideOut(a, s, o) \in 1 .. o
         /\ PowMod(a, o, n) = 1 => PowMod(a, DivideOut(a, s, o), n) = 1
<1> DEFINE can(t) == t % s = 0 /\ PowMod(a, t \div s, n) = 1
           Fix(f, j) == f = [t \in 1 .. j |-> IF can(t) THEN f[t \div s] ELSE t]
           F == CHOOSE f : Fix(f, o)
<1>1. \A t \in Nat \ {0} : can(t) => t \div s \in 1 .. t - 1
  <2>1. ASSUME NEW t \in Nat \ {0}, t % s = 0 PROVE t \div s \in 1 .. t - 1
    <3> DEFINE d == t \div s
    <3>1. d \in Int /\ t = s * d + (t % s)
      BY DivMod
    <3> HIDE DEF d
    <3>2. t = s * d
      BY <2>1, <3>1
    <3>3. d >= 1
      <4>1. d <= 0 => s * d <= 0
        BY <3>1
      <4> QED
        BY <3>1, <3>2, <4>1
    <3>4. s * d >= 2 * d
      BY <3>1, <3>3
    <3>5. d \in 1 .. t - 1
      BY <3>1, <3>2, <3>3, <3>4
    <3> QED
      BY <3>5 DEF d
  <2> QED
    BY <2>1
<1>2. \A t : can(t) => PowMod(a, t \div s, n) = 1
  OBVIOUS
<1>3. DivideOut(a, s, o) = F[o]
  BY DEF DivideOut
<1> HIDE DEF can
<1>4. \E f : Fix(f, o)
  <2> DEFINE S == {j \in Nat : \E f : Fix(f, j)}
  <2>1. 0 \in S
    <3> DEFINE f == [t \in 1 .. 0 |-> t]
    <3>1. Fix(f, 0)
      OBVIOUS
    <3> QED
      BY <3>1
  <2>2. ASSUME NEW j \in S PROVE j + 1 \in S
    <3>1. j \in Nat /\ \E f : Fix(f, j)
      OBVIOUS
    <3>2. PICK f : Fix(f, j)
      BY <3>1
    <3> DEFINE h == [t \in 1 .. j + 1 |->
                       IF t = j + 1 THEN IF can(t) THEN f[t \div s] ELSE t
                       ELSE f[t]]
    <3>3. ASSUME NEW t \in 1 .. j + 1
          PROVE  h[t] = IF can(t) THEN h[t \div s] ELSE t
      <4>0. can(t) => t \div s \in 1 .. t - 1 /\ t \div s \in 1 .. j + 1 /\ t \div s # j + 1
        <5>1. t \in Nat \ {0} /\ t <= j + 1
          BY <3>1
        <5> DEFINE d == t \div s
        <5>2. can(t) => d \in 1 .. t - 1
          BY <1>1, <5>1
        <5> HIDE DEF d
        <5>3. can(t) => d \in 1 .. t - 1 /\ d \in 1 .. j + 1 /\ d # j + 1
          BY <3>1, <5>1, <5>2
        <5> QED
          BY <5>3 DEF d
      <4>1. CASE t = j + 1
        BY <4>0, <4>1
      <4>2. CASE t # j + 1
        <5>1. t \in 1 .. j
          BY <3>1, <4>2
        <5>2. f[t] = IF can(t) THEN f[t \div s] ELSE t
          BY <3>2, <5>1
        <5> QED
          BY <4>0, <4>2, <5>2
      <4> QED
        BY <4>1, <4>2
    <3>4. Fix(h, j + 1)
      <4>1. h = [t \in 1 .. j + 1 |-> h[t]]
        OBVIOUS
      <4> HIDE DEF h
      <4> QED
        BY <3>3, <4>1
    <3> HIDE DEF Fix, h
    <3> QED
      BY <3>1, <3>4
  <2>3. S \subseteq Nat
    OBVIOUS
  <2> HIDE DEF S
  <2>4. S = Nat
    BY <2>1, <2>2, <2>3, SetInduction, Zenon
  <2> HIDE DEF Fix
  <2> QED
    BY <2>4 DEF S
<1>5. Fix(F, o)
  <2> HIDE DEF Fix
  <2> QED
    BY <1>4
<1> HIDE DEF F
<1>6. \A t \in 1 .. o : F[t] = IF can(t) THEN F[t \div s] ELSE t
  BY <1>5
<1> DEFINE Good(t) == /\ F[t] \in 1 .. t
                      /\ PowMod(a, t, n) = 1 => PowMod(a, F[t], n) = 1
           U == {j \in Nat : \A t \in 1 .. j : t <= o => Good(t)}
<1>7. 0 \in U
  OBVIOUS
<1>8. ASSUME NEW j \in U PROVE j + 1 \in U
  <2>0. j \in Nat /\ \A t \in 1 .. j : t <= o => Good(t)
    OBVIOUS
  <2> SUFFICES ASSUME NEW t \in 1 .. j + 1, t <= o PROVE Good(t)
    BY <2>0
  <2>1. t \in Nat \ {0} /\ t \in 1 .. o
    BY <2>0
  <2>2. CASE can(t)
    <3> DEFINE d == t \div s
    <3>1. d \in 1 .. t - 1 /\ PowMod(a, d, n) = 1 /\ F[t] = F[d]
      BY <1>1, <1>2, <1>6, <2>1, <2>2
    <3> HIDE DEF d
    <3>2. d \in 1 .. j /\ d <= o
      BY <2>0, <2>1, <3>1
    <3>3. Good(d)
      BY <2>0, <3>2
    <3>4. F[t] \in 1 .. t /\ PowMod(a, F[t], n) = 1
      BY <2>1, <3>1, <3>3
    <3> QED
      BY <3>4
  <2>3. CASE ~can(t)
    BY <1>6, <2>1, <2>3
  <2> QED
    BY <2>2, <2>3
<1>9. U \subseteq Nat
  OBVIOUS
<1> HIDE DEF U
<1>10. U = Nat
  BY <1>7, <1>8, <1>9, SetInduction, Zenon
<1>11. Good(o)
  <2>1. o \in Nat /\ o \in 1 .. o /\ o <= o
    OBVIOUS
  <2> HIDE DEF Good
  <2>2. \A t \in 1 .. o : t <= o => Good(t)
    BY <1>10, <2>1, Zenon DEF U
  <2> QED
    BY <2>1, <2>2
<1> QED
  BY <1>3, <1>11

\* find_order stays positive; for a base that shares no factor with n it is a
\* multiple of the order.
LEMMA OrderIs ==
  ASSUME NEW a \in Nat
  PROVE  /\ find_order(a) \in 1 .. phi
         /\ Unit(a) => PowMod(a, find_order(a), n) = 1
<1> DEFINE o1 == DivideOut(a, q1, phi)
           o2 == DivideOut(a, q2, o1)
           o3 == DivideOut(a, 2, o2)
<1>0. q1 \in Nat /\ q1 > 1 /\ q2 \in Nat /\ q2 > 1 /\ phi \in Nat \ {0}
  BY Numbers
<1>1. /\ o1 \in 1 .. phi
      /\ PowMod(a, phi, n) = 1 => PowMod(a, o1, n) = 1
  BY <1>0, DivideOutKeeps
<1> HIDE DEF o1
<1>2. /\ o2 \in 1 .. o1
      /\ PowMod(a, o1, n) = 1 => PowMod(a, o2, n) = 1
  <2>1. o1 \in Nat \ {0}
    BY <1>0, <1>1
  <2> QED
    BY <1>0, <2>1, DivideOutKeeps
<1> HIDE DEF o2
<1>3. /\ o3 \in 1 .. o2
      /\ PowMod(a, o2, n) = 1 => PowMod(a, o3, n) = 1
  <2>1. o2 \in Nat \ {0} /\ 2 \in Nat /\ 2 > 1
    BY <1>0, <1>1, <1>2
  <2> QED
    BY <2>1, DivideOutKeeps
<1> HIDE DEF o3
<1>4. Unit(a) => PowMod(a, phi, n) = 1
  <2> SUFFICES ASSUME Unit(a) PROVE PowMod(a, phi, n) = 1
    OBVIOUS
  <2>1. Cong(n, Power(a)[phi], 1)
    BY Numbers, Euler DEF Unit, n, phi
  <2>2. Power(a)[phi] \in Nat /\ PowMod(a, phi, n) = Power(a)[phi] % n
    BY Numbers, PowerStep, PowModIsPower
  <2>3. Power(a)[phi] % n = 1 % n
    BY <2>1, <2>2, ModN, 1 \in Nat
  <2>4. 1 % n = 1
    BY Numbers, ModSmall
  <2> QED
    BY <2>2, <2>3, <2>4
<1>5. find_order(a) = o3
  BY DEF find_order, o1, o2, o3
<1>6. o3 \in 1 .. phi
  BY <1>0, <1>1, <1>2, <1>3
<1> QED
  BY <1>1, <1>2, <1>3, <1>4, <1>5, <1>6

-----------------------------------------------------------------------------
(* The masked message and the proof's equations.                           *)

\* Masking twice with the same powers gives the message back.
LEMMA MaskBack ==
  ASSUME NEW bits \in Seq({0, 1}), NEW v \in Nat
  PROVE  /\ Mask(bits, v) \in Seq({0, 1})
         /\ Len(Mask(bits, v)) = Len(bits)
         /\ Mask(Mask(bits, v), v) = bits
<1> DEFINE N == Len(bits)
           b(k) == Bit(Squared(v, k - 1))
           S == [k \in 1 .. N |-> Xor(bits[k], b(k))]
<1>0. N \in Nat /\ bits = [k \in 1 .. N |-> bits[k]]
      /\ \A k \in 1 .. N : bits[k] \in {0, 1}
  OBVIOUS
<1>1. \A k \in 1 .. N : b(k) \in {0, 1}
  <2> SUFFICES ASSUME NEW k \in 1 .. N PROVE b(k) \in {0, 1}
    OBVIOUS
  <2>1. k - 1 \in Nat
    BY <1>0
  <2>2. Squared(v, k - 1) \in Nat
    BY <2>1, SquaringsArePower
  <2> QED
    BY <2>2 DEF Bit
<1>2. Mask(bits, v) = S
  BY DEF Mask
<1>3. \A x, y \in {0, 1} : Xor(x, y) \in {0, 1} /\ Xor(Xor(x, y), y) = x
  BY DEF Xor
<1> HIDE DEF b
<1>4. \A k \in 1 .. N : S[k] \in {0, 1} /\ Xor(S[k], b(k)) = bits[k]
  BY <1>0, <1>1, <1>3
<1>5. S \in [1 .. N -> {0, 1}]
  BY <1>4
<1>6. S \in Seq({0, 1}) /\ Len(S) = N
  <2> HIDE DEF S, N
  <2> QED
    BY <1>0, <1>5
<1>7. Mask(S, v) = [k \in 1 .. Len(S) |-> Xor(S[k], b(k))]
  BY DEF Mask, b
<1> HIDE DEF S
<1>8. Mask(S, v) = bits
  <2>1. Mask(S, v) = [k \in 1 .. N |-> Xor(S[k], b(k))]
    BY <1>6, <1>7
  <2>2. [k \in 1 .. N |-> Xor(S[k], b(k))] = [k \in 1 .. N |-> bits[k]]
    BY <1>4
  <2> QED
    BY <1>0, <2>1, <2>2
<1> QED
  BY <1>2, <1>6, <1>8

\* What zk_5 checks holds of what the commiter answers, for every base that
\* shares no factor with n and whose order-th power is 1: reducing modulo
\* order what multiplies the challenge changes nothing.
LEMMA Convinced ==
  ASSUME NEW k \in Nat \ {0}, NEW a \in Nat, Unit(a), order \in Nat \ {0},
         Cong(n, Power(a)[order], 1), values[k] \in Nat, alpha[k] \in Nat
  PROVE  Verifies(a, Sq(a, Power(2)[k - 1]), k)
<1> DEFINE E == Power(2)[Power(2)[k - 1]]
           e == E % order
           c == values[k]
           d == alpha[k]
           y == Answer(k)
           w == Power(a)[E]
           v == w % n
           z == InverseMod(v, n)
<1>1. Power(2)[k - 1] \in Nat /\ E \in Nat
  <2>1. k - 1 \in Nat
    OBVIOUS
  <2>2. Power(2)[k - 1] \in Nat
    BY <2>1, TwoPower
  <2> QED
    BY <2>2, TwoPower
<1>2. Sq(a, Power(2)[k - 1]) = v
  BY DEF Sq
<1>3. PowMod(2, Power(2)[k - 1], order) = e
  BY <1>1, PowModIsPower, 2 \in Nat
<1>4. y = (c * e + d) % order
  BY <1>3 DEF Answer
<1> HIDE DEF y, c, d
<1>5. c \in Nat /\ d \in Nat /\ order \in Nat \ {0}
  BY DEF c, d
<1> HIDE DEF E
<1>6. c * E + d \in Nat /\ c * E \in Nat /\ E * c = c * E
  BY <1>1, <1>5
<1>7. y \in Nat /\ Cong(order, y, c * E + d)
  <2>1. E \in Int /\ order \in Int /\ c \in Int /\ d \in Int
    BY <1>1, <1>5
  <2>2. e \in Nat /\ e \in Int /\ Cong(order, e, E)
    <3>1. e \in 0 .. order - 1 /\ e \in Int /\ Cong(order, e, E)
      BY <1>5, <2>1, Reduced
    <3> QED
      BY <1>5, <3>1
  <2> HIDE DEF e
  <2>3. Cong(order, c * e, c * E) /\ c * e \in Int /\ c * E \in Int /\ c * e + d \in Int
    <3>1. Cong(order, c, c)
      BY <2>1, CongRefl
    <3>2. Cong(order, c * e, c * E)
      BY <2>1, <2>2, <3>1, CongTimes, Zenon
    <3> QED
      BY <2>1, <2>2, <3>2
  <2>4. Cong(order, c * e + d, c * E + d)
    <3>1. Cong(order, d, d)
      BY <2>1, CongRefl
    <3> QED
      BY <2>1, <2>3, <3>1, CongPlus, Zenon
  <2> DEFINE x == c * e + d
             X == c * E + d
  <2>5. x \in Int /\ X \in Int /\ Cong(order, x, X) /\ y = x % order
    BY <1>4, <1>6, <2>3, <2>4
  <2> HIDE DEF x, X
  <2>6. y \in 0 .. order - 1 /\ y \in Int /\ Cong(order, y, x)
    BY <1>5, <2>5, Reduced
  <2>7. Cong(order, y, X)
    BY <2>1, <2>5, <2>6, CongTrans, Zenon
  <2> QED
    BY <1>5, <2>6, <2>7 DEF X
<1>8. w \in Nat /\ v \in Nat /\ Unit(v) /\ Cong(n, v, w)
  <2>1. w \in Nat /\ Unit(w % n)
    BY <1>1, UnitPower
  <2>2. w \in Int
    BY <2>1
  <2> HIDE DEF w
  <2>3. w % n \in 0 .. n - 1 /\ Cong(n, w % n, w)
    BY <2>2, Numbers, Reduced
  <2> QED
    BY <2>1, <2>3, Numbers
<1> DEFINE P == Power(a)[y]
           T == Power(a)[c * E]
           D == Power(a)[d]
           Z == Power(z)[c]
<1>9. z \in Nat /\ Cong(n, z * v, 1)
  <2> HIDE DEF v
  <2> QED
    BY <1>8, InverseIs
<1> HIDE DEF z, v
<1>10. P \in Nat /\ T \in Nat /\ D \in Nat /\ Z \in Nat
  BY <1>5, <1>6, <1>7, <1>9, PowerStep
<1>11. Cong(n, P, T * D)
  <2>1. Cong(n, P, Power(a)[c * E + d])
    <3> DEFINE X == c * E + d
    <3>1. X \in Nat /\ y \in Nat /\ Cong(order, y, X)
      BY <1>6, <1>7
    <3>2. order \in Nat /\ n \in Int
      BY <1>5, Numbers
    <3> HIDE DEF X, y, E
    <3>3. Cong(n, Power(a)[y], Power(a)[X])
      BY <3>1, <3>2, PowersAgree
    <3> QED
      BY <3>3 DEF X
  <2>2. Power(a)[c * E + d] = T * D
    <3> DEFINE M == c * E
    <3>1. M \in Nat /\ d \in Nat
      BY <1>5, <1>6
    <3> HIDE DEF M, d, E, c
    <3>2. Power(a)[M + d] = Power(a)[M] * Power(a)[d]
      BY <3>1, PowerPlus
    <3> QED
      BY <3>2 DEF M
  <2> QED
    BY <2>1, <2>2
<1>12. Cong(n, T * Z, 1)
  <2>1. T = Power(w)[c]
    <3>1. Power(Power(a)[E])[c] = Power(a)[E * c]
      BY <1>1, <1>5, PowerTimes
    <3> QED
      BY <1>6, <3>1
  <2> HIDE DEF w
  <2>2. Power(w * z)[c] = T * Z
    BY <1>5, <1>8, <1>9, <2>1, PowerProduct
  <2>3. Cong(n, w * z, 1) /\ w * z \in Nat
    <3>1. n \in Int /\ w \in Int /\ v \in Int /\ z \in Int /\ 1 \in Int
          /\ w * z \in Int /\ v * z \in Int /\ v * z = z * v /\ w * z \in Nat
      BY <1>8, <1>9, Numbers
    <3>2. Cong(n, w, v) /\ Cong(n, z, z)
      BY <1>8, <3>1, CongSym, CongRefl
    <3>3. Cong(n, w * z, v * z)
      BY <3>1, <3>2, CongTimes, Zenon
    <3>4. Cong(n, v * z, 1)
      BY <1>9, <3>1
    <3> QED
      BY <3>1, <3>3, <3>4, CongTrans, Zenon
  <2>4. Cong(n, Power(w * z)[c], Power(1)[c])
    BY <1>5, <2>3, Numbers, CongPower, 1 \in Nat
  <2> QED
    BY <1>5, <2>2, <2>4, PowerOfOne
<1>13. /\ PowMod(a, y, n) = P % n /\ PowMod(z, c, n) = Z % n
       /\ PowMod(a, d, n) = D % n
  BY <1>5, <1>7, <1>9, Numbers, PowModIsPower
<1> HIDE DEF P, T, D, Z
<1>14. Cong(n, P * Z, D)
  <2>1. /\ P \in Int /\ T \in Int /\ D \in Int /\ Z \in Int /\ n \in Int
        /\ 1 \in Int /\ T * D \in Int /\ T * Z \in Int
        /\ P * Z \in Int /\ (T * D) * Z \in Int /\ (T * Z) * D \in Int
    <3>1. P \in Int /\ T \in Int /\ D \in Int /\ Z \in Int
      BY <1>10
    <3> DEFINE j == T * D
               i == T * Z
    <3>2. j \in Int /\ i \in Int
      BY <3>1
    <3> HIDE DEF j, i
    <3>3. j * Z \in Int /\ i * D \in Int /\ P * Z \in Int
      BY <3>1, <3>2
    <3> QED
      BY <3>1, <3>2, <3>3, Numbers DEF j, i
  <2>2. Cong(n, Z, Z) /\ Cong(n, D, D)
    BY <2>1, CongRefl
  <2>3. Cong(n, P * Z, (T * D) * Z)
    BY <1>11, <2>1, <2>2, CongTimes, Zenon
  <2>4. (T * D) * Z = (T * Z) * D /\ 1 * D = D
    BY <2>1
  <2>5. Cong(n, (T * Z) * D, 1 * D)
    BY <1>12, <2>1, <2>2, CongTimes, Zenon
  <2>6. Cong(n, P * Z, (T * Z) * D) /\ Cong(n, (T * Z) * D, D)
    BY <2>3, <2>4, <2>5
  <2> QED
    BY <2>1, <2>6, CongTrans, Zenon
<1>15. ((P % n) * (Z % n)) % n = D % n
  <2> DEFINE x == P % n
             s == Z % n
  <2>1. x \in Nat /\ s \in Nat /\ Cong(n, x, P) /\ Cong(n, s, Z)
    <3>1. P \in Int /\ Z \in Int
      BY <1>10
    <3>2. x \in 0 .. n - 1 /\ s \in 0 .. n - 1 /\ Cong(n, x, P) /\ Cong(n, s, Z)
      BY <3>1, Numbers, Reduced
    <3> HIDE DEF x, s
    <3> QED
      BY <3>2, Numbers
  <2> HIDE DEF x, s
  <2>2. /\ n \in Int /\ x \in Int /\ s \in Int /\ P \in Int /\ Z \in Int /\ D \in Int
        /\ x * s \in Int /\ P * Z \in Int
    BY <1>10, <2>1, Numbers
  <2>3. Cong(n, x * s, P * Z)
    BY <2>1, <2>2, CongTimes, Zenon
  <2>4. Cong(n, x * s, D)
    BY <1>14, <2>2, <2>3, CongTrans, Zenon
  <2>5. x * s \in Nat
    BY <2>1
  <2>6. (x * s) % n = D % n
    BY <1>10, <2>4, <2>5, ModN
  <2> QED
    BY <2>6 DEF x, s
<1>16. (PowMod(a, y, n) * PowMod(z, c, n)) % n = PowMod(a, d, n)
  BY <1>13, <1>15
<1> QED
  BY <1>2, <1>16 DEF Verifies, z, y, c, d

-----------------------------------------------------------------------------
(* The inductive invariant.                                                *)

\* The number whose bits mask the message: l squarings before com.u.
u0 == Sq(com.g, Power(2)[com.K] - l)

\* What commit computed, in all steps after it.
ComInv ==
    pc # "commit" =>
        /\ com.h \in 2 .. n - 1
        /\ com.g = get_g(n, com.h)
        /\ com.u = Sq(com.g, Power(2)[com.K])
        /\ com.S = Mask(m, u0)
        /\ Len(com.W) = com.K + 1
        /\ \A k \in 0 .. com.K : W(k) = Sq(com.g, Power(2)[k])

\* The commiter has the commitments to the values that will be revealed.
CommitsInv ==
    pc \in {"zk_2", "zk_4"} =>
        \A k \in 1 .. com.K : commits[k] = regular_commit(values[k])

IInv == /\ TypeOK
        /\ ComInv
        /\ CommitsInv
        /\ OpensToMessage
        /\ HonestNeverThrows
        /\ OrderReduces

\* Initially nothing is committed to.
LEMMA InitIInv == Init => IInv
<1> SUFFICES ASSUME Init PROVE IInv
  OBVIOUS
<1>1. /\ pc = "commit" /\ m \in Messages /\ order = 1 /\ via = "none" /\ result = <<>>
  BY DEF Init
<1>2. PICK K \in Ks :
         /\ com = [K |-> K, h |-> 0, g |-> 0, u |-> 0, S |-> <<>>, W |-> <<>>]
         /\ values = [k \in 1 .. K |-> 0] /\ alpha = [k \in 1 .. K |-> 0]
         /\ commits = [k \in 1 .. K |-> <<>>]
  BY DEF Init
<1>3. /\ com.K = K /\ com.h = 0 /\ com.g = 0 /\ com.u = 0
      /\ com.S = <<>> /\ com.W = <<>>
  <2>1. com = [K |-> K, h |-> 0, g |-> 0, u |-> 0, S |-> <<>>, W |-> <<>>]
    BY <1>2, Zenon
  <2> QED
    BY <2>1
<1>4. 0 \in Residues /\ 1 \in 1 .. phi /\ 0 \in 0 .. R /\ 0 \in 0 .. phi
  BY Numbers, TimedCommitmentAssumption DEF Residues
<1>5. <<>> \in Seq({0, 1}) /\ <<>> \in Seq(Residues)
  OBVIOUS
<1>6. /\ values \in [1 .. com.K -> 0 .. R]
      /\ commits \in [1 .. com.K -> {<<>>} \union {regular_commit(v) : v \in 0 .. R}]
      /\ alpha \in [1 .. com.K -> 0 .. phi]
  <2>1. values \in [1 .. com.K -> 0 .. R] /\ alpha \in [1 .. com.K -> 0 .. phi]
    <3> HIDE DEF phi
    <3> QED
      BY <1>2, <1>3, <1>4
  <2>2. commits \in [1 .. com.K -> {<<>>}]
    BY <1>2, <1>3
  <2> QED
    BY <2>1, <2>2
<1>7. TypeOK
  BY <1>1, <1>3, <1>4, <1>5, <1>6 DEF TypeOK
<1> QED
  BY <1>1, <1>7 DEF IInv, ComInv, CommitsInv, OpensToMessage,
     HonestNeverThrows, OrderReduces

\* The message and the time parameter.
LEMMA MessageIs ==
  ASSUME TypeOK
  PROVE  /\ com.K \in Nat \ {0} /\ m \in Seq({0, 1}) /\ l \in Nat /\ l >= 1
         /\ Power(2)[com.K] \in Nat /\ l <= Power(2)[com.K]
         /\ Power(2)[com.K] - l \in Nat
<1>1. com.K \in Ks /\ m \in Messages
  BY DEF TypeOK
<1>2. com.K \in Nat \ {0} /\ m \in Seq({0, 1}) /\ Len(m) \in 1 .. Power(2)[com.K]
  BY <1>1, TimedCommitmentAssumption
<1>3. Power(2)[com.K] \in Nat
  BY <1>2, TwoPower
<1> QED
  BY <1>2, <1>3 DEF l

\* What is known of a commitment.
LEMMA Committed ==
  ASSUME TypeOK, ComInv, pc # "commit"
  PROVE  /\ com.h \in Nat /\ com.g \in 0 .. n - 1 /\ com.g \in Nat
         /\ com.g = get_g(n, com.h)
         /\ com.u = Sq(com.g, Power(2)[com.K])
         /\ com.S = Mask(m, u0)
         /\ Len(com.S) = l
         /\ u0 \in 0 .. n - 1 /\ u0 \in Nat /\ Square(u0)
         /\ Sq(u0, l) = com.u
         /\ Square(com.g)
         /\ GCD(com.h, n) = 1 => Unit(com.g)
<1>1. /\ com.h \in Nat /\ com.g = get_g(n, com.h)
      /\ com.u = Sq(com.g, Power(2)[com.K]) /\ com.S = Mask(m, u0)
  <2>1. com.h \in 2 .. n - 1
    BY DEF ComInv
  <2>2. com.h \in Nat
    BY <2>1, Numbers
  <2> QED
    BY <2>2 DEF ComInv
<1>2. com.g \in 0 .. n - 1 /\ com.g \in Nat /\ Square(com.g)
  BY <1>1, BaseIs, BaseIsSquare
<1>3. Power(2)[com.K] - l \in Nat /\ l \in Nat /\ m \in Seq({0, 1})
      /\ Power(2)[com.K] \in Nat
  BY MessageIs
<1>4. u0 \in 0 .. n - 1 /\ u0 \in Nat
  BY <1>2, <1>3, SquaringsArePower DEF u0
<1>5. Square(u0)
  BY <1>2, <1>3, SqIsSquare DEF u0
<1>6. Sq(u0, l) = com.u
  <2>1. Sq(u0, l) = Sq(com.g, (Power(2)[com.K] - l) + l)
    BY <1>2, <1>3, SqSq DEF u0
  <2>2. (Power(2)[com.K] - l) + l = Power(2)[com.K]
    BY <1>3
  <2> QED
    BY <1>1, <2>1, <2>2
<1>7. Len(com.S) = l
  BY <1>1, <1>3, <1>4, MaskBack DEF l
<1>8. GCD(com.h, n) = 1 => Unit(com.g)
  <2> SUFFICES ASSUME GCD(com.h, n) = 1 PROVE Unit(com.g)
    OBVIOUS
  <2>1. Unit(com.h)
    BY <1>1, GcdOne DEF Unit
  <2>2. Unit(Power(com.h)[mult] % n)
    BY <1>1, <2>1, MultIsEven, UnitPower
  <2> QED
    BY <1>1, <2>2, BaseIs
<1> QED
  BY <1>1, <1>2, <1>4, <1>5, <1>6, <1>7, <1>8

\* The steps after commit keep what it computed.
LEMMA StepIInv ==
  ASSUME IInv, pc # "commit", UNCHANGED <<m, com, order>>,
         pc' \in {"zk_1", "zk_2", "zk_4", "zk_5", "committed", "opened",
                  "threw"},
         values' \in [1 .. com.K -> 0 .. R],
         commits' \in [1 .. com.K -> {<<>>} \union {regular_commit(v) : v \in 0 .. R}],
         alpha' \in [1 .. com.K -> 0 .. phi],
         via' \in {"none", "open", "force", "smart"}, result' \in Seq({0, 1}),
         CommitsInv', OpensToMessage', HonestNeverThrows'
  PROVE  IInv'
<1>1. TypeOK /\ ComInv /\ OrderReduces
  BY DEF IInv
<1>2. TypeOK'
  BY <1>1 DEF TypeOK, Residues
<1>3. ComInv'
  BY <1>1 DEF ComInv, u0, l, W
<1>4. OrderReduces'
  BY <1>1 DEF OrderReduces
<1> QED
  BY <1>2, <1>3, <1>4 DEF IInv

\* commit's sanity checks pass, for every h.
LEMMA CommitIInv == IInv /\ Commit => IInv'
<1> SUFFICES ASSUME IInv, Commit PROVE IInv'
  OBVIOUS
<1>1. TypeOK
  BY DEF IInv
<1> DEFINE K == com.K
<1>2. /\ K \in Nat \ {0} /\ m \in Seq({0, 1}) /\ l \in Nat
      /\ Power(2)[K] \in Nat /\ l <= Power(2)[K]
      /\ Power(2)[K] - l \in Nat
  BY <1>1, MessageIs
<1>3. PICK h \in 2 .. n - 1 :
        LET g  == get_g(n, h)
            v  == PowMod(g, PowerOfTwo(K, l), n)
            u  == Squared(v, l)
            c  == Chain(g, K)
        IN  /\ order' = find_order(g)
            /\ com' = [K |-> K, h |-> h, g |-> g, u |-> u,
                       S |-> Mask(m, v), W |-> c]
            /\ pc' = IF /\ u = PowMod(g, PowerOfTwo(K, 0), n)
                        /\ c[1] = PowMod(g, 2, n) /\ c[2] = PowMod(g, 4, n)
                        /\ c[K + 1] = u
                     THEN "accept" ELSE "insane"
  BY DEF Commit
<1>4. UNCHANGED <<m, values, commits, alpha, via, result>> /\ pc = "commit"
  BY DEF Commit
<1> DEFINE g == get_g(n, h)
           v == Sq(g, Power(2)[K] - l)
           u == Sq(g, Power(2)[K])
           c == Chain(g, K)
<1>5. h \in Nat /\ g \in 0 .. n - 1 /\ g \in Nat
  <2>1. h \in Nat
    BY Numbers
  <2> QED
    BY <2>1, BaseIs
<1>6. PowMod(g, PowerOfTwo(K, l), n) = v
  <2> HIDE DEF g, K
  <2> QED
    BY <1>2, <1>5, ShortCut
<1>7. PowMod(g, PowerOfTwo(K, 0), n) = u
  <2> HIDE DEF g, K
  <2>1. Power(2)[K] - 0 = Power(2)[K] /\ 0 <= Power(2)[K] /\ 0 \in Nat
    BY <1>2
  <2> QED
    BY <1>2, <1>5, <2>1, ShortCut
<1> HIDE DEF g, v, u
<1>8. v \in 0 .. n - 1 /\ v \in Nat /\ u \in 0 .. n - 1 /\ Squared(v, l) = u
  <2>1. v \in 0 .. n - 1 /\ v \in Nat /\ u \in 0 .. n - 1
    BY <1>2, <1>5, SquaringsArePower DEF v, u
  <2>2. Squared(v, l) = Sq(v, l)
    BY <1>2, <2>1, SquaringsArePower
  <2>3. Sq(v, l) = Sq(g, (Power(2)[K] - l) + l)
    <3> DEFINE e == Power(2)[K] - l
    <3>1. e \in Nat /\ l \in Nat /\ g \in Nat
      BY <1>2, <1>5
    <3> HIDE DEF e, g
    <3>2. Sq(Sq(g, e), l) = Sq(g, e + l)
      BY <3>1, SqSq
    <3> QED
      BY <3>2 DEF e, v
  <2>4. (Power(2)[K] - l) + l = Power(2)[K]
    BY <1>2
  <2> QED
    BY <2>1, <2>2, <2>3, <2>4 DEF u
<1>9. ASSUME NEW k \in 0 .. K PROVE c[k + 1] = Sq(g, Power(2)[k]) /\ c[k + 1] \in 0 .. n - 1
  <2>1. k \in Nat /\ k + 1 \in 1 .. K + 1 /\ (k + 1) - 1 = k
    BY <1>2
  <2>2. c[k + 1] = PowMod(g, PowerOfTwo(k, 0), n)
    BY <2>1 DEF Chain
  <2>3. Power(2)[k] \in Nat /\ Power(2)[k] - 0 = Power(2)[k] /\ 0 <= Power(2)[k]
    BY <2>1, TwoPower
  <2>4. PowMod(g, PowerOfTwo(k, 0), n) = Sq(g, Power(2)[k] - 0)
    BY <1>5, <2>1, <2>3, ShortCut, 0 \in Nat
  <2>5. Sq(g, Power(2)[k]) \in 0 .. n - 1
    BY <1>5, <2>3, SquaringsArePower
  <2> QED
    BY <2>2, <2>3, <2>4, <2>5
<1>10. Len(c) = K + 1 /\ c \in Seq(Residues)
  <2>1. c = [k \in 1 .. K + 1 |-> c[k]]
    BY DEF Chain
  <2>2. ASSUME NEW k \in 1 .. K + 1 PROVE c[k] \in Residues
    <3>1. k - 1 \in 0 .. K /\ (k - 1) + 1 = k
      BY <1>2
    <3>2. c[(k - 1) + 1] \in 0 .. n - 1
      BY <1>9, <3>1
    <3> QED
      BY <3>1, <3>2 DEF Residues
  <2> HIDE DEF c, K
  <2>3. c \in [1 .. K + 1 -> Residues] /\ K + 1 \in Nat
    BY <1>2, <2>1, <2>2
  <2> QED
    BY <2>3
<1> HIDE DEF c
<1>11. c[1] = PowMod(g, 2, n) /\ c[2] = PowMod(g, 4, n) /\ c[K + 1] = u
  <2>1. c[0 + 1] = Sq(g, Power(2)[0]) /\ c[1 + 1] = Sq(g, Power(2)[1])
        /\ c[K + 1] = Sq(g, Power(2)[K])
    <3>1. 0 \in 0 .. K /\ 1 \in 0 .. K /\ K \in 0 .. K
      BY <1>2
    <3> QED
      BY <1>9, <3>1
  <2>2. Power(2)[0] = 1 /\ Power(2)[1] = 2 /\ Power(2)[1 + 1] = 2 * Power(2)[1]
    BY TwoPower, 1 \in Nat
  <2>3. PowMod(g, 2, n) = Power(g)[2] % n /\ PowMod(g, 4, n) = Power(g)[4] % n
    BY <1>5, Numbers, PowModIsPower, 2 \in Nat, 4 \in Nat
  <2>4. Sq(g, 1) = Power(g)[2] % n /\ Sq(g, 2) = Power(g)[4] % n
    BY <2>2 DEF Sq
  <2> QED
    BY <2>1, <2>2, <2>3, <2>4 DEF u
<1>12. /\ order' = find_order(g)
       /\ com' = [K |-> K, h |-> h, g |-> g, u |-> u, S |-> Mask(m, v), W |-> c]
       /\ pc' = "accept"
  <2> HIDE DEF K
  <2> QED
    BY <1>3, <1>6, <1>7, <1>8, <1>11 DEF g, c
<1>13. /\ com'.K = K /\ com'.h = h /\ com'.g = g /\ com'.u = u
       /\ com'.S = Mask(m, v) /\ com'.W = c
  BY <1>12
<1>14. Mask(m, v) \in Seq({0, 1})
  BY <1>2, <1>8, MaskBack
<1>15. order' \in 1 .. phi /\ (Unit(g) => PowMod(g, order', n) = 1)
  BY <1>5, <1>12, OrderIs
<1>16. TypeOK'
  <2>1. h \in Residues /\ g \in Residues /\ u \in Residues
    BY <1>5, <1>8, Numbers DEF Residues
  <2>2. /\ K \in Ks /\ m \in Messages
        /\ values \in [1 .. K -> 0 .. R]
        /\ commits \in [1 .. K -> {<<>>} \union {regular_commit(x) : x \in 0 .. R}]
        /\ alpha \in [1 .. K -> 0 .. phi]
        /\ via \in {"none", "open", "force", "smart"} /\ result \in Seq({0, 1})
    BY <1>1 DEF TypeOK
  <2> HIDE DEF K
  <2>3. (com.h \in Residues /\ com.g \in Residues /\ com.u \in Residues)'
    BY <1>13, <2>1 DEF Residues
  <2>4. (com.S \in Seq({0, 1}) /\ com.W \in Seq(Residues))'
    BY <1>10, <1>13, <1>14 DEF Residues
  <2>5. (/\ com.K \in Ks /\ m \in Messages
         /\ values \in [1 .. com.K -> 0 .. R]
         /\ commits \in [1 .. com.K -> {<<>>} \union {regular_commit(x) : x \in 0 .. R}]
         /\ alpha \in [1 .. com.K -> 0 .. phi]
         /\ via \in {"none", "open", "force", "smart"} /\ result \in Seq({0, 1}))'
    BY <1>4, <1>13, <2>2
  <2> QED
    BY <1>12, <1>15, <2>3, <2>4, <2>5 DEF TypeOK
<1>17. ComInv'
  <2>1. l' = l
    BY <1>4 DEF l
  <2>2. u0' = v
    BY <1>13, <2>1 DEF u0, v
  <2> HIDE DEF K
  <2>3. (\A k \in 0 .. com.K : W(k) = Sq(com.g, Power(2)[k]))'
    BY <1>9, <1>13 DEF W, c
  <2>4. Len(com'.W) = com'.K + 1
    BY <1>10, <1>13
  <2>5. com'.S = Mask(m', u0')
    BY <1>4, <1>13, <2>2
  <2>6. com'.u = Sq(com'.g, Power(2)[com'.K]) /\ com'.g = get_g(n, com'.h)
    BY <1>13 DEF u, g
  <2>7. com'.h \in 2 .. n - 1
    BY <1>13
  <2> QED
    BY <2>3, <2>4, <2>5, <2>6, <2>7 DEF ComInv
<1>18. OrderReduces'
  <2> SUFFICES ASSUME GCD(com'.h, n) = 1 PROVE PowMod(com'.g, order', n) = 1
    BY DEF OrderReduces
  <2>1. Unit(com'.g)
    <3>1. Unit(h)
      BY <1>5, <1>13, GcdOne DEF Unit
    <3>2. Unit(Power(h)[mult] % n)
      BY <1>5, <3>1, MultIsEven, UnitPower
    <3> QED
      BY <1>5, <1>13, <3>2, BaseIs DEF g
  <2> QED
    BY <1>13, <1>15, <2>1
<1>19. CommitsInv' /\ OpensToMessage' /\ HonestNeverThrows'
  BY <1>12 DEF CommitsInv, OpensToMessage, HonestNeverThrows
<1> QED
  BY <1>16, <1>17, <1>18, <1>19 DEF IInv

\* What commit made, the receiver accepts.
LEMMA AcceptIInv == IInv /\ Accept => IInv'
<1> SUFFICES ASSUME IInv, Accept PROVE IInv'
  OBVIOUS
<1>1. /\ pc = "accept" /\ UNCHANGED <<m, com, order, values, commits, alpha, via, result>>
      /\ pc' = IF /\ com.g = get_g(n, com.h)
                  /\ Len(com.W) = com.K + 1
                  /\ W(0) = PowMod(com.g, 2, n) /\ W(com.K) = com.u
               THEN "zk_1" ELSE "threw"
  BY DEF Accept
<1>2. TypeOK /\ ComInv
  BY DEF IInv
<1>3. com.K \in Nat \ {0} /\ com.g \in Nat
  BY <1>1, <1>2, MessageIs, Committed
<1>4. /\ com.g = get_g(n, com.h) /\ com.u = Sq(com.g, Power(2)[com.K])
      /\ Len(com.W) = com.K + 1
      /\ \A k \in 0 .. com.K : W(k) = Sq(com.g, Power(2)[k])
  BY <1>1, <1>2 DEF ComInv
<1>5. W(0) = PowMod(com.g, 2, n)
  <2>1. W(0) = Sq(com.g, Power(2)[0]) /\ Power(2)[0] = 1 /\ Power(2)[1] = 2
    <3>1. 0 \in 0 .. com.K
      BY <1>3
    <3> QED
      BY <1>4, <3>1, TwoPower, 1 \in Nat
  <2>2. PowMod(com.g, 2, n) = Power(com.g)[2] % n
    BY <1>3, Numbers, PowModIsPower, 2 \in Nat
  <2> QED
    BY <2>1, <2>2 DEF Sq
<1>6. W(com.K) = com.u
  BY <1>3, <1>4
<1>7. pc' = "zk_1"
  BY <1>1, <1>4, <1>5, <1>6
<1>8. /\ values' \in [1 .. com.K -> 0 .. R]
      /\ commits' \in [1 .. com.K -> {<<>>} \union {regular_commit(v) : v \in 0 .. R}]
      /\ alpha' \in [1 .. com.K -> 0 .. phi]
      /\ via' \in {"none", "open", "force", "smart"} /\ result' \in Seq({0, 1})
  BY <1>1, <1>2 DEF TypeOK
<1>9. CommitsInv' /\ OpensToMessage' /\ HonestNeverThrows'
  BY <1>7 DEF CommitsInv, OpensToMessage, HonestNeverThrows
<1> QED
  BY <1>1, <1>7, <1>8, <1>9, StepIInv

\* Draws are in their range.
LEMMA DrawsInRange ==
  ASSUME NEW b \in Nat
  PROVE  Draws(b) \subseteq 0 .. b
<1>1. ASSUME NEW v \in Samples PROVE v % (b + 1) \in 0 .. b
  <2>1. v \in Int /\ b + 1 \in Nat \ {0} /\ (b + 1) - 1 = b
    BY TimedCommitmentAssumption
  <2> QED
    BY <2>1
<1> QED
  BY <1>1 DEF Draws

\* The receiver draws its values and commits to them.
LEMMA Zk1IInv == IInv /\ Zk1 => IInv'
<1> SUFFICES ASSUME IInv, Zk1 PROVE IInv'
  OBVIOUS
<1>1. /\ pc = "zk_1" /\ pc' = "zk_2" /\ UNCHANGED <<m, com, order, alpha, via, result>>
      /\ values' \in [1 .. com.K -> Draws(R)]
      /\ commits' = [k \in 1 .. com.K |-> regular_commit(values'[k])]
  BY DEF Zk1
<1>2. TypeOK
  BY DEF IInv
<1>3. Draws(R) \subseteq 0 .. R
  BY TimedCommitmentAssumption, DrawsInRange
<1>4. values' \in [1 .. com.K -> 0 .. R]
  BY <1>1, <1>3
<1>5. commits' \in [1 .. com.K -> {<<>>} \union {regular_commit(v) : v \in 0 .. R}]
  BY <1>1, <1>4
<1>6. /\ alpha' \in [1 .. com.K -> 0 .. phi]
      /\ via' \in {"none", "open", "force", "smart"} /\ result' \in Seq({0, 1})
  BY <1>1, <1>2 DEF TypeOK
<1>7. CommitsInv' /\ OpensToMessage' /\ HonestNeverThrows'
  BY <1>1 DEF CommitsInv, OpensToMessage, HonestNeverThrows
<1> QED
  BY <1>1, <1>4, <1>5, <1>6, <1>7, StepIInv

\* The commiter draws alpha.
LEMMA Zk2IInv == IInv /\ Zk2 => IInv'
<1> SUFFICES ASSUME IInv, Zk2 PROVE IInv'
  OBVIOUS
<1>1. /\ pc = "zk_2" /\ pc' = "zk_4"
      /\ UNCHANGED <<m, com, order, values, commits, via, result>>
      /\ alpha' \in [1 .. com.K -> Draws(order - 1)]
  BY DEF Zk2
<1>2. TypeOK /\ CommitsInv
  BY DEF IInv
<1>3. Draws(order - 1) \subseteq 0 .. phi
  <2>1. order \in 1 .. phi
    BY <1>2 DEF TypeOK
  <2>2. order - 1 \in Nat /\ order - 1 <= phi
    BY <2>1, Numbers
  <2>3. Draws(order - 1) \subseteq 0 .. order - 1
    BY <2>2, DrawsInRange
  <2> QED
    BY <2>2, <2>3, Numbers
<1>4. alpha' \in [1 .. com.K -> 0 .. phi]
  BY <1>1, <1>3
<1>5. /\ values' \in [1 .. com.K -> 0 .. R]
      /\ commits' \in [1 .. com.K -> {<<>>} \union {regular_commit(v) : v \in 0 .. R}]
      /\ via' \in {"none", "open", "force", "smart"} /\ result' \in Seq({0, 1})
  BY <1>1, <1>2 DEF TypeOK
<1>6. CommitsInv' /\ OpensToMessage' /\ HonestNeverThrows'
  BY <1>1, <1>2 DEF CommitsInv, OpensToMessage, HonestNeverThrows
<1> QED
  BY <1>1, <1>4, <1>5, <1>6, StepIInv

\* The revealed values are those the commiter has commitments to.
LEMMA Zk4IInv == IInv /\ Zk4 => IInv'
<1> SUFFICES ASSUME IInv, Zk4 PROVE IInv'
  OBVIOUS
<1>1. /\ pc = "zk_4" /\ UNCHANGED <<m, com, order, values, commits, alpha, via, result>>
      /\ pc' = IF \A k \in 1 .. com.K : regular_verify(commits[k], values[k])
               THEN "zk_5" ELSE "threw"
  BY DEF Zk4
<1>2. TypeOK /\ CommitsInv
  BY DEF IInv
<1>3. pc' = "zk_5"
  BY <1>1, <1>2 DEF CommitsInv, regular_verify
<1>4. /\ values' \in [1 .. com.K -> 0 .. R]
      /\ commits' \in [1 .. com.K -> {<<>>} \union {regular_commit(v) : v \in 0 .. R}]
      /\ alpha' \in [1 .. com.K -> 0 .. phi]
      /\ via' \in {"none", "open", "force", "smart"} /\ result' \in Seq({0, 1})
  BY <1>1, <1>2 DEF TypeOK
<1>5. CommitsInv' /\ OpensToMessage' /\ HonestNeverThrows'
  BY <1>3 DEF CommitsInv, OpensToMessage, HonestNeverThrows
<1> QED
  BY <1>1, <1>3, <1>4, <1>5, StepIInv

\* The receiver is convinced, unless h shares a factor with n.
LEMMA Zk5IInv == IInv /\ Zk5 => IInv'
<1> SUFFICES ASSUME IInv, Zk5 PROVE IInv'
  OBVIOUS
<1>1. /\ pc = "zk_5" /\ UNCHANGED <<m, com, order, values, commits, alpha, via, result>>
      /\ pc' = IF \A k \in 1 .. com.K : /\ Verifies(com.g, W(k - 1), k)
                                        /\ Verifies(W(k - 1), W(k), k)
               THEN "committed" ELSE "threw"
  BY DEF Zk5
<1>2. TypeOK /\ ComInv /\ OrderReduces
  BY DEF IInv
<1>3. com.K \in Nat \ {0} /\ com.g \in Nat /\ (GCD(com.h, n) = 1 => Unit(com.g))
  BY <1>1, <1>2, MessageIs, Committed
<1>4. \A k \in 0 .. com.K : W(k) = Sq(com.g, Power(2)[k])
  BY <1>1, <1>2 DEF ComInv
<1>5. ASSUME GCD(com.h, n) = 1, NEW k \in 1 .. com.K
      PROVE  /\ Verifies(com.g, W(k - 1), k)
             /\ Verifies(W(k - 1), W(k), k)
  <2>1. k \in Nat \ {0} /\ k - 1 \in 0 .. com.K /\ k \in 0 .. com.K /\ k - 1 \in Nat
        /\ (k - 1) + 1 = k
    BY <1>3
  <2>2. order \in Nat \ {0} /\ values[k] \in Nat /\ alpha[k] \in Nat
    <3>1. /\ order \in 1 .. phi
          /\ values \in [1 .. com.K -> 0 .. R] /\ alpha \in [1 .. com.K -> 0 .. phi]
      BY <1>2 DEF TypeOK
    <3>2. values[k] \in 0 .. R /\ alpha[k] \in 0 .. phi
      BY <1>5, <3>1
    <3>3. phi \in Nat /\ R \in Nat
      BY Numbers, TimedCommitmentAssumption
    <3> HIDE DEF phi
    <3> QED
      BY <3>1, <3>2, <3>3
  <2> DEFINE g == com.g
             s == Power(2)[Power(2)[k - 1]]
             t == Power(2)[k - 1]
             a == Sq(g, t)
  <2>3. W(k - 1) = a /\ W(k) = Sq(g, Power(2)[k])
    BY <1>4, <2>1
  <2>4. t \in Nat /\ s \in Nat /\ Power(2)[k] = t + t
    <3>1. t \in Nat /\ Power(2)[(k - 1) + 1] = 2 * t
      BY <2>1, TwoPower
    <3>2. s \in Nat
      BY <3>1, TwoPower
    <3> QED
      BY <2>1, <3>1, <3>2
  <2>5. g \in Nat /\ Unit(g) /\ PowMod(g, order, n) = 1
    BY <1>1, <1>2, <1>3, <1>5 DEF OrderReduces
  <2> HIDE DEF g
  <2>6. Cong(n, Power(g)[order], 1) /\ Power(g)[order] \in Nat
    <3>1. PowMod(g, order, n) = Power(g)[order] % n /\ Power(g)[order] \in Nat
      BY <2>2, <2>5, Numbers, PowModIsPower, PowerStep
    <3>2. 1 % n = 1
      BY Numbers, ModSmall
    <3>3. Power(g)[order] % n = 1 % n
      BY <2>5, <3>1, <3>2
    <3> QED
      BY <3>1, <3>3, ModN, 1 \in Nat
  <2>7. Verifies(g, a, k)
    BY <2>1, <2>2, <2>5, <2>6, Convinced
  <2>8. a \in Nat /\ Unit(a) /\ a = Power(g)[s] % n
    <3>1. a = Power(g)[s] % n
      BY DEF Sq
    <3>2. a \in Nat
      BY <2>4, <2>5, SquaringsArePower
    <3> HIDE DEF a, s
    <3>3. Unit(Power(g)[s] % n)
      BY <2>4, <2>5, UnitPower
    <3> QED
      BY <3>1, <3>2, <3>3
  <2> HIDE DEF s
  <2>9. Cong(n, Power(a)[order], 1)
    <3>1. Power(g)[s] \in Nat /\ Power(a)[order] \in Nat
      BY <2>2, <2>4, <2>5, <2>8, PowerStep
    <3>2. Power(a)[order] % n = Power(Power(g)[s])[order] % n
      BY <2>2, <2>8, <3>1, PowerReduced
    <3>3. Power(Power(g)[s])[order] = Power(g)[s * order]
      BY <2>2, <2>4, <2>5, PowerTimes
    <3>4. Power(Power(g)[order])[s] = Power(g)[order * s]
      BY <2>2, <2>4, <2>5, PowerTimes
    <3>5. s * order = order * s
      BY <2>2, <2>4
    <3>6. Cong(n, Power(Power(g)[order])[s], 1)
      <4>1. Cong(n, Power(Power(g)[order])[s], Power(1)[s])
        BY <2>4, <2>6, Numbers, CongPower, 1 \in Nat
      <4> QED
        BY <2>4, <4>1, PowerOfOne
    <3>7. Power(Power(g)[order])[s] \in Nat
      BY <2>4, <2>6, PowerStep
    <3>8. Power(Power(g)[order])[s] % n = 1 % n
      BY <3>6, <3>7, ModN, 1 \in Nat
    <3>9. Power(a)[order] % n = 1 % n
      BY <3>2, <3>3, <3>4, <3>5, <3>8
    <3> QED
      BY <3>1, <3>9, ModN, 1 \in Nat
  <2>10. Verifies(a, Sq(a, t), k)
    BY <2>1, <2>2, <2>8, <2>9, Convinced
  <2>11. Sq(a, t) = W(k)
    <3> HIDE DEF g, t
    <3>1. Sq(Sq(g, t), t) = Sq(g, t + t)
      BY <2>4, <2>5, SqSq
    <3> QED
      BY <2>3, <2>4, <3>1
  <2>12. Verifies(com.g, W(k - 1), k)
    BY <2>3, <2>7 DEF g
  <2>13. Verifies(W(k - 1), W(k), k)
    BY <2>3, <2>10, <2>11
  <2> QED
    BY <2>12, <2>13
<1>6. pc' \in {"committed", "threw"} /\ (pc' = "threw" => GCD(com.h, n) # 1)
  BY <1>1, <1>5
<1>7. /\ values' \in [1 .. com.K -> 0 .. R]
      /\ commits' \in [1 .. com.K -> {<<>>} \union {regular_commit(v) : v \in 0 .. R}]
      /\ alpha' \in [1 .. com.K -> 0 .. phi]
      /\ via' \in {"none", "open", "force", "smart"} /\ result' \in Seq({0, 1})
  BY <1>1, <1>2 DEF TypeOK
<1>8. CommitsInv' /\ OpensToMessage' /\ HonestNeverThrows'
  BY <1>1, <1>6 DEF CommitsInv, OpensToMessage, HonestNeverThrows
<1> QED
  BY <1>1, <1>6, <1>7, <1>8, StepIInv

\* An opening decodes a number v. A square that passes the comparison with
\* com.u is u0, so that the bits are the message's; u0 passes.
LEMMA OpenStep ==
  ASSUME IInv, pc = "committed",
         UNCHANGED <<m, com, order, values, commits, alpha>>,
         via' \in {"open", "force", "smart"},
         NEW v \in 0 .. n - 1, Square(v), decode(v),
         v = u0 \/ (via' = "smart" /\ l > Power(2)[com.K - 1])
  PROVE  IInv'
<1>1. TypeOK /\ ComInv
  BY DEF IInv
<1>2. /\ Len(com.S) = l /\ com.S = Mask(m, u0) /\ Sq(u0, l) = com.u
      /\ u0 \in 0 .. n - 1 /\ u0 \in Nat /\ Square(u0)
  BY <1>1, Committed
<1>3. l \in Nat /\ m \in Seq({0, 1}) /\ v \in Nat
  BY <1>1, MessageIs, Numbers
<1>4. Squared(v, Len(com.S)) = Sq(v, l)
  BY <1>2, <1>3, SquaringsArePower
<1>5. m' = m /\ com' = com
  OBVIOUS
<1>6. CASE Sq(v, l) = com.u
  <2>1. pc' = "opened" /\ result' = Mask(com.S, v)
    BY <1>4, <1>6 DEF decode
  <2>2. v = u0
    BY <1>2, <1>3, <1>6, RootsUnique
  <2>3. result' = m
    BY <1>2, <1>3, <2>1, <2>2, MaskBack
  <2>4. /\ values' \in [1 .. com.K -> 0 .. R]
        /\ commits' \in [1 .. com.K -> {<<>>} \union {regular_commit(x) : x \in 0 .. R}]
        /\ alpha' \in [1 .. com.K -> 0 .. phi] /\ result' \in Seq({0, 1})
    BY <1>1, <1>3, <2>3 DEF TypeOK
  <2>5. CommitsInv' /\ OpensToMessage' /\ HonestNeverThrows'
    BY <1>5, <2>1, <2>3 DEF CommitsInv, OpensToMessage, HonestNeverThrows
  <2> QED
    BY <2>1, <2>4, <2>5, StepIInv
<1>7. CASE Sq(v, l) # com.u
  <2>1. pc' = "threw" /\ result' = result
    BY <1>4, <1>7 DEF decode
  <2>2. via' = "smart" /\ l > Power(2)[com.K - 1]
    BY <1>2, <1>7
  <2>3. /\ values' \in [1 .. com.K -> 0 .. R]
        /\ commits' \in [1 .. com.K -> {<<>>} \union {regular_commit(x) : x \in 0 .. R}]
        /\ alpha' \in [1 .. com.K -> 0 .. phi] /\ result' \in Seq({0, 1})
    BY <1>1, <2>1 DEF TypeOK
  <2>4. CommitsInv' /\ OpensToMessage' /\ HonestNeverThrows'
    BY <1>5, <2>1, <2>2 DEF CommitsInv, OpensToMessage, HonestNeverThrows, l
  <2> QED
    BY <2>1, <2>3, <2>4, StepIInv
<1> QED
  BY <1>6, <1>7

\* The commiter's value is a root of h, from which get_g makes u0.
LEMMA OpenIInv == IInv /\ Open => IInv'
<1> SUFFICES ASSUME IInv, Open PROVE IInv'
  OBVIOUS
<1> DEFINE v == get_g(n, PowMod(com.h, PowerOfTwo(com.K, l), n))
<1>1. /\ pc = "committed" /\ via' = "open" /\ decode(v)
      /\ UNCHANGED <<m, com, order, values, commits, alpha>>
  BY DEF Open
<1>2. TypeOK /\ ComInv
  BY DEF IInv
<1>3. /\ com.K \in Nat /\ l \in Nat /\ l <= Power(2)[com.K]
      /\ Power(2)[com.K] - l \in Nat
  BY <1>2, MessageIs
<1>4. /\ com.h \in Nat /\ com.g = get_g(n, com.h)
      /\ u0 \in 0 .. n - 1 /\ Square(u0)
  BY <1>1, <1>2, Committed
<1>5. PowMod(com.h, PowerOfTwo(com.K, l), n) = Sq(com.h, Power(2)[com.K] - l)
  BY <1>3, <1>4, ShortCut
<1>6. v = u0
  BY <1>3, <1>4, <1>5, BaseOfRoot DEF u0
<1> HIDE DEF v
<1> QED
  BY <1>1, <1>4, <1>6, OpenStep

\* The bound of the loops.
LEMMA SquaringsAre ==
  ASSUME NEW K \in Nat, Len(com.S) = l, l \in Nat
  PROVE  /\ l <= Power(2)[K] => Squarings(K) = Power(2)[K] - l
         /\ l > Power(2)[K] => Squarings(K) = 0
<1> DEFINE x == Power(2)[K] - l
<1>1. Power(2)[K] \in Nat /\ x \in Int
  <2>1. Power(2)[K] \in Nat
    BY TwoPower
  <2> QED
    BY <2>1
<1>2. Squarings(K) = Max({x, 0})
  BY DEF Squarings
<1>3. x >= 0 <=> l <= Power(2)[K]
  BY <1>1
<1> HIDE DEF x
<1>4. \E y \in {x, 0} : \A z \in {x, 0} : y >= z
  BY <1>1
<1>5. Max({x, 0}) \in {x, 0} /\ \A z \in {x, 0} : Max({x, 0}) >= z
  BY <1>4 DEF Max
<1>6. x >= 0 => Max({x, 0}) = x
  BY <1>1, <1>5
<1>7. x < 0 => Max({x, 0}) = 0
  BY <1>1, <1>5
<1> QED
  BY <1>1, <1>2, <1>3, <1>6, <1>7 DEF x

\* The receiver's squarings from g end at u0.
LEMMA ForceOpenIInv == IInv /\ ForceOpen => IInv'
<1> SUFFICES ASSUME IInv, ForceOpen PROVE IInv'
  OBVIOUS
<1> DEFINE v == SquareFrom(com.g, Squarings(com.K))
<1>1. /\ pc = "committed" /\ via' = "force" /\ decode(v)
      /\ UNCHANGED <<m, com, order, values, commits, alpha>>
  BY DEF ForceOpen
<1>2. TypeOK /\ ComInv
  BY DEF IInv
<1>3. /\ com.K \in Nat /\ l \in Nat /\ l <= Power(2)[com.K]
      /\ Power(2)[com.K] - l \in Nat
  BY <1>2, MessageIs
<1>4. /\ com.g \in 0 .. n - 1 /\ Len(com.S) = l
      /\ u0 \in 0 .. n - 1 /\ Square(u0)
  BY <1>1, <1>2, Committed
<1>5. Squarings(com.K) = Power(2)[com.K] - l
  BY <1>3, <1>4, SquaringsAre
<1>6. v = u0
  BY <1>3, <1>4, <1>5, SquareFromIs DEF u0
<1> HIDE DEF v
<1> QED
  BY <1>1, <1>4, <1>6, OpenStep

\* So do those from W(K - 1), unless the message is too long: then there are
\* none, and what is decoded is a square all the same.
LEMMA ForceOpenSmartIInv == IInv /\ ForceOpenSmart => IInv'
<1> SUFFICES ASSUME IInv, ForceOpenSmart PROVE IInv'
  OBVIOUS
<1> DEFINE k == com.K - 1
           t == Power(2)[k]
           s == Squarings(k)
           v == SquareFrom(W(k), s)
<1>1. /\ pc = "committed" /\ via' = "smart" /\ decode(v)
      /\ UNCHANGED <<m, com, order, values, commits, alpha>>
  BY DEF ForceOpenSmart
<1>2. TypeOK /\ ComInv
  BY DEF IInv
<1>3. /\ com.K \in Nat \ {0} /\ l \in Nat /\ l <= Power(2)[com.K]
      /\ k \in Nat /\ k \in 0 .. com.K /\ k + 1 = com.K
  BY <1>2, MessageIs
<1>4. /\ com.g \in Nat /\ Len(com.S) = l /\ Square(com.g)
      /\ u0 \in 0 .. n - 1 /\ Square(u0)
  BY <1>1, <1>2, Committed
<1>5. W(k) = Sq(com.g, t)
  BY <1>1, <1>2, <1>3 DEF ComInv
<1>6. t \in Nat /\ Power(2)[com.K] = t + t
  <2>1. t \in Nat /\ Power(2)[k + 1] = 2 * t
    BY <1>3, TwoPower
  <2> QED
    BY <1>3, <2>1
<1>7. /\ l <= t => s = t - l
      /\ l > t => s = 0
  BY <1>3, <1>4, SquaringsAre
<1>8. W(k) \in 0 .. n - 1 /\ W(k) \in Nat
  BY <1>4, <1>5, <1>6, SquaringsArePower
<1> HIDE DEF s, t, k
<1>9. s \in Nat
  BY <1>3, <1>6, <1>7
<1>10. v = Sq(com.g, t + s)
  <2>1. v = Sq(W(k), s)
    BY <1>8, <1>9, SquareFromIs
  <2>2. Sq(Sq(com.g, t), s) = Sq(com.g, t + s)
    BY <1>4, <1>6, <1>9, SqSq
  <2> HIDE DEF v
  <2> QED
    BY <1>5, <2>1, <2>2
<1> HIDE DEF v
<1>11. v \in 0 .. n - 1 /\ Square(v)
  <2>1. t + s \in Nat
    BY <1>6, <1>9
  <2> QED
    BY <1>4, <1>10, <2>1, SquaringsArePower, SqIsSquare
<1>12. l <= t => v = u0
  <2> SUFFICES ASSUME l <= t PROVE v = u0
    OBVIOUS
  <2>1. t + s = Power(2)[com.K] - l
    BY <1>3, <1>6, <1>7
  <2> QED
    BY <1>10, <2>1 DEF u0
<1>13. l <= t \/ l > t
  BY <1>3, <1>6
<1>14. v = u0 \/ (via' = "smart" /\ l > Power(2)[com.K - 1])
  BY <1>1, <1>12, <1>13 DEF t, k
<1> QED
  BY <1>1, <1>11, <1>14, OpenStep

\* A step that changes nothing keeps it.
LEMMA StutterIInv == IInv /\ UNCHANGED vars => IInv'
<1> SUFFICES ASSUME IInv, UNCHANGED vars PROVE IInv'
  OBVIOUS
<1>1. UNCHANGED <<pc, m, com, order, values, commits, alpha, via, result>>
  BY DEF vars
<1>2. TypeOK'
  BY <1>1 DEF IInv, TypeOK, Residues
<1>3. ComInv' /\ CommitsInv'
  BY <1>1 DEF IInv, ComInv, CommitsInv, u0, l, W
<1>4. OpensToMessage' /\ HonestNeverThrows' /\ OrderReduces'
  BY <1>1 DEF IInv, OpensToMessage, HonestNeverThrows, OrderReduces, l
<1> QED
  BY <1>2, <1>3, <1>4 DEF IInv

\* Every step keeps the invariant.
LEMMA NextIInv == IInv /\ [Next]_vars => IInv'
BY CommitIInv, AcceptIInv, Zk1IInv, Zk2IInv, Zk4IInv, Zk5IInv, OpenIInv,
   ForceOpenIInv, ForceOpenSmartIInv, StutterIInv DEF Next

\* The inductive invariant.
THEOREM Invariance == Spec => []IInv
BY InitIInv, NextIInv, PTL DEF Spec

\* Every number stays in its range: residues below n, the receiver's values
\* at most R, alpha and order at most phi, bits and digests.
THEOREM TypeCorrect == Spec => []TypeOK
<1>1. IInv => TypeOK
  BY DEF IInv
<1> QED
  BY <1>1, Invariance, PTL

\* The receiver never gets other bits than those committed to, neither from
\* the commiter's value nor from its own squarings, and not even where the
\* loop of force_open_smart (timed_commitment.cpp:313) runs too short.
THEOREM OpensRight == Spec => []OpensToMessage
<1>1. IInv => OpensToMessage
  BY DEF IInv
<1> QED
  BY <1>1, Invariance, PTL

\* No sanity check of commit, no check of accept_commitment, of the proof or
\* of an opening fails between honest parties, but where h shares a factor
\* with n or the fast opening is used for a message longer than half the
\* squarings.
THEOREM HonestPasses == Spec => []HonestNeverThrows
<1>1. IInv => HonestNeverThrows
  BY DEF IInv
<1> QED
  BY <1>1, Invariance, PTL

\* Although find_order divides by (p2-2)/2 and so misses the order, exponents
\* of g may be reduced by what it returns.
THEOREM OrderSuffices == Spec => []OrderReduces
<1>1. IInv => OrderReduces
  BY DEF IInv
<1> QED
  BY <1>1, Invariance, PTL
=============================================================================
