----------------------- MODULE SellInformation_proofs -----------------------
(***************************************************************************)
(* What the exchange of roots keeps in every run, for all primes, numbers  *)
(* of squares and draws. First the arithmetic: the four roots of a square  *)
(* are c, n-c, d and n-d for the numbers c and d that the Chinese          *)
(* remainder theorem gives, so that the two smaller ones are one of each,  *)
(* the buyer's is among them, and their sum and their difference each      *)
(* share one prime with n. Then the inductive invariant IInv.              *)
(***************************************************************************)
EXTENDS SellInformation, Arithmetic

\* The seller's modulus is odd, and its factors are different primes.
LEMMA Modulus ==
  /\ p \in Nat /\ q \in Nat /\ n \in Nat /\ n \in Int /\ n = p * q
  /\ p > 2 /\ q > 2 /\ p # q /\ n > p /\ n > q
  /\ IsPrime(p) /\ IsPrime(q)
  /\ n \div 2 \in Nat /\ n = 2 * (n \div 2) + 1
<1>1. /\ p \in Nat /\ q \in Nat /\ p > 2 /\ q > 2 /\ p # q
      /\ IsPrime(p) /\ IsPrime(q)
  BY SellInformationAssumption DEF IsPrime
<1>2. n \in Nat /\ n = p * q
  BY <1>1 DEF n
<1>3. n > p /\ n > q
  <2>1. p * q >= p * 2 /\ p * q >= 2 * q
    BY <1>1
  <2> QED
    BY <1>1, <1>2, <2>1
<1>4. p % 2 = 1 /\ q % 2 = 1
  BY <1>1 DEF IsPrime
<1>5. n = 2 * (n \div 2) + 1
  <2> DEFINE h == p \div 2
             k == q \div 2
  <2>1. h \in Int /\ k \in Int /\ p = 2 * h + 1 /\ q = 2 * k + 1
    BY <1>1, <1>4
  <2> HIDE DEF h, k
  <2>2. p * q = 2 * (2 * h * k + h + k) + 1 /\ 2 * h * k + h + k \in Int
    BY <2>1
  <2> QED
    BY <1>2, <2>2
<1> QED
  BY <1>1, <1>2, <1>3, <1>5

\* Neither prime divides the other.
LEMMA Coprime ==
  /\ ~Cong(p, q, 0) /\ ~Cong(q, p, 0)
<1>1. ASSUME NEW a, NEW b, IsPrime(a), IsPrime(b), a # b, Cong(a, b, 0)
      PROVE  FALSE
  <2>1. a \in Nat \ {0} /\ b \in Int /\ a > 1 /\ b > 1
    BY <1>1 DEF IsPrime
  <2>2. b % a = 0
    BY <1>1, <2>1, Divides, Zenon
  <2>3. PICK t \in Int : b = 0 + a * t
    BY <1>1 DEF Cong
  <2>4. t >= 1 => a * t >= a
    BY <2>1
  <2>5. t <= 0 => a * t <= 0
    BY <2>1
  <2>6. a < b
    BY <1>1, <2>1, <2>3, <2>4, <2>5
  <2> QED
    BY <1>1, <2>1, <2>2, <2>6 DEF IsPrime
<1> QED
  BY <1>1, Modulus, Zenon

\* What both primes divide the modulus divides.
LEMMA BothPrimes ==
  ASSUME NEW d \in Int
  PROVE  Cong(n, d, 0) <=> Cong(p, d, 0) /\ Cong(q, d, 0)
<1>0. p \in Int /\ q \in Int /\ n = p * q
  BY Modulus
<1>1. ASSUME Cong(p, d, 0), Cong(q, d, 0) PROVE Cong(n, d, 0)
  <2>1. PICK t \in Int : d = 0 + p * t
    BY <1>1 DEF Cong
  <2>2. Cong(q, p * t, 0)
    <3>1. d = p * t
      BY <1>0, <2>1
    <3> QED
      BY <1>1, <3>1
  <2>3. Cong(q, t, 0)
    BY <1>0, <2>2, PrimeProduct, Coprime, Modulus, Zenon
  <2>4. PICK u \in Int : t = 0 + q * u
    BY <2>3 DEF Cong
  <2>5. d = 0 + (p * q) * u
    BY <1>0, <2>1, <2>4
  <2> QED
    BY <1>0, <2>5 DEF Cong
<1>2. ASSUME Cong(n, d, 0) PROVE Cong(p, d, 0) /\ Cong(q, d, 0)
  <2>1. PICK t \in Int : d = 0 + n * t
    BY <1>2 DEF Cong
  <2>2. /\ d = 0 + p * (q * t) /\ q * t \in Int
        /\ d = 0 + q * (p * t) /\ p * t \in Int
    BY <1>0, <2>1
  <2> QED
    BY <2>2 DEF Cong
<1> QED
  BY <1>1, <1>2

\* A multiple of the modulus that is smaller is 0.
LEMMA Small ==
  ASSUME NEW d \in Int, -n < d, d < n, Cong(n, d, 0)
  PROVE  d = 0
<1>1. PICK t \in Int : d = 0 + n * t
  BY DEF Cong
<1>2. n \in Nat
  BY Modulus
<1>3. t >= 1 => n * t >= n
  BY <1>2
<1>4. t <= -1 => n * t <= -n
  BY <1>2
<1> QED
  BY <1>1, <1>2, <1>3, <1>4

\* The divisors of the modulus.
LEMMA Divisors ==
  ASSUME NEW d \in Nat \ {0}, Cong(d, n, 0)
  PROVE  d \in {1, p, q, n}
<1>0. p \in Nat /\ q \in Nat /\ p > 2 /\ q > 2 /\ n = p * q /\ 0 \in Int
  BY Modulus
<1>1. PICK e \in Int : n = 0 + d * e
  BY DEF Cong
<1>2. p * q = d * e /\ d * e \in Int /\ d \in Int
  BY <1>0, <1>1
<1>3. ASSUME NEW a, IsPrime(a), NEW b \in Nat \ {0}, NEW c \in Int, a = b * c
      PROVE  b \in {1, a}
  <2>1. a \in Nat /\ a > 1
    BY <1>3 DEF IsPrime
  <2>2. c >= 1
    <3>1. c <= 0 => b * c <= 0
      OBVIOUS
    <3> QED
      BY <1>3, <2>1, <3>1
  <2>3. b <= a
    <3>1. b * c >= b
      BY <2>2
    <3> QED
      BY <1>3, <3>1
  <2>4. a % b = 0
    <3>1. a = 0 + b * c /\ a \in Int
      BY <1>3, <2>1
    <3>2. Cong(b, a, 0)
      BY <3>1 DEF Cong
    <3> QED
      BY <3>1, <3>2, Divides, Zenon
  <2> QED
    BY <1>3, <2>1, <2>3, <2>4 DEF IsPrime
<1>4. Cong(p, d, 0) \/ Cong(p, e, 0)
  <2>1. d * e = 0 + p * q /\ q \in Int
    BY <1>0, <1>2
  <2>2. Cong(p, d * e, 0)
    BY <2>1 DEF Cong
  <2> QED
    BY <1>2, <2>2, Modulus, PrimeProduct, Zenon
<1>5. CASE Cong(p, d, 0)
  <2>1. PICK f \in Int : d = 0 + p * f
    BY <1>5 DEF Cong
  <2>2. f >= 1
    <3>1. f <= 0 => p * f <= 0
      BY <1>0
    <3> QED
      BY <1>0, <2>1, <3>1
  <2>3. q = f * e
    <3>1. p * q = p * (f * e) /\ f * e \in Int /\ p \in Nat \ {0}
            /\ q \in Int
      BY <1>0, <1>2, <2>1
    <3> QED
      BY <3>1, Cancel, Zenon
  <2>4. f \in {1, q}
    BY <1>3, <2>2, <2>3, Modulus
  <2> QED
    BY <1>0, <2>1, <2>4
<1>6. CASE Cong(p, e, 0)
  <2>1. PICK f \in Int : e = 0 + p * f
    BY <1>6 DEF Cong
  <2>3. q = d * f
    <3>1. p * q = p * (d * f) /\ d * f \in Int /\ p \in Nat \ {0}
            /\ q \in Int
      BY <1>0, <1>2, <2>1
    <3> QED
      BY <3>1, Cancel, Zenon
  <2>4. d \in {1, q}
    BY <1>3, <2>3, Modulus
  <2> QED
    BY <2>4
<1> QED
  BY <1>4, <1>5, <1>6

\* What GCD computes with the modulus: the greatest of its divisors that divides
\* the other argument.
LEMMA GcdGreatest ==
  ASSUME NEW a \in Nat \ {0}
  PROVE  /\ GCD(a, n) \in {1, p, q, n}
         /\ Cong(GCD(a, n), a, 0)
         /\ \A d \in {1, p, q, n} : Cong(d, a, 0) => d <= GCD(a, n)
<1>0. /\ n \in Nat \ {0} /\ n \in Int /\ p \in 1 .. n /\ q \in 1 .. n
      /\ 1 \in 1 .. n /\ n \in 1 .. n /\ a \in Int
  BY Modulus
<1> DEFINE S == {d \in 1 .. n : a % d = 0 /\ n % d = 0}
           g == Max(S)
<1>1. GCD(a, n) = g
  BY DEF GCD
<1>2. S \subseteq 0 .. n /\ 1 \in S
  <2>1. \A b \in Int : b % 1 = 0
    OBVIOUS
  <2> QED
    BY <1>0, <2>1
<1>3. g \in S /\ \A d \in S : g >= d
  <2>1. \E m \in S : \A d \in S : m >= d
    BY <1>0, <1>2, Greatest
  <2> HIDE DEF S
  <2> QED
    BY <2>1 DEF Max
<1>4. \A d \in 1 .. n : d \in Nat \ {0}
  BY <1>0
<1>5. \A d \in 1 .. n : d \in S <=> Cong(d, a, 0) /\ Cong(d, n, 0)
  BY <1>0, <1>4, Divides
<1> HIDE DEF g
<1>6. g \in 1 .. n /\ Cong(g, a, 0) /\ Cong(g, n, 0)
  BY <1>3, <1>5
<1>7. g \in {1, p, q, n}
  BY <1>4, <1>6, Divisors, Zenon
<1>8. ASSUME NEW d \in {1, p, q, n}, Cong(d, a, 0) PROVE d <= g
  <2>1. n = 0 + p * q /\ n = 0 + q * p /\ n = 0 + 1 * n /\ n = 0 + n * 1
        /\ p \in Int /\ q \in Int /\ 1 \in Int
    BY Modulus
  <2>2. Cong(p, n, 0) /\ Cong(q, n, 0) /\ Cong(1, n, 0) /\ Cong(n, n, 0)
    BY <1>0, <2>1 DEF Cong
  <2>3. d \in S
    BY <1>0, <1>5, <1>8, <2>2, Zenon
  <2> HIDE DEF S
  <2>4. g >= d
    BY <1>3, <2>3
  <2>5. g \in Int /\ d \in Int
    BY <1>0, <1>6, <1>8
  <2> QED
    BY <2>4, <2>5
<1> QED
  BY <1>1, <1>6, <1>7, <1>8

\* Which divisor that is follows from the primes that divide the argument.
LEMMA GcdIs ==
  ASSUME NEW a \in Nat \ {0}
  PROVE  GCD(a, n) = IF Cong(p, a, 0)
                     THEN IF Cong(q, a, 0) THEN n ELSE p
                     ELSE IF Cong(q, a, 0) THEN q ELSE 1
<1> DEFINE g == GCD(a, n)
<1>1. /\ g \in {1, p, q, n} /\ Cong(g, a, 0)
      /\ \A d \in {1, p, q, n} : Cong(d, a, 0) => d <= g
  BY GcdGreatest, Zenon
<1> HIDE DEF g
<1>2. p \in Nat /\ q \in Nat /\ n \in Nat /\ p > 2 /\ q > 2 /\ n > p /\ n > q
  BY Modulus
<1>3. Cong(n, a, 0) <=> Cong(p, a, 0) /\ Cong(q, a, 0)
  BY BothPrimes
<1>4. g = IF Cong(p, a, 0)
          THEN IF Cong(q, a, 0) THEN n ELSE p
          ELSE IF Cong(q, a, 0) THEN q ELSE 1
  <2>1. CASE Cong(p, a, 0) /\ Cong(q, a, 0)
    BY <1>1, <1>2, <1>3, <2>1
  <2>2. CASE Cong(p, a, 0) /\ ~Cong(q, a, 0)
    BY <1>1, <1>2, <1>3, <2>2
  <2>3. CASE ~Cong(p, a, 0) /\ Cong(q, a, 0)
    BY <1>1, <1>2, <1>3, <2>3
  <2>4. CASE ~Cong(p, a, 0) /\ ~Cong(q, a, 0)
    BY <1>1, <1>2, <1>3, <2>4
  <2> QED
    BY <2>1, <2>2, <2>3, <2>4
<1> QED
  BY <1>4 DEF g

\* A number shares no factor with the modulus when neither prime divides it.
LEMMA Unit ==
  ASSUME NEW a \in Nat
  PROVE  GCD(a, n) = 1 <=> ~Cong(p, a, 0) /\ ~Cong(q, a, 0)
<1>1. p > 2 /\ q > 2 /\ n > p /\ p \in Nat /\ q \in Nat /\ n \in Nat
  BY Modulus
<1>2. CASE a = 0
  <2>1. GCD(a, n) = n
    BY <1>2 DEF GCD
  <2>2. Cong(p, a, 0)
    BY <1>1, <1>2, CongRefl
  <2> QED
    BY <1>1, <2>1, <2>2
<1>3. CASE a # 0
  BY <1>1, <1>3, GcdIs
<1> QED
  BY <1>2, <1>3

\* Two different roots of one square below n/2 that share no factor with n:
\* each prime divides one of the sum and the difference, and not the same.
LEMMA TwoRoots ==
  ASSUME NEW a \in 0 .. n \div 2, NEW b \in 0 .. n \div 2, a # b,
         Cong(n, a * a, b * b), ~Cong(p, a, 0), ~Cong(q, a, 0)
  PROVE  /\ {GCD(n + a - b, n), GCD(a + b, n)} = {p, q}
         /\ GCD(n + a - b, n) * GCD(a + b, n) = n
<1>0. /\ p \in Nat /\ q \in Nat /\ n \in Nat /\ n = p * q /\ n = q * p
      /\ n \div 2 \in Nat /\ n = 2 * (n \div 2) + 1 /\ a \in Int /\ b \in Int
      /\ p > 2 /\ q > 2
  BY Modulus
<1> DEFINE s == a + b
           d == a - b
           e == n + a - b
<1>1. /\ s \in Nat \ {0} /\ s \in Int /\ s # 0 /\ d \in Int /\ e \in Nat \ {0}
      /\ -n < d /\ d < n /\ d # 0 /\ s < n /\ -n < s
  BY <1>0
<1>2. Cong(n, s * d, 0)
  <2>1. PICK t \in Int : a * a = b * b + n * t
    BY DEF Cong
  <2>2. s * d = a * a - b * b
    BY <1>0
  <2>3. s * d = 0 + n * t
    BY <1>0, <2>1, <2>2
  <2> QED
    BY <2>3 DEF Cong
<1>3. ~Cong(n, s, 0) /\ ~Cong(n, d, 0)
  BY <1>1, Small, Zenon
<1>4. ASSUME NEW m, IsPrime(m), m > 2, ~Cong(m, a, 0), NEW k \in Int, n = m * k
      PROVE  /\ Cong(m, s * d, 0) => Cong(m, s, 0) \/ Cong(m, d, 0)
             /\ ~(Cong(m, s, 0) /\ Cong(m, d, 0))
             /\ Cong(m, d, 0) <=> Cong(m, e, 0)
  <2>0. m \in Int /\ m \in Nat
    BY <1>4 DEF IsPrime
  <2>1. Cong(m, s * d, 0) => Cong(m, s, 0) \/ Cong(m, d, 0)
    BY <1>1, <1>4, PrimeProduct
  <2>2. ASSUME Cong(m, s, 0), Cong(m, d, 0) PROVE FALSE
    <3>1. PICK u \in Int : s = 0 + m * u
      BY <2>2 DEF Cong
    <3>2. PICK v \in Int : d = 0 + m * v
      BY <2>2 DEF Cong
    <3>3. 2 * a = 0 + m * (u + v) /\ u + v \in Int
      BY <1>0, <2>0, <3>1, <3>2
    <3>4. Cong(m, 2 * a, 0)
      BY <3>3 DEF Cong
    <3>5. Cong(m, 2, 0)
      BY <1>0, <1>4, <3>4, PrimeProduct
    <3>6. 2 \in 0 .. m - 1 /\ 0 \in 0 .. m - 1 /\ m \in Nat \ {0}
      BY <1>4, <2>0
    <3>7. 2 = 0
      BY <3>5, <3>6, CongSmall, Zenon
    <3> QED
      BY <3>7
  <2>3. Cong(m, d, 0) => Cong(m, e, 0)
    <3> SUFFICES ASSUME Cong(m, d, 0) PROVE Cong(m, e, 0)
      OBVIOUS
    <3>1. PICK u \in Int : d = 0 + m * u
      BY DEF Cong
    <3>2. e = 0 + m * (u + k) /\ u + k \in Int
      BY <1>0, <1>4, <2>0, <3>1
    <3> QED
      BY <3>2 DEF Cong
  <2>4. Cong(m, e, 0) => Cong(m, d, 0)
    <3> SUFFICES ASSUME Cong(m, e, 0) PROVE Cong(m, d, 0)
      OBVIOUS
    <3>1. PICK u \in Int : e = 0 + m * u
      BY DEF Cong
    <3>2. d = 0 + m * (u - k) /\ u - k \in Int
      BY <1>0, <1>4, <2>0, <3>1
    <3> QED
      BY <3>2 DEF Cong
  <2> QED
    BY <2>1, <2>2, <2>3, <2>4
<1> HIDE DEF s, d
<1>5. Cong(p, s * d, 0) /\ Cong(q, s * d, 0)
  <2>1. s * d \in Int
    BY <1>1
  <2> QED
    BY <1>2, <2>1, BothPrimes
<1>6. (Cong(p, s, 0) /\ Cong(q, s, 0)) => FALSE
  BY <1>1, <1>3, BothPrimes
<1>7. (Cong(p, d, 0) /\ Cong(q, d, 0)) => FALSE
  BY <1>1, <1>3, BothPrimes
<1>8. /\ Cong(p, s, 0) \/ Cong(p, d, 0)
      /\ ~(Cong(p, s, 0) /\ Cong(p, d, 0))
      /\ Cong(p, d, 0) <=> Cong(p, e, 0)
  BY <1>0, <1>4, <1>5, Modulus
<1>9. /\ Cong(q, s, 0) \/ Cong(q, d, 0)
      /\ ~(Cong(q, s, 0) /\ Cong(q, d, 0))
      /\ Cong(q, d, 0) <=> Cong(q, e, 0)
  BY <1>0, <1>4, <1>5, Modulus
<1>10. \/ GCD(e, n) = p /\ GCD(s, n) = q
       \/ GCD(e, n) = q /\ GCD(s, n) = p
  <2> HIDE DEF e
  <2>1. GCD(e, n) = IF Cong(p, e, 0)
                    THEN IF Cong(q, e, 0) THEN n ELSE p
                    ELSE IF Cong(q, e, 0) THEN q ELSE 1
    BY <1>1, GcdIs, Zenon
  <2>2. GCD(s, n) = IF Cong(p, s, 0)
                    THEN IF Cong(q, s, 0) THEN n ELSE p
                    ELSE IF Cong(q, s, 0) THEN q ELSE 1
    BY <1>1, GcdIs, Zenon
  <2> QED
    BY <2>1, <2>2, <1>6, <1>7, <1>8, <1>9
<1> QED
  BY <1>0, <1>10 DEF s, e

\* The two roots of v * v that the seller takes, a and b: v is one of them, and
\* they are different unless v shares a factor with n.
RootPair(v, a, b) ==
  /\ a \in 0 .. n \div 2 /\ b \in 0 .. n \div 2
  /\ v \in {a, b}
  /\ Cong(n, a * a, b * b)
  /\ a = b => Cong(p, v, 0) \/ Cong(q, v, 0)

\* factorise's candidates from such a pair are the primes when they multiply to
\* n, and they do when v shares no factor with n.
LEMMA Candidates ==
  ASSUME NEW v \in 0 .. n \div 2, NEW a, NEW b, RootPair(v, a, b)
  PROVE  /\ GCD(n + a - b, n) * GCD(a + b, n) = n
            => {GCD(n + a - b, n), GCD(a + b, n)} = {p, q}
         /\ ~Cong(p, v, 0) /\ ~Cong(q, v, 0)
            => GCD(n + a - b, n) * GCD(a + b, n) = n
<1>0. /\ p \in Nat /\ q \in Nat /\ n \in Nat /\ n = p * q /\ n \in Nat \ {0}
      /\ n \div 2 \in Nat /\ n = 2 * (n \div 2) + 1 /\ a \in Int /\ b \in Int
      /\ p > 2 /\ q > 2 /\ p # q /\ n > p /\ n > q /\ v \in Int
      /\ a \in 0 .. n \div 2 /\ b \in 0 .. n \div 2 /\ v \in {a, b}
  BY Modulus DEF RootPair
<1> DEFINE s == a + b
           e == n + a - b
           gs == GCD(s, n)
           ge == GCD(e, n)
<1>1. s \in Nat /\ s < n /\ -n < s /\ e \in Nat \ {0} /\ s \in Int
  BY <1>0
<1>2. ge = IF Cong(p, e, 0)
           THEN IF Cong(q, e, 0) THEN n ELSE p
           ELSE IF Cong(q, e, 0) THEN q ELSE 1
  BY <1>1, GcdIs, Zenon
<1>3. s # 0 => gs = IF Cong(p, s, 0)
                    THEN IF Cong(q, s, 0) THEN n ELSE p
                    ELSE IF Cong(q, s, 0) THEN q ELSE 1
  <2>1. s # 0 => s \in Nat \ {0}
    BY <1>1
  <2> QED
    BY <2>1, GcdIs, Zenon
<1>4. s = 0 => gs = n
  BY DEF GCD
<1>5. ~Cong(n, s, 0) \/ s = 0
  BY <1>1, Small
<1>6. Cong(p, s, 0) /\ Cong(q, s, 0) => s = 0
  BY <1>1, <1>5, BothPrimes
<1>7. a = b => Cong(p, s, 0) \/ Cong(q, s, 0)
  <2> SUFFICES ASSUME a = b PROVE Cong(p, s, 0) \/ Cong(q, s, 0)
    OBVIOUS
  <2>1. v = a /\ s = 2 * v
    BY <1>0
  <2>2. ASSUME NEW m \in Int, Cong(m, v, 0) PROVE Cong(m, 2 * v, 0)
    <3>1. PICK t \in Int : v = 0 + m * t
      BY <2>2 DEF Cong
    <3>2. 2 * v = 0 + m * (2 * t) /\ 2 * t \in Int
      BY <1>0, <3>1
    <3> QED
      BY <3>2 DEF Cong
  <2>3. Cong(p, v, 0) \/ Cong(q, v, 0)
    BY DEF RootPair
  <2> QED
    BY <1>0, <2>1, <2>2, <2>3
<1>8. Cong(p, e, 0) /\ Cong(q, e, 0) => a = b
  <2> SUFFICES ASSUME Cong(p, e, 0), Cong(q, e, 0) PROVE a = b
    OBVIOUS
  <2>1. Cong(n, e, 0)
    BY <1>1, BothPrimes
  <2>2. PICK t \in Int : e = 0 + n * t
    BY <2>1 DEF Cong
  <2> DEFINE d == a - b
  <2>3. d = 0 + n * (t - 1) /\ t - 1 \in Int /\ d \in Int /\ -n < d /\ d < n
    BY <1>0, <2>2
  <2>4. Cong(n, d, 0)
    BY <2>3 DEF Cong
  <2>5. d = 0
    BY <2>3, <2>4, Small
  <2> QED
    BY <1>0, <2>5
<1>9. ASSUME ge * gs = n PROVE {ge, gs} = {p, q}
  <2> HIDE DEF s, e, ge, gs
  <2>1. /\ 1 * 1 # n /\ 1 * p # n /\ 1 * q # n /\ p * 1 # n /\ q * 1 # n
    BY <1>0
  <2>2. p * p # n /\ q * q # n
    <3>1. p * p = p * q => p = q
      BY <1>0, Cancel
    <3>2. q * q = q * p => q = p
      BY <1>0, Cancel
    <3> QED
      BY <1>0, <3>1, <3>2
  <2>3. p * n # n /\ q * n # n /\ n * p # n /\ n * q # n /\ n * n # n
    <3>1. \A k \in Nat : k > 2 => k * n >= 2 * n
      BY <1>0
    <3>2. p * n >= 2 * n /\ q * n >= 2 * n /\ n * n >= 2 * n
      BY <1>0, <3>1
    <3>3. n * p = p * n /\ n * q = q * n
      BY <1>0
    <3> QED
      BY <1>0, <3>2, <3>3
  <2>4. CASE s = 0
    <3>1. gs = n
      BY <1>4, <2>4
    <3>2. ge # 1
      <4>1. a = b /\ e = n
        BY <1>0, <2>4 DEF s, e
      <4>2. Cong(n, e, 0)
        <5>1. n = 0 + n * 1 /\ n \in Int
          BY <1>0
        <5> QED
          BY <4>1, <5>1 DEF Cong
      <4>3. Cong(p, e, 0) /\ Cong(q, e, 0)
        BY <1>1, <4>2, BothPrimes
      <4> QED
        BY <1>0, <1>2, <4>3
    <3>3. ge \in {p, q, n}
      BY <1>2, <3>2
    <3> QED
      BY <1>9, <2>3, <3>1, <3>3
  <2>5. CASE s # 0
    <3>1. gs \in {1, p, q}
      BY <1>3, <1>6, <2>5
    <3>2. ge \in {1, p, q, n}
      BY <1>2
    <3>3. ge = n => gs # 1
      BY <1>0, <1>2, <1>3, <1>7, <1>8, <2>5
    <3>4. ge * gs = n => \/ ge = p /\ gs = q
                         \/ ge = q /\ gs = p
                         \/ ge = n /\ gs = 1
      BY <2>1, <2>2, <2>3, <3>1, <3>2
    <3> QED
      BY <1>9, <3>3, <3>4
  <2> QED
    BY <2>4, <2>5
<1>10. ASSUME ~Cong(p, v, 0), ~Cong(q, v, 0) PROVE ge * gs = n
  <2>1. a # b /\ Cong(n, a * a, b * b)
    BY <1>10 DEF RootPair
  <2>2. ASSUME NEW m, IsPrime(m), ~Cong(m, v, 0), NEW k \in Int, n = m * k
        PROVE  ~Cong(m, a, 0)
    <3> SUFFICES ASSUME Cong(m, a, 0) PROVE FALSE
      OBVIOUS
    <3>0. m \in Int
      BY <2>2 DEF IsPrime
    <3>1. v = b
      BY <1>0, <2>2
    <3>2. PICK t \in Int : a = 0 + m * t
      BY DEF Cong
    <3>3. PICK w \in Int : a * a = b * b + n * w
      BY <2>1 DEF Cong
    <3>4. a * a = m * (t * a)
      BY <1>0, <3>0, <3>2
    <3>5. n * w = m * (k * w)
      BY <2>2, <3>0
    <3>6. b * b = 0 + m * (t * a - k * w) /\ t * a - k * w \in Int
      BY <1>0, <2>2, <3>0, <3>3, <3>4, <3>5
    <3>7. Cong(m, b * b, 0)
      BY <3>6 DEF Cong
    <3> QED
      BY <1>0, <2>2, <3>1, <3>7, PrimeProduct, Zenon
  <2>3. ~Cong(p, a, 0) /\ ~Cong(q, a, 0)
    <3>1. n = q * p
      BY <1>0
    <3> QED
      BY <1>0, <1>10, <2>2, <3>1, Modulus
  <2> QED
    BY <1>0, <2>1, <2>3, TwoRoots
<1> QED
  BY <1>9, <1>10

\* The number below n with given remainders modulo p and modulo q.
LEMMA CrtIsRoot ==
  ASSUME NEW a \in 0 .. p - 1, NEW b \in Int
  PROVE  /\ CRT(a, b) \in 0 .. n - 1
         /\ Cong(p, CRT(a, b), a)
         /\ Cong(q, CRT(a, b), b)
         /\ CRT(p - a, q - b) = n - CRT(a, b)
<1>0. /\ p \in Nat /\ q \in Nat /\ n \in Nat /\ n = p * q /\ a \in Int
      /\ p > 2 /\ q > 2 /\ IsPrime(p) /\ IsPrime(q) /\ q \in Nat \ {0} /\ 1 \in Int
  BY Modulus
<1> DEFINE u == CHOOSE z \in 1 .. q - 1 : (z * p) % q = 1
<1>1. u \in 1 .. q - 1 /\ (u * p) % q = 1
  <2>1. ~Cong(q, p, 0)
    BY Coprime
  <2> DEFINE v == p % q
  <2>2. v \in 0 .. q - 1 /\ v \in Int /\ Cong(q, v, p)
    BY <1>0, Reduced
  <2> HIDE DEF v
  <2>3. Cong(q, p, v)
    BY <1>0, <2>2, CongSym
  <2>4. v \in 1 .. q - 1
    <3>1. v # 0
      BY <2>1, <2>3
    <3> QED
      BY <1>0, <2>2, <3>1
  <2>5. PICK z \in 1 .. q - 1 : (z * v) % q = 1
    BY <1>0, <2>4, PrimeInverse
  <2>6. Cong(q, z * p, z * v)
    <3>1. Cong(q, z, z) /\ z \in Int /\ q \in Int /\ p \in Int
      BY <1>0, CongRefl
    <3> QED
      BY <2>2, <2>3, <3>1, CongTimes, Zenon
  <2>7. z * p \in Int /\ z * v \in Int
    BY <1>0, <2>2
  <2>8. (z * p) % q = 1
    BY <1>0, <2>5, <2>6, <2>7, CongMod, Zenon
  <2> QED
    BY <2>5, <2>8
<1>2. /\ CRT(a, b) = p * ((u * (b - a)) % q) + a
      /\ CRT(p - a, q - b) = p * ((u * ((q - b) - (p - a))) % q) + (p - a)
  BY DEF CRT
<1> HIDE DEF u
<1> DEFINE c == u * (b - a)
           d == u * ((q - b) - (p - a))
           w == c % q
           t == c \div q
<1>3. u \in Int /\ u * p \in Int
  BY <1>0, <1>1
<1>4. PICK k \in Int : u * p = 1 + q * k
  <2>1. 1 % q = 1
    BY <1>0, ModSmall
  <2>2. Cong(q, u * p, 1)
    BY <1>0, <1>1, <1>3, <2>1, CongMod
  <2> QED
    BY <2>2 DEF Cong
<1>5. c \in Int /\ d \in Int
  BY <1>0, <1>3
<1>6. w \in 0 .. q - 1 /\ t \in Int /\ c = q * t + w
  <2> HIDE DEF c
  <2> QED
    BY <1>0, <1>5, DivMod
<1>7. d % q = q - 1 - w
  <2>1. d = u * q - u * p - u * (b - a)
    BY <1>0, <1>3
  <2>2. d = u * q - (1 + q * k) - (q * t + w)
    BY <1>4, <1>6, <2>1
  <2> HIDE DEF d, w, t
  <2>3. d = q * (u - k - t - 1) + (q - 1 - w)
    BY <1>0, <1>3, <1>6, <2>2
  <2>4. u - k - t - 1 \in Int /\ q - 1 - w \in 0 .. q - 1
    BY <1>0, <1>3, <1>6
  <2> QED
    BY <1>0, <1>5, <2>3, <2>4, ModUnique
<1>8. CRT(a, b) = p * w + a /\ CRT(p - a, q - b) = p * (q - 1 - w) + (p - a)
  BY <1>2, <1>7
<1> HIDE DEF c, d, w, t
<1>9. CRT(p - a, q - b) = n - CRT(a, b)
  <2>1. p * (q - 1 - w) = p * q - p - p * w
    BY <1>0, <1>6
  <2> QED
    BY <1>0, <1>6, <1>8, <2>1
<1>10. CRT(a, b) \in 0 .. n - 1
  <2>1. p * w >= 0 /\ p * w <= p * (q - 1) /\ p * w \in Int
    BY <1>0, <1>6
  <2>2. p * (q - 1) = p * q - p
    BY <1>0
  <2> QED
    BY <1>0, <1>8, <2>1, <2>2
<1>11. Cong(p, CRT(a, b), a)
  <2>1. CRT(a, b) = a + p * w /\ w \in Int
    BY <1>0, <1>6, <1>8
  <2> QED
    BY <2>1 DEF Cong
<1>12. Cong(q, CRT(a, b), b)
  <2>1. c = u * b - u * a
    BY <1>0, <1>3 DEF c
  <2>2. p * c = (u * p) * b - (u * p) * a
    BY <1>0, <1>3, <2>1
  <2>3. p * c = b - a + q * (k * b - k * a)
    <3>1. (u * p) * b = b + q * (k * b)
      BY <1>0, <1>4
    <3>2. (u * p) * a = a + q * (k * a)
      BY <1>0, <1>4
    <3> QED
      BY <1>0, <2>2, <3>1, <3>2
  <2>4. p * c = q * (p * t) + p * w
    BY <1>0, <1>6
  <2>5. CRT(a, b) = b + q * (k * b - k * a - p * t)
    BY <1>0, <1>6, <1>8, <2>3, <2>4
  <2>6. k * b - k * a - p * t \in Int
    BY <1>0, <1>6
  <2> QED
    BY <2>5, <2>6 DEF Cong
<1> QED
  BY <1>9, <1>10, <1>11, <1>12

\* The root of the square of v modulo a prime m that divides n is v or -v.
LEMMA RootModPrime ==
  ASSUME NEW m, IsPrime(m), NEW k \in Int, n = m * k,
         NEW v \in 0 .. n \div 2, NEW r, r = ModularSquareRoot((v * v) % n, m)
  PROVE  /\ r \in 0 .. m - 1
         /\ \E e \in {1, -1} : Cong(m, r, e * v)
<1>0. /\ m \in Nat \ {0} /\ m \in Int /\ n \in Nat \ {0} /\ n \in Int /\ v \in Int
      /\ v * v \in Int
  BY Modulus DEF IsPrime
<1> DEFINE a == (v * v) % n
           w == v % m
<1>1. a \in Int /\ Cong(n, a, v * v)
  BY <1>0, Reduced
<1>2. Cong(m, a, v * v)
  <2> HIDE DEF a
  <2>1. PICK t \in Int : a = v * v + n * t
    BY <1>1 DEF Cong
  <2>2. a = v * v + m * (k * t) /\ k * t \in Int
    BY <1>0, <1>1, <2>1
  <2> QED
    BY <2>2 DEF Cong
<1>3. w \in 0 .. m - 1 /\ w \in Int /\ Cong(m, w, v)
  BY <1>0, Reduced
<1> HIDE DEF a, w
<1>4. Cong(m, w * w, v * v) /\ w * w \in Int
  BY <1>0, <1>3, CongTimes
<1>5. (w * w) % m = a % m
  <2>1. Cong(m, v * v, a)
    BY <1>0, <1>1, <1>2, CongSym, Zenon
  <2>2. Cong(m, w * w, a)
    BY <1>0, <1>1, <1>4, <2>1, CongTrans, Zenon
  <2> QED
    BY <1>0, <1>1, <1>4, <2>2, CongMod, Zenon
<1>6. r = CHOOSE z \in 0 .. m - 1 : (z * z) % m = a % m
  BY DEF ModularSquareRoot, a
<1>7. r \in 0 .. m - 1 /\ (r * r) % m = a % m
  BY <1>3, <1>5, <1>6
<1> HIDE <1>6
<1>8. r \in Int /\ r * r \in Int
  BY <1>0, <1>7
<1>9. Cong(m, r * r, v * v)
  <2>1. Cong(m, r * r, a)
    BY <1>0, <1>1, <1>7, <1>8, CongMod
  <2> QED
    BY <1>0, <1>1, <1>2, <1>8, <2>1, CongTrans, Zenon
<1>10. Cong(m, (r - v) * (r + v), 0) /\ r - v \in Int /\ r + v \in Int
  <2>1. PICK t \in Int : r * r = v * v + m * t
    BY <1>9 DEF Cong
  <2>2. (r - v) * (r + v) = r * r - v * v
    BY <1>0, <1>8
  <2>3. (r - v) * (r + v) = 0 + m * t
    BY <1>0, <1>8, <2>1, <2>2
  <2>4. Cong(m, (r - v) * (r + v), 0)
    BY <2>3, Zenon DEF Cong
  <2> QED
    BY <1>0, <1>8, <2>4
<1>11. Cong(m, r - v, 0) \/ Cong(m, r + v, 0)
  BY <1>10, PrimeProduct, Zenon
<1>12. ASSUME Cong(m, r - v, 0) PROVE Cong(m, r, 1 * v)
  <2>1. PICK t \in Int : r - v = 0 + m * t
    BY <1>12 DEF Cong
  <2>2. r = 1 * v + m * t
    BY <1>0, <1>8, <2>1
  <2> QED
    BY <2>2 DEF Cong
<1>13. ASSUME Cong(m, r + v, 0) PROVE Cong(m, r, (-1) * v)
  <2>1. PICK t \in Int : r + v = 0 + m * t
    BY <1>13 DEF Cong
  <2>2. r = (-1) * v + m * t
    BY <1>0, <1>8, <2>1
  <2> QED
    BY <2>2 DEF Cong
<1> QED
  BY <1>7, <1>11, <1>12, <1>13

\* Numbers that are v up to the sign modulo each prime, with the signs of b
\* modulo p and q the same where the signs of a are not: one of them is v.
LEMMA PairOfRoots ==
  ASSUME NEW v \in 0 .. n \div 2, NEW a \in 0 .. n \div 2, NEW b \in 0 .. n \div 2,
         NEW e \in {1, -1}, NEW f \in {1, -1}, NEW g \in {1, -1}, NEW h \in {1, -1},
         Cong(p, a, e * v), Cong(q, a, f * v),
         Cong(p, b, g * v), Cong(q, b, h * v),
         e = f <=> g # h
  PROVE  RootPair(v, a, b) /\ RootPair(v, b, a)
<1>0. /\ p \in Int /\ q \in Int /\ n \in Int /\ a \in Int /\ b \in Int /\ v \in Int
      /\ n \div 2 \in Nat /\ n = 2 * (n \div 2) + 1 /\ p > 2 /\ q > 2
      /\ IsPrime(p) /\ IsPrime(q)
  BY Modulus
<1>1. ASSUME NEW m \in Int, NEW c \in Int, NEW s \in {1, -1}, Cong(m, c, s * v)
      PROVE  Cong(m, c - s * v, 0) /\ Cong(m, c * c - v * v, 0)
  <2>1. PICK t \in Int : c = s * v + m * t
    BY <1>1 DEF Cong
  <2>2. c - s * v = 0 + m * t
    BY <1>0, <2>1
  <2>3. c * c = (s * v) * (s * v) + m * (t * (s * v) + t * (s * v) + m * t * t)
    BY <1>0, <2>1
  <2>4. (s * v) * (s * v) = v * v
    BY <1>0
  <2>5. t * (s * v) + t * (s * v) + m * t * t \in Int
    BY <1>0
  <2>6. c * c - v * v = 0 + m * (t * (s * v) + t * (s * v) + m * t * t)
    BY <1>0, <2>3, <2>4
  <2>7. Cong(m, c - s * v, 0)
    BY <2>2, Zenon DEF Cong
  <2> QED
    BY <2>5, <2>6, <2>7, Zenon DEF Cong
<1>2. ASSUME NEW c \in 0 .. n \div 2, NEW s \in {1, -1},
             Cong(p, c, s * v), Cong(q, c, s * v)
      PROVE  v = c
  <2> DEFINE d == c - s * v
  <2>1. d \in Int /\ c \in Int /\ -n < d /\ d < n
    BY <1>0
  <2>2. Cong(p, d, 0) /\ Cong(q, d, 0)
    BY <1>0, <1>1, <1>2, <2>1
  <2> HIDE DEF d
  <2>3. d = 0
    BY <2>1, <2>2, BothPrimes, Small, Zenon
  <2> QED
    BY <1>0, <2>3 DEF d
<1>3. v \in {a, b}
  <2>1. CASE e = f
    BY <1>2, <2>1
  <2>2. CASE g = h
    BY <1>2, <2>2
  <2> QED
    BY <2>1, <2>2
<1>4. Cong(n, a * a, b * b) /\ Cong(n, b * b, a * a)
  <2> DEFINE k == a * a
             l == b * b
             w == v * v
  <2>1. k \in Int /\ l \in Int /\ w \in Int
    BY <1>0
  <2>2. Cong(p, k - w, 0) /\ Cong(q, k - w, 0) /\ Cong(p, l - w, 0) /\ Cong(q, l - w, 0)
    BY <1>0, <1>1
  <2> HIDE DEF k, l, w
  <2>3. Cong(n, k - w, 0) /\ Cong(n, l - w, 0)
    <3>1. k - w \in Int /\ l - w \in Int
      BY <2>1
    <3> QED
      BY <2>2, <3>1, BothPrimes, Zenon
  <2>4. PICK t \in Int : k - w = 0 + n * t
    BY <2>3 DEF Cong
  <2>5. PICK u \in Int : l - w = 0 + n * u
    BY <2>3 DEF Cong
  <2>6. k = l + n * (t - u) /\ l = k + n * (u - t) /\ t - u \in Int /\ u - t \in Int
    BY <1>0, <2>1, <2>4, <2>5
  <2>7. Cong(n, k, l) /\ Cong(n, l, k)
    BY <2>6, Zenon DEF Cong
  <2> QED
    BY <2>7 DEF k, l
<1>5. a = b => Cong(p, v, 0) \/ Cong(q, v, 0)
  <2> SUFFICES ASSUME a = b PROVE Cong(p, v, 0) \/ Cong(q, v, 0)
    OBVIOUS
  <2>1. ASSUME NEW m, IsPrime(m), m > 2, NEW c \in Int,
               Cong(m, c, 1 * v), Cong(m, c, (-1) * v)
        PROVE  Cong(m, v, 0)
    <3>0. m \in Int /\ m \in Nat \ {0}
      BY <2>1 DEF IsPrime
    <3>1. PICK t \in Int : c = 1 * v + m * t
      BY <2>1 DEF Cong
    <3>2. PICK u \in Int : c = (-1) * v + m * u
      BY <2>1 DEF Cong
    <3>3. 2 * v = 0 + m * (u - t) /\ u - t \in Int
      BY <1>0, <3>0, <3>1, <3>2
    <3>4. Cong(m, 2 * v, 0)
      BY <3>3, Zenon DEF Cong
    <3>5. Cong(m, 2, 0) \/ Cong(m, v, 0)
      BY <1>0, <2>1, <3>4, PrimeProduct
    <3>6. 2 \in 0 .. m - 1 /\ 0 \in 0 .. m - 1 /\ 2 # 0
      BY <2>1, <3>0
    <3> QED
      BY <3>0, <3>5, <3>6, CongSmall, Zenon
  <2>2. e # g \/ f # h
    OBVIOUS
  <2>3. CASE e # g
    BY <1>0, <2>1, <2>3
  <2>4. CASE f # h
    BY <1>0, <2>1, <2>4
  <2> QED
    BY <2>2, <2>3, <2>4
<1> QED
  BY <1>3, <1>4, <1>5 DEF RootPair

\* Of four numbers that add up to n in two pairs, Sorted puts the smaller of each
\* pair in front.
LEMMA SortedPairs ==
  ASSUME NEW c \in 0 .. n, NEW d \in 0 .. n, NEW r,
         r = Sorted(<<n - c, d, n - d, c>>)
  PROVE  \E a \in {c, n - c}, b \in {d, n - d} :
            /\ a \in 0 .. n \div 2 /\ b \in 0 .. n \div 2
            /\ \/ r[1] = a /\ r[2] = b
               \/ r[1] = b /\ r[2] = a
<1>0. n \in Nat /\ n \div 2 \in Nat /\ n = 2 * (n \div 2) + 1 /\ c \in Int /\ d \in Int
  BY Modulus
<1> DEFINE s == <<n - c, d, n - d, c>>
           Sorts(o) == /\ \A j, k \in 1 .. 4 : o[j] = o[k] => j = k
                       /\ \A j, k \in 1 .. 4 : j < k => s[o[j]] <= s[o[k]]
           order == CHOOSE o \in [1 .. 4 -> 1 .. 4] : Sorts(o)
<1>1. s[1] = n - c /\ s[2] = d /\ s[3] = n - d /\ s[4] = c
  OBVIOUS
<1>2. r[1] = s[order[1]] /\ r[2] = s[order[2]]
  <2>1. r = [k \in 1 .. 4 |-> s[order[k]]]
    BY Zenon DEF Sorted
  <2> HIDE DEF s, order
  <2> QED
    BY <2>1
<1> HIDE DEF s
<1>3. \E o \in [1 .. 4 -> 1 .. 4] : Sorts(o)
  <2>1. ASSUME NEW i1 \in 1 .. 4, NEW i2 \in 1 .. 4, NEW i3 \in 1 .. 4, NEW i4 \in 1 .. 4,
               i1 # i2, i1 # i3, i1 # i4, i2 # i3, i2 # i4, i3 # i4,
               s[i1] <= s[i2], s[i2] <= s[i3], s[i3] <= s[i4]
        PROVE  \E o \in [1 .. 4 -> 1 .. 4] : Sorts(o)
    <3> DEFINE o == [k \in 1 .. 4 |-> IF k = 1 THEN i1 ELSE IF k = 2 THEN i2
                                      ELSE IF k = 3 THEN i3 ELSE i4]
    <3>1. o \in [1 .. 4 -> 1 .. 4] /\ o[1] = i1 /\ o[2] = i2 /\ o[3] = i3 /\ o[4] = i4
      OBVIOUS
    <3> HIDE DEF o
    <3>2. \A j, k \in 1 .. 4 : o[j] = o[k] => j = k
      BY <2>1, <3>1
    <3>3. \A k \in 1 .. 4 : s[k] \in Int
      BY <1>0, <1>1
    <3>4. \A j, k \in 1 .. 4 : j < k => s[o[j]] <= s[o[k]]
      BY <2>1, <3>1, <3>3
    <3> QED
      BY <3>1, <3>2, <3>4
  <2> HIDE DEF Sorts
  <2>2. \E i1, i2, i3, i4 \in 1 .. 4 :
          /\ i1 # i2 /\ i1 # i3 /\ i1 # i4 /\ i2 # i3 /\ i2 # i4 /\ i3 # i4
          /\ s[i1] <= s[i2] /\ s[i2] <= s[i3] /\ s[i3] <= s[i4]
    <3> DEFINE A(k, l) == /\ k \in 1 .. 4 /\ l \in 1 .. 4 /\ k # l
                          /\ s[k] <= n \div 2 /\ s[l] = n - s[k] /\ s[k] \in Int
    <3>1. PICK k1, l1 \in {1, 4} : A(k1, l1)
      BY <1>0, <1>1
    <3>2. PICK k2, l2 \in {2, 3} : A(k2, l2)
      BY <1>0, <1>1
    <3>3. CASE s[k1] <= s[k2]
      <4>1. s[k2] <= s[l2] /\ s[l2] <= s[l1]
        BY <1>0, <3>1, <3>2, <3>3
      <4>2. k1 # k2 /\ k1 # l2 /\ k1 # l1 /\ k2 # l2 /\ k2 # l1 /\ l2 # l1
        BY <3>1, <3>2
      <4> QED
        BY <3>1, <3>2, <3>3, <4>1, <4>2
    <3>4. CASE s[k2] <= s[k1]
      <4>1. s[k1] <= s[l1] /\ s[l1] <= s[l2]
        BY <1>0, <3>1, <3>2, <3>4
      <4>2. k1 # k2 /\ k1 # l2 /\ k1 # l1 /\ k2 # l2 /\ k2 # l1 /\ l2 # l1
        BY <3>1, <3>2
      <4> QED
        BY <3>1, <3>2, <3>4, <4>1, <4>2
    <3>5. s[k1] <= s[k2] \/ s[k2] <= s[k1]
      BY <3>1, <3>2
    <3> QED
      BY <3>3, <3>4, <3>5
  <2> QED
    BY <2>1, <2>2
<1>4. order \in [1 .. 4 -> 1 .. 4] /\ Sorts(order)
  <2> HIDE DEF Sorts
  <2> QED
    BY <1>3
<1> HIDE DEF order
<1>5. /\ order[1] \in 1 .. 4 /\ order[2] \in 1 .. 4
      /\ order[3] \in 1 .. 4 /\ order[4] \in 1 .. 4
      /\ order[1] # order[2] /\ order[1] # order[3] /\ order[1] # order[4]
      /\ order[2] # order[3] /\ order[2] # order[4] /\ order[3] # order[4]
      /\ s[order[1]] <= s[order[2]] /\ s[order[2]] <= s[order[3]]
      /\ s[order[3]] <= s[order[4]]
  BY <1>4
<1>6. /\ order[1] \in {1, 4} <=> order[2] \in {2, 3}
      /\ s[order[1]] \in 0 .. n \div 2 /\ s[order[2]] \in 0 .. n \div 2
  BY <1>0, <1>1, <1>5
<1> QED
  BY <1>0, <1>1, <1>2, <1>5, <1>6

\* The two roots that findRoots takes of the buyer's square.
LEMMA SmallerRoots ==
  ASSUME NEW v \in 0 .. n \div 2, NEW r, r = all_square_roots((v * v) % n)
  PROVE  RootPair(v, r[1], r[2]) /\ RootPair(v, r[2], r[1])
<1>0. /\ p \in Int /\ q \in Int /\ n \in Int /\ v \in Int /\ n = p * q /\ n = q * p
      /\ IsPrime(p) /\ IsPrime(q) /\ n \div 2 \in Nat /\ p > 2 /\ q > 2 /\ n \in Nat
  BY Modulus
<1> DEFINE s == (v * v) % n
           xp == ModularSquareRoot(s, p)
           xq == ModularSquareRoot(s, q)
           c == CRT(xp, xq)
           d == CRT(xp, q - xq)
<1>1. PICK e \in {1, -1} : Cong(p, xp, e * v)
  BY <1>0, RootModPrime
<1>2. PICK f \in {1, -1} : Cong(q, xq, f * v)
  BY <1>0, RootModPrime
<1>3. xp \in 0 .. p - 1 /\ xq \in 0 .. q - 1
  BY <1>0, RootModPrime
<1>4. r = Sorted(<<CRT(p - xp, q - xq), CRT(xp, q - xq),
                   CRT(p - xp, xq), CRT(xp, xq)>>)
  BY DEF all_square_roots
<1> HIDE DEF xp, xq
<1>5. xp \in Int /\ xq \in Int /\ q - xq \in Int /\ q - (q - xq) = xq
  BY <1>0, <1>3
<1>6. /\ c \in 0 .. n - 1 /\ Cong(p, c, xp) /\ Cong(q, c, xq)
      /\ CRT(p - xp, q - xq) = n - c
  BY <1>3, <1>5, CrtIsRoot
<1>7. /\ d \in 0 .. n - 1 /\ Cong(p, d, xp) /\ Cong(q, d, q - xq)
      /\ CRT(p - xp, q - (q - xq)) = n - d
  BY <1>3, <1>5, CrtIsRoot
<1>8. r = Sorted(<<n - c, d, n - d, c>>)
  BY <1>4, <1>5, <1>6, <1>7
<1> HIDE DEF c, d, s
<1>9. c \in Int /\ d \in Int /\ c \in 0 .. n /\ d \in 0 .. n
  BY <1>0, <1>6, <1>7
<1>10. PICK a \in {c, n - c}, b \in {d, n - d} :
          /\ a \in 0 .. n \div 2 /\ b \in 0 .. n \div 2
          /\ \/ r[1] = a /\ r[2] = b
             \/ r[1] = b /\ r[2] = a
  BY <1>8, <1>9, SortedPairs
<1>11. /\ Cong(p, c, e * v) /\ Cong(q, c, f * v)
       /\ Cong(p, d, e * v) /\ Cong(q, d, (-f) * v)
  <2>1. e * v \in Int /\ f * v \in Int
    BY <1>0
  <2>2. Cong(q, q - xq, (-f) * v)
    <3>1. PICK t \in Int : xq = f * v + q * t
      BY <1>2 DEF Cong
    <3>2. q - xq = (-f) * v + q * (1 - t) /\ 1 - t \in Int
      BY <1>0, <1>5, <3>1
    <3> QED
      BY <3>2, Zenon DEF Cong
  <2>3. (-f) * v \in Int
    BY <1>0
  <2> QED
    BY <1>0, <1>1, <1>2, <1>5, <1>6, <1>7, <1>9, <2>1, <2>2, <2>3, CongTrans
<1>12. ASSUME NEW m \in Int, NEW k \in Int, n = m * k,
              NEW l \in Int, NEW g \in {1, -1}, Cong(m, l, g * v)
       PROVE  Cong(m, n - l, (-g) * v)
  <2>1. PICK t \in Int : l = g * v + m * t
    BY <1>12 DEF Cong
  <2>2. n - l = (-g) * v + m * (k - t) /\ k - t \in Int
    BY <1>0, <1>12, <2>1
  <2> QED
    BY <2>2, Zenon DEF Cong
<1>13. \E g, h \in {1, -1} : /\ Cong(p, a, g * v) /\ Cong(q, a, h * v)
                             /\ g = h <=> e = f
  <2>1. CASE a = c
    BY <1>11, <2>1
  <2>2. CASE a = n - c
    <3>1. Cong(p, a, (-e) * v) /\ Cong(q, a, (-f) * v)
      BY <1>0, <1>9, <1>11, <1>12, <2>2
    <3>2. -e \in {1, -1} /\ -f \in {1, -1} /\ (-e = -f <=> e = f)
      OBVIOUS
    <3> QED
      BY <3>1, <3>2
  <2> QED
    BY <2>1, <2>2
<1>14. \E g, h \in {1, -1} : /\ Cong(p, b, g * v) /\ Cong(q, b, h * v)
                             /\ g = h <=> e # f
  <2>1. CASE b = d
    <3>1. -f \in {1, -1} /\ (e = -f <=> e # f)
      OBVIOUS
    <3> QED
      BY <1>11, <2>1, <3>1
  <2>2. CASE b = n - d
    <3>0. -f \in {1, -1}
      OBVIOUS
    <3>1. Cong(p, b, (-e) * v) /\ Cong(q, b, (-(-f)) * v)
      BY <1>0, <1>9, <1>11, <1>12, <2>2, <3>0
    <3>2. -e \in {1, -1} /\ -(-f) = f /\ (-e = f <=> e # f)
      OBVIOUS
    <3>3. Cong(q, b, f * v)
      BY <3>1, <3>2
    <3> QED
      BY <3>1, <3>2, <3>3
  <2> QED
    BY <2>1, <2>2
<1>15. RootPair(v, a, b) /\ RootPair(v, b, a)
  <2>1. PICK g1, h1 \in {1, -1} : /\ Cong(p, a, g1 * v) /\ Cong(q, a, h1 * v)
                                  /\ g1 = h1 <=> e = f
    BY <1>13
  <2>2. PICK g2, h2 \in {1, -1} : /\ Cong(p, b, g2 * v) /\ Cong(q, b, h2 * v)
                                  /\ g2 = h2 <=> e # f
    BY <1>14
  <2>3. g1 = h1 <=> g2 # h2
    BY <2>1, <2>2, Zenon
  <2> QED
    BY <1>10, <2>1, <2>2, <2>3, PairOfRoots
<1> QED
  BY <1>10, <1>15

-----------------------------------------------------------------------------
(* The inductive invariant.                                                *)

Early == {"genSquares", "findRoots", "commit", "pickSubset", "acceptSubset"}

\* The seller's roots are a pair for the buyer's, from findRoots on.
RootsTaken ==
  pc \notin {"genSquares", "findRoots"} =>
    \A k \in Idx : RootPair(x[k], r1[k], r2[k])

\* The seller is committed to its own roots.
Committed ==
  pc \notin {"genSquares", "findRoots", "commit"} =>
    \A k \in Idx : \A d \in 1 .. 2 :
      sent[k][d] = [key |-> k, root |-> IF d = 1 THEN r1[k] ELSE r2[k]]

\* What has been opened is what was committed to: of the subset the buyer's own
\* root and its key, of the rest everything but the key.
Opened ==
  /\ pc \in Early => i = 0 /\ keys = {} /\ got = Nothing
  /\ pc \notin {"finished", "failed"} => keys \subseteq Subset
  /\ \A k \in Idx : \A d \in 1 .. 2 :
       got[k][d] # Empty => /\ got[k][d] = sent[k][d]
                            /\ k \in Subset => got[k][d].root = x[k]
  /\ pc \in {"paying", "finished", "failed"} =>
       \A k \in Idx \ Subset : got[k] = sent[k]

\* The opening goes by the seller's match.
MatchedRight ==
  pc = "opening" => i \in Ranks /\ \A k \in Ranks : matched[k] = Matching(k)

IInv == /\ TypeOK
        /\ RootsTaken
        /\ Committed
        /\ Opened
        /\ MatchedRight
        /\ ThrowsOnlyAtHalf
        /\ PaidBuyerFactors

\* Facts about the ranges that the steps need.
LEMMA Ranges ==
  /\ L \in Nat /\ L \div 2 \in Nat /\ 0 \in Ranks /\ L \div 2 <= L
  /\ n \in Nat /\ n \div 2 \in Nat /\ 0 .. n \div 2 \subseteq 0 .. n
  /\ 0 \in 0 .. n \div 2 /\ 0 \in Idx
  /\ Draws \subseteq 0 .. n \div 2
  /\ \A c \in Cipher : c # Empty
<1>1. L \in Nat /\ L >= 2 /\ L \div 2 \in Nat /\ L \div 2 >= 1 /\ L \div 2 <= L
  BY SellInformationAssumption
<1>2. n \in Nat /\ n \div 2 \in Nat /\ n \div 2 <= n
  BY Modulus
<1>3. Draws \subseteq 0 .. n \div 2
  BY SellInformationAssumption
<1>4. \A c \in Cipher : c # Empty
  <2> SUFFICES ASSUME NEW c \in Cipher PROVE c # Empty
    OBVIOUS
  <2>1. c.root \in 0 .. n /\ Empty.root = -1
    BY DEF Cipher, Empty
  <2>2. -1 \notin 0 .. n
    BY <1>2
  <2> QED
    BY <2>1, <2>2
<1> QED
  BY <1>1, <1>2, <1>3, <1>4 DEF Ranks, Idx

\* The state the first action starts from.
LEMMA InitIInv == Init => IInv
<1> SUFFICES ASSUME Init PROVE IInv
  OBVIOUS
<1> USE DEF Init
<1>1. TypeOK
  <2>1. i \in 0 .. L \div 2
    BY Ranges
  <2> QED
    BY Ranges, <2>1 DEF TypeOK, Nothing
<1>2. RootsTaken /\ Committed /\ MatchedRight /\ ThrowsOnlyAtHalf /\ PaidBuyerFactors
  BY DEF RootsTaken, Committed, MatchedRight, ThrowsOnlyAtHalf, PaidBuyerFactors
<1>3. Opened
  BY DEF Opened, Early, Nothing
<1> QED
  BY <1>1, <1>2, <1>3 DEF IInv

\* The buyer draws its roots.
LEMMA GenSquaresIInv == IInv /\ GenSquares => IInv'
<1> SUFFICES ASSUME IInv, GenSquares PROVE IInv'
  OBVIOUS
<1> USE DEF GenSquares
<1>1. TypeOK'
  BY Ranges DEF IInv, TypeOK
<1>2. (RootsTaken /\ Committed /\ MatchedRight /\ ThrowsOnlyAtHalf /\ PaidBuyerFactors)'
  BY DEF RootsTaken, Committed, MatchedRight, ThrowsOnlyAtHalf, PaidBuyerFactors
<1>3. Opened'
  BY DEF IInv, Opened, Early, Nothing, Subset
<1> QED
  BY <1>1, <1>2, <1>3 DEF IInv

\* The seller takes the two smaller roots of every square.
LEMMA FindRootsIInv == IInv /\ FindRoots => IInv'
<1> SUFFICES ASSUME IInv, FindRoots PROVE IInv'
  OBVIOUS
<1> DEFINE roots == [k \in Idx |-> all_square_roots(y[k])]
<1>1. PICK swapped \in SUBSET Idx :
        /\ r1' = [k \in Idx |-> roots[k][IF k \in swapped THEN 2 ELSE 1]]
        /\ r2' = [k \in Idx |-> roots[k][IF k \in swapped THEN 1 ELSE 2]]
  BY DEF FindRoots
<1>2. /\ pc = "findRoots" /\ pc' = "commit"
      /\ UNCHANGED <<x, sent, indices, matched, i, keys, got, found>>
  BY DEF FindRoots
<1>3. ASSUME NEW k \in Idx
      PROVE  RootPair(x[k], roots[k][1], roots[k][2])
             /\ RootPair(x[k], roots[k][2], roots[k][1])
  <2>1. x[k] \in 0 .. n \div 2
    BY DEF IInv, TypeOK
  <2>2. roots[k] = all_square_roots((x[k] * x[k]) % n)
    BY DEF y
  <2> HIDE DEF roots
  <2> QED
    BY <2>1, <2>2, SmallerRoots
<1> HIDE DEF roots
<1>4. \A k \in Idx : RootPair(x[k], r1'[k], r2'[k])
  BY <1>1, <1>3
<1>5. RootsTaken'
  BY <1>2, <1>4 DEF RootsTaken, RootPair, Cong
<1>6. TypeOK'
  <2>1. \A k \in Idx : r1'[k] \in 0 .. n /\ r2'[k] \in 0 .. n
    BY <1>4, Ranges DEF RootPair
  <2>2. r1' \in [Idx -> 0 .. n] /\ r2' \in [Idx -> 0 .. n]
    BY <1>1, <2>1
  <2> QED
    BY <1>2, <2>2 DEF IInv, TypeOK
<1>7. (Committed /\ MatchedRight /\ ThrowsOnlyAtHalf /\ PaidBuyerFactors)'
  BY <1>2 DEF Committed, MatchedRight, ThrowsOnlyAtHalf, PaidBuyerFactors
<1>8. Opened'
  BY <1>2 DEF IInv, Opened, Early, Nothing, Subset
<1> QED
  BY <1>5, <1>6, <1>7, <1>8 DEF IInv

\* The seller commits to both.
LEMMA CommitRootsIInv == IInv /\ CommitRoots => IInv'
<1> SUFFICES ASSUME IInv, CommitRoots PROVE IInv'
  OBVIOUS
<1> USE DEF CommitRoots
<1>1. sent' \in [Idx -> [1 .. 2 -> Cipher]]
  BY DEF IInv, TypeOK, Cipher
<1>2. TypeOK'
  <2>1. sent' \in [Idx -> [1 .. 2 -> Cipher \union {Empty}]]
    BY <1>1
  <2> QED
    BY <2>1 DEF IInv, TypeOK
<1>3. RootsTaken'
  BY DEF IInv, RootsTaken
<1>4. Committed'
  BY DEF Committed
<1>5. (MatchedRight /\ ThrowsOnlyAtHalf /\ PaidBuyerFactors)'
  BY DEF MatchedRight, ThrowsOnlyAtHalf, PaidBuyerFactors
<1>6. Opened'
  BY DEF IInv, Opened, Early, Nothing, Subset
<1> QED
  BY <1>2, <1>3, <1>4, <1>5, <1>6 DEF IInv

\* The buyer picks its subset, before anything is opened.
LEMMA PickSubsetIInv == IInv /\ PickSubset => IInv'
<1> SUFFICES ASSUME IInv, PickSubset PROVE IInv'
  OBVIOUS
<1> USE DEF PickSubset
<1>1. TypeOK'
  BY DEF IInv, TypeOK
<1>2. (RootsTaken /\ Committed)'
  BY DEF IInv, RootsTaken, Committed
<1>3. (MatchedRight /\ ThrowsOnlyAtHalf /\ PaidBuyerFactors)'
  BY DEF MatchedRight, ThrowsOnlyAtHalf, PaidBuyerFactors
<1>4. Opened'
  BY DEF IInv, Opened, Early, Nothing
<1> QED
  BY <1>1, <1>2, <1>3, <1>4 DEF IInv

\* The seller matches the buyer's roots with its own, or refuses one of n/2.
LEMMA AcceptSubsetIInv == IInv /\ AcceptSubset => IInv'
<1> SUFFICES ASSUME IInv, AcceptSubset PROVE IInv'
  OBVIOUS
<1>1. /\ pc = "acceptSubset" /\ pc' \in {"opening", "threw"}
      /\ UNCHANGED <<x, r1, r2, sent, indices, i, keys, got, found>>
  BY DEF AcceptSubset
<1>2. (RootsTaken /\ Committed /\ PaidBuyerFactors)'
  BY <1>1 DEF IInv, RootsTaken, Committed, PaidBuyerFactors
<1>3. Opened'
  BY <1>1 DEF IInv, Opened, Early, Nothing, Subset
<1>4. CASE pc' = "opening"
  <2>1. matched' = [k \in Ranks |-> Matching(k)]
    BY <1>1, <1>4 DEF AcceptSubset
  <2>2. TypeOK'
    BY <1>1, <1>4, <2>1 DEF IInv, TypeOK, Matching
  <2>3. MatchedRight'
    <3>1. i = 0
      BY <1>1 DEF IInv, Opened, Early
    <3> QED
      BY <1>1, <2>1, <3>1, Ranges DEF MatchedRight, Matching, Value
  <2>4. ThrowsOnlyAtHalf'
    BY <1>4 DEF ThrowsOnlyAtHalf
  <2> QED
    BY <1>2, <1>3, <2>2, <2>3, <2>4 DEF IInv
<1>5. CASE pc' = "threw"
  <2>1. UNCHANGED matched /\ \E k \in Ranks : ~Acceptable(k)
    BY <1>1, <1>5 DEF AcceptSubset
  <2>2. TypeOK'
    BY <1>1, <1>5, <2>1 DEF IInv, TypeOK
  <2>3. MatchedRight'
    BY <1>5 DEF MatchedRight
  <2>4. ThrowsOnlyAtHalf'
    <3>1. PICK k \in Ranks : ~Acceptable(k)
      BY <2>1
    <3>2. indices[k] \in Idx /\ Value(k) \in 0 .. n \div 2
      BY DEF IInv, TypeOK, Value
    <3>3. (Value(k) * Value(k)) % n = y[indices[k]]
      BY <3>2 DEF y, Value
    <3>4. Value(k) = n \div 2
      BY <3>1, <3>2, <3>3, Ranges DEF Acceptable
    <3> QED
      BY <1>1, <3>4 DEF ThrowsOnlyAtHalf, Value
  <2> QED
    BY <1>2, <1>3, <2>2, <2>3, <2>4 DEF IInv
<1> QED
  BY <1>1, <1>4, <1>5

\* The roots of the two ciphertexts the seller is committed to.
LEMMA SentRoots ==
  ASSUME IInv, pc \notin {"genSquares", "findRoots", "commit"}, NEW k \in Idx
  PROVE  /\ sent[k][1] = [key |-> k, root |-> r1[k]]
         /\ sent[k][2] = [key |-> k, root |-> r2[k]]
         /\ sent[k][1].root = r1[k] /\ sent[k][2].root = r2[k]
<1>1. \A d \in 1 .. 2 :
        sent[k][d] = [key |-> k, root |-> IF d = 1 THEN r1[k] ELSE r2[k]]
  BY Zenon DEF IInv, Committed
<1>2. 1 \in 1 .. 2 /\ 2 \in 1 .. 2
  OBVIOUS
<1>3. /\ sent[k][1] = [key |-> k, root |-> IF 1 = 1 THEN r1[k] ELSE r2[k]]
      /\ sent[k][2] = [key |-> k, root |-> IF 2 = 1 THEN r1[k] ELSE r2[k]]
  BY <1>1, <1>2, Zenon
<1>4. /\ sent[k][1] = [key |-> k, root |-> r1[k]]
      /\ sent[k][2] = [key |-> k, root |-> r2[k]]
  BY <1>3
<1> QED
  BY <1>4

\* A matched ciphertext holds the buyer's root, so that verifyRoot agrees.
LEMMA OpenRootIInv == IInv /\ OpenRoot => IInv'
<1> SUFFICES ASSUME IInv, OpenRoot PROVE IInv'
  OBVIOUS
<1> DEFINE ind == indices[i]
           d == matched[i]
<1>1. pc = "opening" /\ i \in Ranks /\ d = Matching(i) /\ ind \in Idx
  BY DEF OpenRoot, IInv, MatchedRight, TypeOK
<1>2. d \in 1 .. 2 /\ sent[ind][d].root = x[ind]
  <2>1. RootPair(x[ind], r1[ind], r2[ind])
    BY <1>1 DEF IInv, RootsTaken
  <2>2. x[ind] \in {r1[ind], r2[ind]}
    BY <2>1 DEF RootPair
  <2>3. \/ d = 1 /\ x[ind] = r1[ind]
        \/ d = 2 /\ x[ind] = r2[ind]
    BY <1>1, <2>2 DEF Matching, Value
  <2> HIDE DEF d, ind
  <2>4. sent[ind][1].root = r1[ind] /\ sent[ind][2].root = r2[ind]
    BY <1>1, SentRoots
  <2> QED
    BY <2>3, <2>4
<1>3. /\ keys' = keys \union {ind}
      /\ got' = [got EXCEPT ![ind][d] = sent[ind][d]]
      /\ i' = i + 1
      /\ pc' = IF i' = L \div 2 THEN "openRest" ELSE "opening"
      /\ UNCHANGED <<x, r1, r2, sent, indices, matched, found>>
  BY <1>1, <1>2 DEF OpenRoot
<1> HIDE DEF d
<1>4. i' \in 0 .. L \div 2 /\ (pc' = "opening" => i' \in Ranks)
  BY <1>1, <1>3, Ranges DEF Ranks
<1>5. TypeOK'
  <2>1. sent[ind][d] \in Cipher \union {Empty}
    BY <1>1, <1>2 DEF IInv, TypeOK
  <2>2. got' \in [Idx -> [1 .. 2 -> Cipher \union {Empty}]]
    BY <1>1, <1>2, <1>3, <2>1 DEF IInv, TypeOK
  <2>3. keys' \subseteq Idx
    BY <1>1, <1>3 DEF IInv, TypeOK
  <2> QED
    BY <1>3, <1>4, <2>2, <2>3 DEF IInv, TypeOK
<1>6. (RootsTaken /\ Committed)'
  BY <1>1, <1>3 DEF IInv, RootsTaken, Committed
<1>7. MatchedRight'
  BY <1>1, <1>3, <1>4 DEF IInv, MatchedRight, Matching, Value
<1>8. (ThrowsOnlyAtHalf /\ PaidBuyerFactors)'
  BY <1>3 DEF ThrowsOnlyAtHalf, PaidBuyerFactors
<1>9. Opened'
  <2>1. pc' \notin Early /\ pc' \notin {"paying", "finished", "failed"}
    BY <1>3 DEF Early
  <2>2. ind \in Subset /\ Subset' = Subset
    BY <1>1, <1>3 DEF Subset
  <2>3. keys' \subseteq Subset'
    BY <1>1, <1>3, <2>2 DEF IInv, Opened
  <2>4. ASSUME NEW k \in Idx, NEW e \in 1 .. 2, got'[k][e] # Empty
        PROVE  got'[k][e] = sent[k][e] /\ (k \in Subset => got'[k][e].root = x[k])
    <3> HIDE DEF ind
    <3>1. got'[k][e] = IF k = ind /\ e = d THEN sent[ind][d] ELSE got[k][e]
      BY <1>1, <1>2, <1>3 DEF IInv, TypeOK
    <3>2. CASE k = ind /\ e = d
      BY <1>2, <3>1, <3>2
    <3>3. CASE ~(k = ind /\ e = d)
      BY <2>4, <3>1, <3>3 DEF IInv, Opened
    <3> QED
      BY <3>2, <3>3
  <2> QED
    BY <1>3, <2>1, <2>2, <2>3, <2>4 DEF Opened
<1> QED
  BY <1>5, <1>6, <1>7, <1>8, <1>9 DEF IInv

\* What was not revealed is opened as committed.
LEMMA OpenRestIInv == IInv /\ OpenRest => IInv'
<1> SUFFICES ASSUME IInv, OpenRest PROVE IInv'
  OBVIOUS
<1> USE DEF OpenRest
<1>1. TypeOK'
  BY DEF IInv, TypeOK
<1>2. (RootsTaken /\ Committed)'
  BY DEF IInv, RootsTaken, Committed
<1>3. (MatchedRight /\ ThrowsOnlyAtHalf /\ PaidBuyerFactors)'
  BY DEF MatchedRight, ThrowsOnlyAtHalf, PaidBuyerFactors
<1>4. Opened'
  <2>1. Subset' = Subset
    BY DEF Subset
  <2>2. \A k \in Idx : got'[k] = IF k \in Subset THEN got[k] ELSE sent[k]
    OBVIOUS
  <2> QED
    BY <2>1, <2>2 DEF IInv, Opened, Early
<1> QED
  BY <1>1, <1>2, <1>3, <1>4 DEF IInv

\* A root the buyer can decrypt both ciphertexts of.
LEMMA UsefulPair ==
  ASSUME IInv, pc = "paying", NEW k \in Idx, got[k][1] # Empty, got[k][2] # Empty
  PROVE  /\ Candidate(k)[1] \in 1 .. n /\ Candidate(k)[2] \in 1 .. n
         /\ Candidate(k)[1] * Candidate(k)[2] = n
            => {Candidate(k)[1], Candidate(k)[2]} = {p, q}
         /\ GCD(x[k], n) = 1 => Candidate(k)[1] * Candidate(k)[2] = n
<1> DEFINE a == got[k][1].root
           b == got[k][2].root
<1>1. Candidate(k)[1] = GCD(n + a - b, n) /\ Candidate(k)[2] = GCD(a + b, n)
  BY DEF Candidate
<1>2. a = r1[k] /\ b = r2[k]
  <2>1. got[k][1] = sent[k][1] /\ got[k][2] = sent[k][2]
    BY DEF IInv, Opened
  <2>2. sent[k][1].root = r1[k] /\ sent[k][2].root = r2[k]
    BY SentRoots
  <2> QED
    BY <2>1, <2>2
<1>3. RootPair(x[k], a, b) /\ x[k] \in 0 .. n \div 2
  BY <1>2 DEF IInv, RootsTaken, TypeOK
<1> HIDE DEF a, b
<1>4. \A c \in Nat : GCD(c, n) \in 1 .. n
  <2> SUFFICES ASSUME NEW c \in Nat PROVE GCD(c, n) \in 1 .. n
    OBVIOUS
  <2>1. n \in Nat /\ n > p /\ n > q /\ p > 2 /\ q > 2 /\ p \in Nat /\ q \in Nat
    BY Modulus
  <2>2. CASE c = 0
    BY <2>1, <2>2 DEF GCD
  <2>3. CASE c # 0
    <3>1. GCD(c, n) \in {1, p, q, n}
      BY <2>3, GcdGreatest
    <3> QED
      BY <2>1, <3>1
  <2> QED
    BY <2>2, <2>3
<1>5. n + a - b \in Nat /\ a + b \in Nat
  <2>1. a \in 0 .. n \div 2 /\ b \in 0 .. n \div 2
    BY <1>3 DEF RootPair
  <2> QED
    BY <2>1, Modulus
<1>6. GCD(x[k], n) = 1 => ~Cong(p, x[k], 0) /\ ~Cong(q, x[k], 0)
  <2>1. x[k] \in Nat
    BY <1>3, Ranges
  <2> QED
    BY <2>1, Unit
<1>7. /\ GCD(n + a - b, n) * GCD(a + b, n) = n
         => {GCD(n + a - b, n), GCD(a + b, n)} = {p, q}
      /\ ~Cong(p, x[k], 0) /\ ~Cong(q, x[k], 0)
         => GCD(n + a - b, n) * GCD(a + b, n) = n
  BY <1>3, Candidates
<1> QED
  BY <1>1, <1>4, <1>5, <1>6, <1>7

\* The buyer has every key: a root that was not revealed gives the primes.
LEMMA FactoriseIInv == IInv /\ Factorise => IInv'
<1> SUFFICES ASSUME IInv, Factorise PROVE IInv'
  OBVIOUS
<1>1. /\ pc = "paying" /\ pc' \in {"finished", "failed"} /\ keys' = Idx
      /\ UNCHANGED <<x, r1, r2, sent, indices, matched, i, got>>
  BY DEF Factorise
<1>2. (RootsTaken /\ Committed /\ MatchedRight /\ ThrowsOnlyAtHalf)'
  BY <1>1 DEF IInv, RootsTaken, Committed, MatchedRight, ThrowsOnlyAtHalf
<1>3. Opened'
  BY <1>1 DEF IInv, Opened, Early, Subset
<1>4. CASE pc' = "finished"
  <2>1. Useful # {} /\ found' = Candidate(Min(Useful))
    BY <1>1, <1>4 DEF Factorise
  <2>2. Min(Useful) \in Useful
    <3>1. Useful \subseteq Nat
      BY Ranges DEF Useful, Idx
    <3>2. \E m \in Useful : \A k \in Useful : m <= k
      BY <2>1, <3>1, Least
    <3> QED
      BY <3>2 DEF Min
  <2> DEFINE k == Min(Useful)
  <2>3. /\ k \in Idx /\ got[k][1] # Empty /\ got[k][2] # Empty
        /\ Candidate(k)[1] * Candidate(k)[2] = n
    BY <2>2 DEF Useful
  <2> HIDE DEF k
  <2>4. /\ Candidate(k)[1] \in 1 .. n /\ Candidate(k)[2] \in 1 .. n
        /\ {Candidate(k)[1], Candidate(k)[2]} = {p, q}
    BY <1>1, <2>3, UsefulPair
  <2>5. found' = Candidate(k)
    BY <2>1 DEF k
  <2>6. found' \in (1 .. n) \X (1 .. n) /\ {found'[1], found'[2]} = {p, q}
    <3>1. Candidate(k) = <<Candidate(k)[1], Candidate(k)[2]>>
      BY DEF Candidate
    <3> QED
      BY <2>4, <2>5, <3>1
  <2>7. TypeOK'
    BY <1>1, <1>4, <2>6 DEF IInv, TypeOK
  <2>8. PaidBuyerFactors'
    BY <1>4, <2>6 DEF PaidBuyerFactors
  <2> QED
    BY <1>2, <1>3, <2>7, <2>8 DEF IInv
<1>5. CASE pc' = "failed"
  <2>1. Useful = {} /\ UNCHANGED found
    BY <1>1, <1>5 DEF Factorise
  <2>2. TypeOK'
    BY <1>1, <1>5, <2>1 DEF IInv, TypeOK
  <2>3. \A k \in Idx \ Subset : GCD(x[k], n) # 1
    <3> SUFFICES ASSUME NEW k \in Idx \ Subset, GCD(x[k], n) = 1 PROVE FALSE
      OBVIOUS
    <3>1. got[k] = sent[k]
      BY <1>1 DEF IInv, Opened
    <3>2. sent[k][1] # Empty /\ sent[k][2] # Empty
      <4>1. sent[k][1].root = r1[k] /\ sent[k][2].root = r2[k]
        BY <1>1, SentRoots
      <4>2. r1[k] \in 0 .. n /\ r2[k] \in 0 .. n
        BY DEF IInv, TypeOK
      <4>3. Empty.root = -1 /\ -1 \notin 0 .. n
        BY Ranges DEF Empty
      <4> QED
        BY <4>1, <4>2, <4>3
    <3>3. Candidate(k)[1] * Candidate(k)[2] = n
      BY <1>1, <3>1, <3>2, UsefulPair
    <3> QED
      BY <2>1, <3>1, <3>2, <3>3 DEF Useful
  <2>4. PaidBuyerFactors'
    BY <1>1, <1>5, <2>3 DEF PaidBuyerFactors, Subset
  <2> QED
    BY <1>2, <1>3, <2>2, <2>4 DEF IInv
<1> QED
  BY <1>1, <1>4, <1>5

\* Every step preserves the invariant.
LEMMA NextIInv == IInv /\ [Next]_vars => IInv'
<1> SUFFICES ASSUME IInv, [Next]_vars PROVE IInv'
  OBVIOUS
<1>1. CASE UNCHANGED vars
  <2>1. (TypeOK /\ Opened /\ MatchedRight /\ ThrowsOnlyAtHalf)'
    BY <1>1 DEF vars, IInv, TypeOK, Opened, MatchedRight, ThrowsOnlyAtHalf,
      Subset, Matching, Value
  <2>2. (RootsTaken /\ Committed /\ PaidBuyerFactors)'
    BY <1>1 DEF vars, IInv, RootsTaken, Committed, PaidBuyerFactors, Subset
  <2> QED
    BY <2>1, <2>2 DEF IInv
<1> QED
  BY <1>1, GenSquaresIInv, FindRootsIInv, CommitRootsIInv, PickSubsetIInv,
     AcceptSubsetIInv, OpenRootIInv, OpenRestIInv, FactoriseIInv DEF Next

\* The inductive invariant holds in every state of every run.
THEOREM Invariance == Spec => []IInv
BY InitIInv, NextIInv, PTL DEF Spec

\* Every variable stays in its range: the roots the seller takes are below n/2,
\* and the primes the buyer computes are between 1 and n.
THEOREM TypeCorrect == Spec => []TypeOK
<1>1. IInv => TypeOK
  BY DEF IInv
<1> QED
  BY <1>1, Invariance, PTL

\* Before the buyer reads the signature, all it can decrypt is roots it drew: no
\* run opens to it, with its key, a root it did not know.
THEOREM NothingUnpaid == Spec => []NothingLearnedUnpaid
<1>1. IInv => NothingLearnedUnpaid
  BY DEF IInv, Opened, NothingLearnedUnpaid, TypeOK
<1> QED
  BY <1>1, Invariance, PTL

\* A buyer that has the keys factors n, unless all it left unrevealed shares a
\* factor with n; and what factorise reports are the seller's primes.
THEOREM PaidFactors == Spec => []PaidBuyerFactors
<1>1. IInv => PaidBuyerFactors
  BY DEF IInv
<1> QED
  BY <1>1, Invariance, PTL

\* With two honest parties exec throws only for a root of n/2 itself.
THEOREM ThrowsAtHalf == Spec => []ThrowsOnlyAtHalf
<1>1. IInv => ThrowsOnlyAtHalf
  BY DEF IInv
<1> QED
  BY <1>1, Invariance, PTL
=============================================================================
