--------------------------- MODULE Paillier_proofs ---------------------------
(***************************************************************************)
(* Proofs about Paillier, for every size of the primes, every set of       *)
(* exponents and every set of messages and draws. The first half is about  *)
(* encryption and decryption with two primes that do not change, the       *)
(* second is the inductive invariant and the theorems.                     *)
(***************************************************************************)
EXTENDS Paillier, Arithmetic

-----------------------------------------------------------------------------
(* Encryption with the primes a and b.                                     *)

\* e is a ciphertext of x: to the power of phi it is 1 + x phi n modulo n^2.
Cipher(a, b, e, x) ==
    Cong((a * b) * (a * b), Power(e)[(a - 1) * (b - 1)],
         1 + (x * ((a - 1) * (b - 1))) * (a * b))

Primes(a, b) == IsPrime(a) /\ IsPrime(b)

\* The numbers derived from two primes.
LEMMA Derived ==
  ASSUME NEW a, NEW b, Primes(a, b)
  PROVE  /\ a \in Nat \ {0} /\ b \in Nat \ {0} /\ a \in Int /\ b \in Int
         /\ a > 1 /\ b > 1
         /\ a * b \in Nat \ {0} /\ a * b \in Int /\ a * b > 1
         /\ (a * b) * (a * b) \in Nat \ {0} /\ (a * b) * (a * b) \in Int
         /\ (a * b) * (a * b) > a * b
         /\ (a - 1) * (b - 1) \in Nat /\ (a - 1) * (b - 1) \in Int
<1>1. a \in Nat \ {0} /\ b \in Nat \ {0} /\ a > 1 /\ b > 1
  BY DEF Primes, IsPrime
<1> DEFINE N == a * b
<1>2. N \in Nat \ {0} /\ N > 1
  <2>1. a * b >= a * 1
    BY <1>1
  <2> QED
    BY <1>1, <2>1
<1>3. (a - 1) * (b - 1) \in Nat
  BY <1>1
<1> HIDE DEF N
<1>4. N * N \in Nat \ {0} /\ N * N > N
  <2>1. N * N >= N * 2
    BY <1>2
  <2> QED
    BY <1>2, <2>1
<1> QED
  BY <1>1, <1>2, <1>3, <1>4 DEF N

\* What a ciphertext says is modulo n^2 about the number and modulo n about
\* the message.
LEMMA CipherMod ==
  ASSUME NEW a, NEW b, Primes(a, b), NEW d \in Nat, NEW e \in Nat,
         NEW x \in Nat, NEW y \in Nat, Cipher(a, b, d, x),
         Cong((a * b) * (a * b), e, d), Cong(a * b, y, x)
  PROVE  Cipher(a, b, e, y)
<1> DEFINE N == a * b
           M == N * N
           f == (a - 1) * (b - 1)
           D == Power(d)[f]
           E == Power(e)[f]
           X == 1 + (x * f) * N
           Y == 1 + (y * f) * N
<1>0. N \in Int /\ M \in Int /\ f \in Nat /\ f \in Int
  BY Derived
<1> HIDE DEF f
<1>1. D \in Int /\ E \in Int
  <2>1. D \in Nat /\ E \in Nat
    BY <1>0, PowerStep
  <2> QED
    BY <2>1
<1>2. Cong(M, E, D)
  BY <1>0, CongPower
<1>3. Cong(M, D, X)
  BY DEF Cipher, f
<1>4. PICK t \in Int : y = x + N * t
  BY DEF Cong
<1> HIDE DEF N, D, E
<1>5. X \in Int /\ Y \in Int
  BY <1>0
<1>6. Cong(M, X, Y)
  <2>1. y * f = x * f + (f * t) * N
    <3>1. (x + N * t) * f = x * f + (f * t) * N
      BY <1>0
    <3> QED
      BY <1>4, <3>1
  <2>2. (x * f) * N = (y * f) * N + (N * N) * (-(f * t))
    <3> DEFINE j == x * f
               k == f * t
    <3>1. j \in Int /\ k \in Int
      BY <1>0
    <3> HIDE DEF j, k
    <3>2. j * N = (j + k * N) * N + (N * N) * (-k)
      BY <1>0, <3>1
    <3> QED
      BY <2>1, <3>2 DEF j, k
  <2>3. X = Y + M * (-(f * t)) /\ -(f * t) \in Int
    <3>1. (x * f) * N \in Int /\ (y * f) * N \in Int /\ f * t \in Int
      BY <1>0
    <3>2. M * (-(f * t)) \in Int
      BY <1>0, <3>1
    <3> QED
      BY <2>2, <3>1, <3>2
  <2> HIDE DEF X, Y, M
  <2> QED
    BY <2>3 DEF Cong
<1>7. Cong(M, E, Y)
  <2> HIDE DEF X, Y, M
  <2>1. Cong(M, D, Y)
    BY <1>0, <1>1, <1>3, <1>5, <1>6, CongTrans, Zenon
  <2> QED
    BY <1>0, <1>1, <1>2, <1>5, <2>1, CongTrans, Zenon
<1> QED
  BY <1>7 DEF Cipher, N, M, E, Y, f

\* Multiplying ciphertexts adds what they say.
LEMMA CipherTimes ==
  ASSUME NEW a, NEW b, Primes(a, b), NEW d \in Nat, NEW e \in Nat,
         NEW x \in Nat, NEW y \in Nat, Cipher(a, b, d, x), Cipher(a, b, e, y)
  PROVE  Cipher(a, b, d * e, x + y)
<1> DEFINE N == a * b
           M == N * N
           f == (a - 1) * (b - 1)
           D == Power(d)[f]
           E == Power(e)[f]
           X == 1 + (x * f) * N
           Y == 1 + (y * f) * N
           Z == 1 + ((x + y) * f) * N
<1>0. N \in Int /\ M \in Int /\ f \in Nat /\ f \in Int
  BY Derived
<1> HIDE DEF f
<1>1. D \in Int /\ E \in Int /\ Power(d * e)[f] = D * E
  <2>1. D \in Nat /\ E \in Nat
    BY <1>0, PowerStep
  <2>2. Power(d * e)[f] = Power(d)[f] * Power(e)[f]
    BY <1>0, PowerProduct
  <2> QED
    BY <2>1, <2>2
<1>2. Cong(M, D, X) /\ Cong(M, E, Y)
  BY DEF Cipher, f
<1> HIDE DEF N, D, E
<1>3. X \in Int /\ Y \in Int /\ Z \in Int
  BY <1>0
<1>4. Cong(M, D * E, X * Y)
  <2> HIDE DEF X, Y, M
  <2> QED
    BY <1>0, <1>1, <1>2, <1>3, CongTimes, Zenon
<1>5. Cong(M, X * Y, Z)
  <2> DEFINE j == x * f
             k == y * f
             J == j * N
             K == k * N
  <2>1. j \in Int /\ k \in Int /\ j * k \in Int /\ (x + y) * f = j + k
    BY <1>0
  <2> HIDE DEF j, k
  <2>2. J \in Int /\ K \in Int /\ J + K = (j + k) * N
    BY <1>0, <2>1
  <2>3. J * K = (N * N) * (j * k)
    BY <1>0, <2>1
  <2> HIDE DEF J, K
  <2>4. (1 + J) * (1 + K) = 1 + (J + K) + J * K
    BY <2>2
  <2>5. X * Y = Z + M * (j * k)
    BY <2>1, <2>2, <2>3, <2>4 DEF j, k, J, K
  <2> HIDE DEF X, Y, Z, M
  <2> QED
    BY <2>1, <2>5 DEF Cong
<1>6. Cong(M, D * E, Z)
  <2> HIDE DEF X, Y, Z, M
  <2>1. D * E \in Int /\ X * Y \in Int
    BY <1>1, <1>3
  <2> QED
    BY <1>0, <1>3, <1>4, <1>5, <2>1, CongTrans, Zenon
<1> QED
  BY <1>1, <1>6 DEF Cipher, N, M, Z, f

\* 1 says 0.
LEMMA CipherOne ==
  ASSUME NEW a, NEW b, Primes(a, b)
  PROVE  Cipher(a, b, 1, 0)
<1> DEFINE N == a * b
           f == (a - 1) * (b - 1)
<1>0. N \in Int /\ N * N \in Int /\ f \in Nat /\ f \in Int
  BY Derived
<1>1. Cong(N * N, Power(1 + N * 0)[f], 1 + (f * 0) * N)
  <2>1. N \in Nat
    BY Derived
  <2> HIDE DEF N, f
  <2> QED
    BY <1>0, <2>1, PowerOfOnePlus, 0 \in Nat
<1>2. 1 + N * 0 = 1 /\ f * 0 = 0 * f
  BY <1>0
<1>3. Cong(N * N, Power(1)[f], 1 + (0 * f) * N)
  BY <1>1, <1>2
<1> QED
  BY <1>3 DEF Cipher

\* Raising a ciphertext to a power multiplies what it says.
LEMMA CipherPower ==
  ASSUME NEW a, NEW b, Primes(a, b), NEW d \in Nat, NEW x \in Nat,
         Cipher(a, b, d, x), NEW t \in Nat
  PROVE  Cipher(a, b, Power(d)[t], x * t)
<1> DEFINE S == {i \in Nat : Cipher(a, b, Power(d)[i], x * i)}
<1>1. 0 \in S
  <2>1. Power(d)[0] = 1 /\ x * 0 = 0
    BY PowerStep
  <2> QED
    BY <2>1, CipherOne
<1>2. ASSUME NEW i \in S PROVE i + 1 \in S
  <2>1. /\ i \in Nat /\ Power(d)[i] \in Nat /\ x * i \in Nat
        /\ Power(d)[i + 1] = d * Power(d)[i] /\ x * (i + 1) = x + x * i
    BY PowerStep
  <2>2. Cipher(a, b, d * Power(d)[i], x + x * i)
    BY <2>1, CipherTimes
  <2> QED
    BY <2>1, <2>2
<1>3. S \subseteq Nat
  OBVIOUS
<1> HIDE DEF S
<1>4. S = Nat
  BY <1>1, <1>2, <1>3, SetInduction, Zenon
<1> QED
  BY <1>4 DEF S

\* The first factor of an encryption says the message.
LEMMA CipherOfG ==
  ASSUME NEW a, NEW b, Primes(a, b), NEW x \in Nat
  PROVE  Cipher(a, b, Power(a * b + 1)[x], x)
<1> DEFINE N == a * b
           f == (a - 1) * (b - 1)
<1>0. N \in Nat /\ N \in Int /\ N * N \in Int /\ f \in Nat /\ f \in Int
  BY Derived
<1> HIDE DEF N, f
<1>1. Cong(N * N, Power(1 + N * 1)[x * f], 1 + ((x * f) * 1) * N)
  <2>1. x * f \in Nat
    BY <1>0
  <2> QED
    BY <1>0, <2>1, PowerOfOnePlus, 1 \in Nat
<1>2. 1 + N * 1 = N + 1 /\ (x * f) * 1 = x * f /\ N + 1 \in Nat
  <2>1. x * f \in Nat
    BY <1>0
  <2> QED
    BY <1>0, <2>1
<1>3. Power(Power(N + 1)[x])[f] = Power(N + 1)[x * f]
  BY <1>0, <1>2, PowerTimes
<1>4. Cong(N * N, Power(Power(N + 1)[x])[f], 1 + (x * f) * N)
  BY <1>1, <1>2, <1>3
<1> QED
  BY <1>4 DEF Cipher, N, f

\* The second factor says 0, if the randomness is prime to n.
LEMMA CipherOfR ==
  ASSUME NEW a, NEW b, Primes(a, b), a # b,
         NEW r \in Nat, ~Cong(a, r, 0), ~Cong(b, r, 0)
  PROVE  Cipher(a, b, Power(r)[a * b], 0)
<1> DEFINE N == a * b
           f == (a - 1) * (b - 1)
           y == Power(r)[f]
<1>0. N \in Nat /\ N \in Int /\ N > 1 /\ N * N \in Int /\ f \in Nat /\ f \in Int
  BY Derived
<1>1. Cong(N, y, 1)
  BY Euler DEF Primes
<1> HIDE DEF N, f
<1>2. y \in Nat
  BY <1>0, PowerStep
<1> HIDE DEF y
<1>3. PICK t \in Int : y = 1 + N * t
  BY <1>1 DEF Cong
<1>4. t \in Nat
  <2>1. t <= -1 => N * t <= -N
    BY <1>0
  <2> QED
    BY <1>0, <1>2, <1>3, <2>1
<1>5. Cong(N * N, Power(y)[N], 1 + (N * t) * N)
  BY <1>0, <1>3, <1>4, PowerOfOnePlus
<1>6. Cong(N * N, 1 + (N * t) * N, 1)
  <2>1. 1 + (N * t) * N = 1 + (N * N) * t
    BY <1>0
  <2> QED
    BY <2>1 DEF Cong
<1>7. Power(y)[N] = Power(Power(r)[N])[f]
  <2>1. Power(y)[N] = Power(r)[f * N] /\ Power(Power(r)[N])[f] = Power(r)[N * f]
    BY <1>0, PowerTimes DEF y
  <2>2. f * N = N * f
    BY <1>0
  <2> QED
    BY <2>1, <2>2
<1>8. Cong(N * N, Power(Power(r)[N])[f], 1)
  <2>1. Power(y)[N] \in Int /\ 1 + (N * t) * N \in Int /\ 1 \in Int
    <3>1. Power(y)[N] \in Nat
      BY <1>0, <1>2, PowerStep
    <3> QED
      BY <1>0, <3>1
  <2>2. Cong(N * N, Power(y)[N], 1)
    BY <1>0, <1>5, <1>6, <2>1, CongTrans, Zenon
  <2> QED
    BY <1>7, <2>2
<1>9. 1 + (0 * f) * N = 1
  BY <1>0
<1> QED
  BY <1>8, <1>9 DEF Cipher, N, f

\* A reduction modulo n^2 keeps the prime factors a number shares with n.
LEMMA SharedFactor ==
  ASSUME NEW a, NEW b, Primes(a, b), NEW d \in Nat, NEW e \in Nat,
         Cong((a * b) * (a * b), e, d)
  PROVE  /\ Cong(a, e, 0) <=> Cong(a, d, 0)
         /\ Cong(b, e, 0) <=> Cong(b, d, 0)
<1>0. a \in Int /\ b \in Int /\ 0 \in Int /\ d \in Int /\ e \in Int
  BY Derived
<1>1. (a * b) * (a * b) = a * (b * (a * b))
  BY <1>0
<1>2. (a * b) * (a * b) = b * (a * (a * b))
  BY <1>0
<1>3. Cong(a, e, d)
  <2>1. b * (a * b) \in Int
    BY <1>0
  <2> QED
    BY <1>0, <1>1, <2>1, CongFactor
<1>4. Cong(b, e, d)
  <2>1. a * (a * b) \in Int
    BY <1>0
  <2> QED
    BY <1>0, <1>2, <2>1, CongFactor
<1>5. Cong(a, d, e) /\ Cong(b, d, e)
  BY <1>0, <1>3, <1>4, CongSym
<1>6. Cong(a, e, 0) <=> Cong(a, d, 0)
  BY <1>0, <1>3, <1>5, CongTrans, Zenon
<1>7. Cong(b, e, 0) <=> Cong(b, d, 0)
  BY <1>0, <1>4, <1>5, CongTrans, Zenon
<1> QED
  BY <1>6, <1>7

\* The base of encryption is prime to both primes.
LEMMA GIsUnit ==
  ASSUME NEW a, NEW b, Primes(a, b)
  PROVE  a * b + 1 \in Nat /\ ~Cong(a, a * b + 1, 0) /\ ~Cong(b, a * b + 1, 0)
<1>0. /\ a \in Nat \ {0} /\ b \in Nat \ {0} /\ a > 1 /\ b > 1
      /\ a * b \in Nat \ {0}
  BY Derived
<1>1. ASSUME NEW m \in Nat \ {0}, m > 1, NEW k \in Nat PROVE ~Cong(m, m * k + 1, 0)
  <2>1. (m * k + 1) % m = 1
    <3> DEFINE v == m * k + 1
    <3>1. v \in Int /\ 1 \in 0 .. m - 1 /\ k \in Int /\ v = m * k + 1
      BY <1>1
    <3> HIDE DEF v
    <3>2. v % m = 1
      BY <3>1, ModUnique
    <3> QED
      BY <3>2 DEF v
  <2>2. m * k + 1 \in Int
    OBVIOUS
  <2> QED
    BY <2>1, <2>2, Divides
<1>2. ~Cong(a, a * b + 1, 0)
  BY <1>0, <1>1
<1>3. ~Cong(b, a * b + 1, 0)
  <2>1. ~Cong(b, b * a + 1, 0)
    BY <1>0, <1>1
  <2>2. b * a + 1 = a * b + 1
    BY <1>0
  <2> QED
    BY <2>1, <2>2
<1> QED
  BY <1>0, <1>2, <1>3

\* What enc returns.
LEMMA EncIs ==
  ASSUME Primes(p, q), NEW m \in Nat, NEW r \in Nat
  PROVE  /\ enc(m, r) \in 0 .. n2 - 1 /\ enc(m, r) \in Nat
         /\ Power(g)[m] \in Nat /\ Power(r)[n] \in Nat
         /\ Power(g)[m] * Power(r)[n] \in Nat
         /\ Cong((p * q) * (p * q), enc(m, r), Power(g)[m] * Power(r)[n])
<1>0. n \in Nat /\ n2 \in Nat \ {0} /\ g \in Nat /\ n2 \in Int
  BY Derived DEF n, n2, g
<1> DEFINE x == Power(g)[m]
           y == Power(r)[n]
           v == x % n2
           w == y % n2
<1>1. x \in Nat /\ y \in Nat
  BY <1>0, PowerStep
<1>2. PowMod(g, m, n2) = v /\ PowMod(r, n, n2) = w
  BY <1>0, PowModIsPower
<1> HIDE DEF x, y
<1>3. v \in Int /\ w \in Int /\ Cong(n2, v, x) /\ Cong(n2, w, y)
  <2>1. x \in Int /\ y \in Int
    BY <1>1
  <2> QED
    BY <1>0, <2>1, Reduced
<1> HIDE DEF v, w
<1>4. enc(m, r) = (v * w) % n2
  BY <1>2 DEF enc
<1>5. v * w \in Int /\ x * y \in Int /\ x * y \in Nat /\ x \in Int /\ y \in Int
  BY <1>1, <1>3
<1>6. enc(m, r) \in 0 .. n2 - 1 /\ Cong(n2, enc(m, r), v * w)
  BY <1>0, <1>4, <1>5, Reduced
<1>7. enc(m, r) \in Nat
  BY <1>0, <1>6
<1>8. Cong(n2, v * w, x * y)
  BY <1>0, <1>3, <1>5, CongTimes, Zenon
<1>9. Cong(n2, enc(m, r), x * y)
  <2>1. enc(m, r) \in Int
    BY <1>7
  <2> QED
    BY <1>0, <1>5, <1>6, <1>8, <2>1, CongTrans, Zenon
<1>10. n2 = (p * q) * (p * q)
  BY DEF n2, n
<1> QED
  BY <1>1, <1>5, <1>6, <1>7, <1>9, <1>10 DEF x, y

\* An encryption shares a prime with n when its randomness does.
LEMMA EncUnit ==
  ASSUME Primes(p, q), NEW m \in Nat, NEW r \in Nat
  PROVE  /\ Cong(p, enc(m, r), 0) <=> Cong(p, r, 0)
         /\ Cong(q, enc(m, r), 0) <=> Cong(q, r, 0)
<1> DEFINE x == Power(g)[m]
           y == Power(r)[n]
           e == enc(m, r)
<1>0. /\ IsPrime(p) /\ IsPrime(q) /\ n \in Nat /\ n # 0 /\ g \in Nat
      /\ n = p * q /\ g = p * q + 1
  BY Derived DEF n, g, Primes
<1>1. /\ e \in Nat /\ x \in Nat /\ y \in Nat /\ x * y \in Nat
      /\ Cong((p * q) * (p * q), e, x * y)
  BY EncIs
<1>2. /\ Cong(p, e, 0) <=> Cong(p, x * y, 0)
      /\ Cong(q, e, 0) <=> Cong(q, x * y, 0)
  BY <1>1, SharedFactor
<1>3. x \in Int /\ y \in Int
  BY <1>1
<1>4. /\ Cong(p, x * y, 0) <=> Cong(p, x, 0) \/ Cong(p, y, 0)
      /\ Cong(q, x * y, 0) <=> Cong(q, x, 0) \/ Cong(q, y, 0)
  BY <1>0, <1>3, DividesProduct
<1>5. ~Cong(p, x, 0) /\ ~Cong(q, x, 0)
  BY <1>0, GIsUnit, DividesPower
<1>6. /\ Cong(p, y, 0) <=> Cong(p, r, 0)
      /\ Cong(q, y, 0) <=> Cong(q, r, 0)
  BY <1>0, DividesPower
<1> QED
  BY <1>2, <1>4, <1>5, <1>6

\* An encryption with randomness prime to n says the message.
LEMMA EncCipher ==
  ASSUME Primes(p, q), p # q, NEW m \in Nat, NEW r \in Nat,
         ~Cong(p, r, 0), ~Cong(q, r, 0)
  PROVE  Cipher(p, q, enc(m, r), m)
<1> DEFINE x == Power(g)[m]
           y == Power(r)[n]
           e == enc(m, r)
<1>1. /\ e \in Nat /\ x \in Nat /\ y \in Nat /\ x * y \in Nat
      /\ Cong((p * q) * (p * q), e, x * y)
  BY EncIs
<1>2. Cipher(p, q, x, m)
  BY CipherOfG DEF g, n
<1>3. Cipher(p, q, y, 0)
  BY CipherOfR DEF n
<1> HIDE DEF x, y, e
<1>4. Cipher(p, q, x * y, m)
  <2>1. Cipher(p, q, x * y, m + 0) /\ m + 0 = m
    BY <1>1, <1>2, <1>3, CipherTimes, 0 \in Nat
  <2> QED
    BY <2>1
<1>5. Cong(p * q, m, m)
  BY Derived, CongRefl
<1> QED
  BY <1>1, <1>4, <1>5, CipherMod DEF e

\* phi has an inverse modulo n: of two primes from PrimeRange neither divides
\* the other minus 1.
LEMMA PhiInverse ==
  ASSUME Primes(p, q), p # q, p \in PrimeRange, q \in PrimeRange
  PROVE  u \in 1 .. n - 1 /\ (u * phi) % n = 1
<1> DEFINE B == Power(2)[bits]
<1>1. B \in Nat /\ B >= 4 /\ Power(2)[bits + 1] = 2 * B
  <2>1. bits \in Nat /\ bits > 1 /\ 2 \in Nat
    BY PaillierAssumption
  <2>2. B \in Nat /\ Power(2)[bits + 1] = 2 * B
    BY <2>1, PowerStep
  <2> DEFINE k == bits - 2
  <2>3. k \in Nat /\ (k + 1) + 1 = bits /\ k + 1 \in Nat
    BY <2>1
  <2>4. /\ Power(2)[k] \in Nat /\ Power(2)[k + 1] = 2 * Power(2)[k]
        /\ Power(2)[(k + 1) + 1] = 2 * Power(2)[k + 1]
    BY <2>1, <2>3, PowerStep
  <2>5. Power(2)[k] # 0
    <3>1. ASSUME NEW i \in Nat PROVE Power(2)[i] # 0
      <4>1. IsPrime(3)
        BY DEF IsPrime
      <4>2. ~Cong(3, 2, 0)
        <5>1. 2 % 3 = 2 /\ 3 \in Nat \ {0} /\ 2 \in Int
          OBVIOUS
        <5> QED
          BY <5>1, Divides
      <4>3. ~Cong(3, Power(2)[i], 0)
        BY <2>1, <4>1, <4>2, PrimePower
      <4>4. Cong(3, 0, 0)
        BY CongRefl, 0 \in Int, 3 \in Int
      <4> QED
        BY <4>3, <4>4
    <3> QED
      BY <2>3, <3>1
  <2> HIDE DEF k
  <2>6. B = 2 * (2 * Power(2)[k])
    BY <2>3, <2>4
  <2> HIDE DEF B
  <2> QED
    BY <2>2, <2>4, <2>5, <2>6
<1>2. /\ p \in B .. 2 * B /\ q \in B .. 2 * B
  BY <1>1 DEF PrimeRange
<1> HIDE DEF B
<1>3. p \in Nat \ {0} /\ q \in Nat \ {0} /\ p >= 4 /\ q >= 4 /\ p \in Int /\ q \in Int
  BY <1>1, <1>2
<1>4. ASSUME NEW a \in Nat, IsPrime(a), a >= 4, NEW b \in Nat, IsPrime(b), b >= 4,
             a \in B .. 2 * B, b \in B .. 2 * B
      PROVE  ~Cong(a, b - 1, 0)
  <2>1. a % 2 # 0 /\ b % 2 # 0
    BY <1>4 DEF IsPrime
  <2>2. SUFFICES ASSUME NEW t \in Int, b - 1 = 0 + a * t PROVE FALSE
    BY DEF Cong
  <2>3. t >= 1
    <3>1. t <= 0 => a * t <= 0
      BY <1>4
    <3> QED
      BY <1>4, <2>2, <3>1
  <2>4. t < 2
    <3>1. t >= 2 => a * t >= 2 * a
      BY <1>4
    <3>2. 2 * a >= 2 * B /\ b - 1 < 2 * B
      BY <1>1, <1>4
    <3>3. a * t \in Int
      OBVIOUS
    <3> QED
      BY <1>1, <1>4, <2>2, <3>1, <3>2, <3>3
  <2>5. t = 1
    BY <2>3, <2>4
  <2>6. b = a + 1
    BY <1>4, <2>2, <2>5
  <2> QED
    BY <1>4, <2>1, <2>6
<1>5. ASSUME NEW a \in Nat, IsPrime(a) PROVE ~Cong(a, a - 1, 0)
  <2>1. a > 1 /\ a - 1 \in 0 .. a - 1 /\ a \in Nat \ {0}
    BY <1>5 DEF IsPrime
  <2>2. (a - 1) % a = a - 1
    BY <2>1, ModSmall
  <2> QED
    BY <2>1, <2>2, Divides
<1>6. /\ ~Cong(p, p - 1, 0) /\ ~Cong(p, q - 1, 0)
      /\ ~Cong(q, p - 1, 0) /\ ~Cong(q, q - 1, 0)
  BY <1>2, <1>3, <1>4, <1>5 DEF Primes
<1>7. ~Cong(p, phi, 0) /\ ~Cong(q, phi, 0)
  <2>1. p - 1 \in Int /\ q - 1 \in Int
    BY <1>3
  <2> QED
    BY <1>6, <2>1, PrimeProduct DEF phi, Primes
<1>8. phi \in Nat
  BY Derived DEF phi
<1>9. \E z \in 1 .. p * q - 1 : (z * phi) % (p * q) = 1
  BY <1>7, <1>8, InverseOfTwo DEF Primes
<1>10. \E z \in 1 .. n - 1 : (z * phi) % n = 1
  BY <1>9 DEF n
<1>11. u = CHOOSE z \in 1 .. n - 1 : (z * phi) % n = 1
  BY <1>10 DEF u, InverseMod
<1> HIDE DEF u
<1> QED
  BY <1>10, <1>11

\* dec returns what a ciphertext says.
LEMMA DecCipher ==
  ASSUME Primes(p, q), p # q, p \in PrimeRange, q \in PrimeRange,
         NEW e \in Nat, NEW x \in 0 .. n - 1, Cipher(p, q, e, x)
  PROVE  dec(e) = x
<1>0. /\ n \in Nat \ {0} /\ n \in Int /\ n > 1 /\ n2 \in Nat \ {0}
      /\ n2 \in Int /\ phi \in Nat /\ phi \in Int /\ n2 = n * n
      /\ 1 \in Int /\ x \in Nat /\ x \in Int /\ x \in 0 .. n - 1
  BY Derived DEF n, n2, phi
<1>1. u \in 1 .. n - 1 /\ u \in Int /\ (u * phi) % n = 1
  BY <1>0, PhiInverse
<1>2. Cong(n2, Power(e)[phi], 1 + (x * phi) * n)
  BY DEF Cipher, n2, n, phi
<1> DEFINE y == x * phi
           w == y % n
           d == y \div n
<1>3. y \in Int /\ w \in 0 .. n - 1 /\ w \in Int /\ d \in Int /\ y = n * d + w
  <2>1. y \in Int
    BY <1>0
  <2> HIDE DEF y
  <2> QED
    BY <1>0, <2>1, DivMod
<1>4. Cong(n, w, y)
  BY <1>0, <1>3, Reduced
<1> HIDE DEF w, d
<1>5. PowMod(e, phi, n2) = 1 + w * n
  <2>1. PowMod(e, phi, n2) = Power(e)[phi] % n2 /\ Power(e)[phi] \in Nat
    BY <1>0, PowModIsPower, PowerStep
  <2>2. Power(e)[phi] % n2 = (1 + y * n) % n2
    <3>1. Power(e)[phi] \in Int /\ 1 + y * n \in Int
      BY <1>0, <1>3, <2>1
    <3> DEFINE v == Power(e)[phi]
               z == 1 + y * n
    <3>2. v \in Int /\ z \in Int /\ Cong(n2, v, z)
      BY <1>2, <3>1
    <3> HIDE DEF v, z
    <3>3. v % n2 = z % n2
      BY <1>0, <3>2, CongMod
    <3> QED
      BY <3>3 DEF v, z
  <2>3. 1 + w * n \in 0 .. n2 - 1
    <3>1. w * n >= 0 /\ w * n <= (n - 1) * n
      BY <1>0, <1>3
    <3>2. (n - 1) * n = n * n - n /\ n * n \in Int /\ w * n \in Int
      BY <1>0, <1>3
    <3> QED
      BY <1>0, <3>1, <3>2
  <2>4. 1 + y * n = n2 * d + (1 + w * n)
    <3> HIDE DEF y
    <3>1. (n * d + w) * n = (n * n) * d + w * n
      BY <1>0, <1>3
    <3>2. (n * n) * d \in Int /\ w * n \in Int
      BY <1>0, <1>3
    <3> QED
      BY <1>0, <1>3, <3>1, <3>2
  <2>5. (1 + y * n) % n2 = 1 + w * n
    <3>1. 1 + y * n \in Int
      BY <1>0, <1>3
    <3> HIDE DEF y
    <3> QED
      BY <1>0, <1>3, <2>3, <2>4, <3>1, ModUnique
  <2> QED
    BY <2>1, <2>2, <2>5
<1>6. (PowMod(e, phi, n2) - 1) \div n = w
  <2>1. PowMod(e, phi, n2) - 1 = n * w + 0 /\ n * w + 0 \in Int /\ 0 \in 0 .. n - 1
    BY <1>0, <1>3, <1>5
  <2> QED
    BY <1>0, <1>3, <2>1, DivUnique
<1>7. dec(e) = (w * u) % n
  BY <1>6 DEF dec
<1>8. Cong(n, w * u, x)
  <2> HIDE DEF y
  <2>1. Cong(n, w * u, y * u)
    <3>1. Cong(n, u, u)
      BY <1>0, <1>1, CongRefl
    <3> QED
      BY <1>0, <1>1, <1>3, <1>4, <3>1, CongTimes, Zenon
  <2>2. Cong(n, u * phi, 1)
    <3>1. 1 % n = 1 /\ u * phi \in Int
      BY <1>0, <1>1, ModSmall
    <3> QED
      BY <1>0, <1>1, <3>1, CongMod
  <2>3. Cong(n, x * (u * phi), x * 1)
    <3>1. Cong(n, x, x) /\ u * phi \in Int
      BY <1>0, <1>1, CongRefl
    <3> QED
      BY <1>0, <2>2, <3>1, CongTimes, Zenon
  <2>4. y * u = x * (u * phi) /\ x * 1 = x
    <3>1. (x * phi) * u = x * (u * phi)
      BY <1>0, <1>1
    <3> QED
      BY <1>0, <3>1 DEF y
  <2>5. Cong(n, y * u, x)
    BY <2>3, <2>4
  <2>6. w * u \in Int /\ y * u \in Int
    BY <1>1, <1>3
  <2> QED
    BY <1>0, <2>1, <2>5, <2>6, CongTrans, Zenon
<1>9. (w * u) % n = x
  <2>1. w * u \in Int /\ x % n = x
    BY <1>0, <1>1, <1>3, ModSmall
  <2> QED
    BY <1>0, <1>8, <2>1, CongMod
<1> QED
  BY <1>7, <1>9

-----------------------------------------------------------------------------
(* The inductive invariant.                                                *)

Travelling == pc \in {"power", "times", "again", "dec"}

\* Before the primes are drawn every number is zero; then they stay.
KeysInv == IF pc = "keys" THEN c = 0 /\ plain = 0 /\ result = 0
           ELSE Primes(p, q) /\ p \in PrimeRange /\ q \in PrimeRange

\* unit tells the truth about the number that travels.
UnitInv == Travelling /\ unit => ~Cong(p, c, 0) /\ ~Cong(q, c, 0)

\* A number that travels and shares no factor with n says plain.
CipherInv == Travelling /\ p # q /\ ~Cong(p, c, 0) /\ ~Cong(q, c, 0)
                 => Cipher(p, q, c, plain)

\* What travels is reduced, as TypeOK says but for the zeros of Init.
RangeInv == Travelling => c \in 0 .. n2 - 1 /\ plain \in 0 .. n - 1

IInv == /\ TypeOK
        /\ KeysInv
        /\ UnitInv
        /\ CipherInv
        /\ RangeInv
        /\ Homomorphic
        /\ ThrowsOnlyForBadRandomness

\* Initially nothing travels.
LEMMA InitIInv == Init => IInv
BY DEF Init, IInv, TypeOK, KeysInv, UnitInv, CipherInv, RangeInv, Travelling,
       Homomorphic, ThrowsOnlyForBadRandomness

\* The primes come from PrimeRange.
LEMMA KeysIInv == IInv /\ Keys => IInv'
<1> SUFFICES ASSUME IInv, Keys PROVE IInv'
  OBVIOUS
<1>1. /\ pc = "keys" /\ pc' = "enc" /\ c' = 0 /\ plain' = 0
      /\ unit' = unit /\ result' = 0 /\ unit \in BOOLEAN
      /\ p' \in PrimeRange /\ q' \in PrimeRange /\ IsPrime(p') /\ IsPrime(q')
  BY DEF Keys, IInv, KeysInv, TypeOK
<1>2. TypeOK'
  BY <1>1 DEF TypeOK, PrimeRange
<1>3. KeysInv'
  BY <1>1 DEF KeysInv, Primes, PrimeRange
<1>4. ~Travelling' /\ pc' # "done" /\ pc' # "threw"
  BY <1>1 DEF Travelling
<1> QED
  BY <1>2, <1>3, <1>4 DEF IInv, UnitInv, CipherInv, RangeInv, Homomorphic,
     ThrowsOnlyForBadRandomness

\* What the primes are worth in every state but the first.
LEMMA Drawn ==
  ASSUME IInv, pc # "keys"
  PROVE  /\ Primes(p, q) /\ p \in PrimeRange /\ q \in PrimeRange
         /\ IsPrime(p) /\ IsPrime(q)
         /\ n \in Nat \ {0} /\ n \in Int /\ n > 1
         /\ n2 \in Nat \ {0} /\ n2 \in Int /\ n2 > n
         /\ n2 = (p * q) * (p * q) /\ n = p * q
         /\ p \in Nat \ {0} /\ q \in Nat \ {0}
<1>1. Primes(p, q) /\ p \in PrimeRange /\ q \in PrimeRange
  BY DEF IInv, KeysInv
<1> QED
  BY <1>1, Derived DEF n, n2, Primes

\* What enc is given.
LEMMA Given ==
  ASSUME IInv, pc # "keys", NEW m \in Plaintexts, NEW r \in Randomness
  PROVE  /\ m \in 0 .. n - 1 /\ m \in Nat /\ r \in Nat
         /\ Unit(r) <=> ~Cong(p, r, 0) /\ ~Cong(q, r, 0)
<1>0. n \in Nat /\ n > 1 /\ p \in Nat \ {0} /\ q \in Nat \ {0} /\ n \in Nat \ {0}
  BY Drawn
<1> HIDE DEF n
<1>1. n \div 2 \in 0 .. n - 1
  BY <1>0
<1>2. ASSUME NEW k \in Samples PROVE k % n \in 0 .. n - 1
  <2>1. k \in Int
    BY PaillierAssumption
  <2> QED
    BY <1>0, <2>1
<1>3. m \in 0 .. n - 1
  <2>1. CASE m \in {0, 1, n \div 2, n - 1}
    BY <1>0, <1>1, <2>1
  <2>2. CASE m \in {k % n : k \in Samples}
    BY <1>2, <2>2
  <2> QED
    BY <2>1, <2>2 DEF Plaintexts
<1>4. r \in Nat
  <2>1. CASE r \in {1, 2, p, q, n - 1, n}
    BY <1>0, <2>1
  <2>2. CASE r \in {1 + (k % n) : k \in Samples}
    <3>1. PICK k \in Samples : r = 1 + (k % n)
      BY <2>2
    <3> QED
      BY <1>0, <1>2, <3>1
  <2> QED
    BY <2>1, <2>2 DEF Randomness
<1>5. /\ Cong(p, r, 0) <=> r % p = 0
      /\ Cong(q, r, 0) <=> r % q = 0
  <2>1. r \in Int
    BY <1>4
  <2> QED
    BY <1>0, <2>1, Divides
<1> QED
  BY <1>0, <1>3, <1>4, <1>5 DEF Unit

\* A step between two ciphertexts keeps the invariant when it keeps the truth
\* about unit and plain.
LEMMA StepIInv ==
  ASSUME IInv, pc # "keys", pc' \in {"power", "times", "again", "dec"},
         p' = p, q' = q, result' = result, unit' \in BOOLEAN,
         c' \in 0 .. n2 - 1, plain' \in 0 .. n - 1,
         unit' => ~Cong(p, c', 0) /\ ~Cong(q, c', 0),
         p # q /\ ~Cong(p, c', 0) /\ ~Cong(q, c', 0) => Cipher(p, q, c', plain')
  PROVE  IInv'
<1>1. n' = n /\ n2' = n2
  BY DEF n, n2
<1>2. TypeOK'
  <2>1. TypeOK
    BY DEF IInv
  <2>2. {p, q} \subseteq {0} \union PrimeRange /\ (result = 0 \/ result \in 0 .. n - 1)
    BY <2>1 DEF TypeOK
  <2>3. ({p, q} \subseteq {0} \union PrimeRange)'
    BY <2>2 DEF PrimeRange
  <2> QED
    BY <1>1, <2>2, <2>3 DEF TypeOK
<1>3. KeysInv'
  <2>1. Primes(p, q) /\ p \in PrimeRange /\ q \in PrimeRange
    BY Drawn
  <2> QED
    BY <2>1 DEF KeysInv, PrimeRange
<1>4. UnitInv'
  BY DEF UnitInv
<1>5. CipherInv'
  BY DEF CipherInv
<1>6. RangeInv'
  BY <1>1 DEF RangeInv
<1>7. pc' # "done" /\ pc' # "threw"
  OBVIOUS
<1> QED
  BY <1>2, <1>3, <1>4, <1>5, <1>6, <1>7 DEF IInv, Homomorphic,
     ThrowsOnlyForBadRandomness

\* An encryption travels: it shares a prime with n when its randomness does.
LEMMA EncryptIInv == IInv /\ Encrypt => IInv'
<1> SUFFICES ASSUME IInv, Encrypt PROVE IInv'
  OBVIOUS
<1>1. pc = "enc" /\ pc' = "power" /\ p' = p /\ q' = q /\ result' = result
  BY DEF Encrypt
<1>2. PICK m \in Plaintexts, r \in Randomness :
        c' = enc(m, r) /\ plain' = m /\ unit' = Unit(r)
  BY DEF Encrypt
<1>3. /\ m \in 0 .. n - 1 /\ m \in Nat /\ r \in Nat
      /\ Unit(r) <=> ~Cong(p, r, 0) /\ ~Cong(q, r, 0)
  BY <1>1, Given
<1>4. Primes(p, q)
  BY <1>1, Drawn
<1>5. /\ enc(m, r) \in 0 .. n2 - 1
      /\ Cong(p, enc(m, r), 0) <=> Cong(p, r, 0)
      /\ Cong(q, enc(m, r), 0) <=> Cong(q, r, 0)
  BY <1>3, <1>4, EncIs, EncUnit
<1>6. p # q /\ ~Cong(p, c', 0) /\ ~Cong(q, c', 0) => Cipher(p, q, c', plain')
  BY <1>2, <1>3, <1>4, <1>5, EncCipher
<1>7. unit' \in BOOLEAN
  BY <1>2 DEF Unit
<1>8. unit' => ~Cong(p, c', 0) /\ ~Cong(q, c', 0)
  BY <1>2, <1>3, <1>5
<1>9. c' \in 0 .. n2 - 1 /\ plain' \in 0 .. n - 1
  BY <1>2, <1>3, <1>5
<1> QED
  BY <1>1, <1>6, <1>7, <1>8, <1>9, StepIInv

\* The product of two ciphertexts, reduced: it is prime to n when both are, and
\* then it says the sum.
LEMMA Product ==
  ASSUME Primes(p, q), NEW d \in Nat, NEW e \in Nat
  PROVE  /\ (d * e) % n2 \in 0 .. n2 - 1 /\ (d * e) % n2 \in Nat /\ d * e \in Nat
         /\ Cong((p * q) * (p * q), (d * e) % n2, d * e)
         /\ Cong(p, (d * e) % n2, 0) <=> Cong(p, d, 0) \/ Cong(p, e, 0)
         /\ Cong(q, (d * e) % n2, 0) <=> Cong(q, d, 0) \/ Cong(q, e, 0)
<1>0. n2 \in Nat \ {0} /\ n2 = (p * q) * (p * q) /\ IsPrime(p) /\ IsPrime(q)
  BY Derived DEF n2, n, Primes
<1> HIDE DEF n2
<1>1. d * e \in Nat /\ d * e \in Int /\ d \in Int /\ e \in Int
  OBVIOUS
<1> DEFINE y == d * e
           v == y % n2
<1>2. v \in 0 .. n2 - 1 /\ v \in Nat /\ Cong(n2, v, y)
  <2> HIDE DEF y
  <2> QED
    BY <1>0, <1>1, Reduced DEF y
<1> HIDE DEF v
<1>3. /\ Cong(p, v, 0) <=> Cong(p, y, 0)
      /\ Cong(q, v, 0) <=> Cong(q, y, 0)
  BY <1>0, <1>1, <1>2, SharedFactor
<1>4. /\ Cong(p, y, 0) <=> Cong(p, d, 0) \/ Cong(p, e, 0)
      /\ Cong(q, y, 0) <=> Cong(q, d, 0) \/ Cong(q, e, 0)
  BY <1>0, <1>1, DividesProduct
<1>5. Cong((p * q) * (p * q), v, y)
  BY <1>0, <1>2
<1> HIDE DEF y
<1>6. /\ v \in 0 .. n2 - 1 /\ v \in Nat /\ Cong((p * q) * (p * q), v, y)
      /\ Cong(p, v, 0) <=> Cong(p, d, 0) \/ Cong(p, e, 0)
      /\ Cong(q, v, 0) <=> Cong(q, d, 0) \/ Cong(q, e, 0)
  BY <1>2, <1>3, <1>4, <1>5
<1> QED
  BY <1>1, <1>6 DEF v, y

\* The sum travels.
LEMMA TimesIInv == IInv /\ Times => IInv'
<1> SUFFICES ASSUME IInv, Times PROVE IInv'
  OBVIOUS
<1>1. /\ pc \in {"times", "again"} /\ pc' \in {"again", "dec"}
      /\ p' = p /\ q' = q /\ result' = result
  BY DEF Times
<1>2. PICK m \in Plaintexts, r \in Randomness :
        /\ c' = (c * enc(m, r)) % n2 /\ plain' = (plain + m) % n
        /\ unit' = (unit /\ Unit(r))
  BY DEF Times
<1>3. /\ m \in 0 .. n - 1 /\ m \in Nat /\ r \in Nat
      /\ Unit(r) <=> ~Cong(p, r, 0) /\ ~Cong(q, r, 0)
  BY <1>1, Given
<1>4. Primes(p, q) /\ n \in Nat \ {0} /\ n = p * q /\ n2 \in Nat \ {0}
  BY <1>1, Drawn
<1> HIDE DEF n, n2
<1> DEFINE e == enc(m, r)
<1>5. /\ e \in Nat
      /\ Cong(p, e, 0) <=> Cong(p, r, 0)
      /\ Cong(q, e, 0) <=> Cong(q, r, 0)
  BY <1>3, <1>4, EncIs, EncUnit
<1>6. p # q /\ ~Cong(p, e, 0) /\ ~Cong(q, e, 0) => Cipher(p, q, e, m)
  BY <1>3, <1>4, <1>5, EncCipher
<1> HIDE DEF e
<1>7. /\ c \in Nat /\ plain \in Nat
      /\ unit => ~Cong(p, c, 0) /\ ~Cong(q, c, 0)
      /\ p # q /\ ~Cong(p, c, 0) /\ ~Cong(q, c, 0) => Cipher(p, q, c, plain)
  <2>1. UnitInv /\ CipherInv /\ RangeInv /\ Travelling
    BY <1>1 DEF IInv, Travelling
  <2> QED
    BY <1>4, <2>1 DEF UnitInv, CipherInv, RangeInv
<1>8. c' = (c * e) % n2
  BY <1>2 DEF e
<1>9. /\ c' \in 0 .. n2 - 1 /\ c' \in Nat /\ c * e \in Nat
      /\ Cong((p * q) * (p * q), c', c * e)
      /\ Cong(p, c', 0) <=> Cong(p, c, 0) \/ Cong(p, e, 0)
      /\ Cong(q, c', 0) <=> Cong(q, c, 0) \/ Cong(q, e, 0)
  BY <1>4, <1>5, <1>7, <1>8, Product
<1>10. /\ plain' \in 0 .. n - 1 /\ plain' \in Nat
       /\ Cong(p * q, plain', plain + m) /\ plain + m \in Nat
  <2>1. plain + m \in Nat /\ plain + m \in Int
    BY <1>3, <1>7
  <2>2. plain' \in 0 .. n - 1 /\ Cong(n, plain', plain + m)
    BY <1>2, <1>4, <2>1, Reduced
  <2> QED
    BY <1>4, <2>1, <2>2
<1>11. ASSUME p # q, ~Cong(p, c', 0), ~Cong(q, c', 0)
       PROVE  Cipher(p, q, c', plain')
  <2>1. Cipher(p, q, c, plain) /\ Cipher(p, q, e, m)
    BY <1>6, <1>7, <1>9, <1>11
  <2>2. Cipher(p, q, c * e, plain + m)
    BY <1>3, <1>4, <1>5, <1>7, <2>1, CipherTimes
  <2> QED
    BY <1>4, <1>9, <1>10, <2>2, CipherMod
<1>12. unit' \in BOOLEAN
  <2>1. unit \in BOOLEAN
    BY DEF IInv, TypeOK
  <2> QED
    BY <1>2, <2>1 DEF Unit
<1>13. unit' => ~Cong(p, c', 0) /\ ~Cong(q, c', 0)
  BY <1>2, <1>3, <1>5, <1>7, <1>9
<1> QED
  BY <1>1, <1>9, <1>10, <1>11, <1>12, <1>13, StepIInv

\* The multiple travels. With exponent 0 it is 1, whatever travelled.
LEMMA RaiseIInv == IInv /\ Raise => IInv'
<1> SUFFICES ASSUME IInv, Raise PROVE IInv'
  OBVIOUS
<1>1. /\ pc = "power" /\ pc' = "times" /\ p' = p /\ q' = q
      /\ result' = result /\ unit' = unit
  BY DEF Raise
<1>2. PICK t \in Factors : c' = PowMod(c, t, n2) /\ plain' = (plain * t) % n
  BY DEF Raise
<1>3. /\ Primes(p, q) /\ IsPrime(p) /\ IsPrime(q)
      /\ n \in Nat \ {0} /\ n = p * q /\ n2 \in Nat \ {0} /\ n2 = (p * q) * (p * q)
  BY <1>1, Drawn
<1> HIDE DEF n, n2
<1>4. t \in Nat
  BY PaillierAssumption
<1>5. /\ c \in Nat /\ plain \in Nat
      /\ unit => ~Cong(p, c, 0) /\ ~Cong(q, c, 0)
      /\ p # q /\ ~Cong(p, c, 0) /\ ~Cong(q, c, 0) => Cipher(p, q, c, plain)
  <2>1. UnitInv /\ CipherInv /\ RangeInv /\ Travelling
    BY <1>1 DEF IInv, Travelling
  <2> QED
    BY <1>3, <2>1 DEF UnitInv, CipherInv, RangeInv
<1> DEFINE x == Power(c)[t]
<1>6. x \in Nat /\ x \in Int /\ c' = x % n2
  <2>1. x \in Nat
    BY <1>4, <1>5, PowerStep
  <2> QED
    BY <1>2, <1>3, <1>4, <1>5, <2>1, PowModIsPower
<1>7. /\ Cong(p, x, 0) => Cong(p, c, 0)
      /\ Cong(q, x, 0) => Cong(q, c, 0)
      /\ t # 0 /\ Cong(p, c, 0) => Cong(p, x, 0)
      /\ t # 0 /\ Cong(q, c, 0) => Cong(q, x, 0)
  BY <1>3, <1>4, <1>5, DividesPower
<1>8. ASSUME p # q, ~Cong(p, x, 0), ~Cong(q, x, 0)
      PROVE  Cipher(p, q, x, plain * t)
  <2>1. CASE t = 0
    <3>1. x = 1 /\ plain * t = 0
      BY <1>5, <2>1, PowerStep
    <3> QED
      BY <1>3, <3>1, CipherOne
  <2>2. CASE t # 0
    <3>1. Cipher(p, q, c, plain)
      BY <1>5, <1>7, <1>8, <2>2
    <3> QED
      BY <1>3, <1>4, <1>5, <3>1, CipherPower
  <2> QED
    BY <2>1, <2>2
<1> HIDE DEF x
<1>9. c' \in 0 .. n2 - 1 /\ c' \in Nat /\ Cong((p * q) * (p * q), c', x)
  <2>1. c' \in 0 .. n2 - 1 /\ Cong(n2, c', x)
    BY <1>3, <1>6, Reduced
  <2> QED
    BY <1>3, <2>1
<1>10. /\ Cong(p, c', 0) <=> Cong(p, x, 0)
       /\ Cong(q, c', 0) <=> Cong(q, x, 0)
  BY <1>3, <1>6, <1>9, SharedFactor
<1>11. /\ plain' \in 0 .. n - 1 /\ plain' \in Nat /\ plain * t \in Nat
       /\ Cong(p * q, plain', plain * t)
  <2>1. plain * t \in Nat /\ plain * t \in Int
    BY <1>4, <1>5
  <2>2. plain' \in 0 .. n - 1 /\ Cong(n, plain', plain * t)
    BY <1>2, <1>3, <2>1, Reduced
  <2> QED
    BY <1>3, <2>1, <2>2
<1>12. ASSUME p # q, ~Cong(p, c', 0), ~Cong(q, c', 0)
       PROVE  Cipher(p, q, c', plain')
  <2>1. Cipher(p, q, x, plain * t)
    BY <1>8, <1>10, <1>12
  <2> QED
    BY <1>3, <1>6, <1>9, <1>11, <2>1, CipherMod
<1>13. unit' \in BOOLEAN
  BY <1>1 DEF IInv, TypeOK
<1>14. unit' => ~Cong(p, c', 0) /\ ~Cong(q, c', 0)
  BY <1>1, <1>5, <1>7, <1>10
<1> QED
  BY <1>1, <1>9, <1>11, <1>12, <1>13, <1>14, StepIInv

\* What travelled is decrypted; a number that shares no factor with n is not 0,
\* so dec accepts it.
LEMMA DecryptIInv == IInv /\ Decrypt => IInv'
<1> SUFFICES ASSUME IInv, Decrypt PROVE IInv'
  OBVIOUS
<1>1. /\ pc = "dec" /\ UNCHANGED <<p, q, c, plain, unit>>
      /\ \/ Decryptable /\ result' = dec(c) /\ pc' = "done"
         \/ ~Decryptable /\ pc' = "threw" /\ result' = result
  BY DEF Decrypt
<1>2. /\ Primes(p, q) /\ p \in PrimeRange /\ q \in PrimeRange
      /\ p \in Nat \ {0} /\ q \in Nat \ {0}
      /\ n \in Nat \ {0} /\ n > 1 /\ n2 \in Nat \ {0}
  BY <1>1, Drawn
<1>3. /\ c \in 0 .. n2 - 1 /\ plain \in 0 .. n - 1
      /\ unit => ~Cong(p, c, 0) /\ ~Cong(q, c, 0)
      /\ p # q /\ ~Cong(p, c, 0) /\ ~Cong(q, c, 0) => Cipher(p, q, c, plain)
  <2>1. UnitInv /\ CipherInv /\ RangeInv /\ Travelling
    BY <1>1 DEF IInv, Travelling
  <2> QED
    BY <2>1 DEF UnitInv, CipherInv, RangeInv
<1>4. n' = n /\ n2' = n2
  BY <1>1 DEF n, n2
<1>5. /\ TypeOK
      /\ {p, q} \subseteq {0} \union PrimeRange /\ unit \in BOOLEAN
      /\ result = 0 \/ result \in 0 .. n - 1
  BY DEF IInv, TypeOK
<1>6. dec(c) \in 0 .. n - 1
  <2> DEFINE y == ((PowMod(c, phi, n2) - 1) \div n) * u
  <2>1. y \in Int
    <3>1. phi \in Nat
      BY <1>2, Derived DEF phi
    <3>2. PowMod(c, phi, n2) = Power(c)[phi] % n2 /\ Power(c)[phi] \in Nat
      BY <1>2, <1>3, <3>1, PowModIsPower, PowerStep
    <3> DEFINE a == PowMod(c, phi, n2)
    <3>3. a \in Int
      BY <1>2, <3>2
    <3>4. u \in Int
      BY <1>2 DEF u, InverseMod
    <3> HIDE DEF a, u, n
    <3>5. (a - 1) \div n \in Int
      BY <1>2, <3>3
    <3> QED
      BY <3>4, <3>5 DEF a
  <2> HIDE DEF y, n
  <2>2. y % n \in 0 .. n - 1
    BY <1>2, <2>1
  <2> QED
    BY <2>2 DEF dec, y
<1> HIDE DEF n, n2
<1>7. TypeOK'
  <2>1. ({p, q} \subseteq {0} \union PrimeRange)'
    BY <1>1, <1>5 DEF PrimeRange
  <2>2. (result = 0 \/ result \in 0 .. n - 1)'
    BY <1>1, <1>4, <1>5, <1>6
  <2>3. (c = 0 \/ c \in 0 .. n2 - 1)' /\ (plain = 0 \/ plain \in 0 .. n - 1)'
    BY <1>1, <1>3, <1>4
  <2> QED
    BY <1>1, <1>5, <2>1, <2>2, <2>3 DEF TypeOK
<1>8. KeysInv'
  BY <1>1, <1>2 DEF KeysInv, PrimeRange
<1>9. ~Travelling'
  BY <1>1 DEF Travelling
<1>10. /\ Cong(p, c, 0) <=> c % p = 0
       /\ Cong(q, c, 0) <=> c % q = 0
  <2>1. c \in Int
    BY <1>3
  <2> QED
    BY <1>2, <2>1, Divides
<1>11. Homomorphic'
  <2> SUFFICES ASSUME pc' = "done", p # q PROVE result' = plain
    BY <1>1 DEF Homomorphic
  <2>1. Decryptable /\ result' = dec(c)
    BY <1>1
  <2>2. ~Cong(p, c, 0) /\ ~Cong(q, c, 0)
    BY <1>10, <2>1 DEF Decryptable
  <2>3. Cipher(p, q, c, plain) /\ c \in Nat
    BY <1>3, <2>2
  <2> QED
    BY <1>2, <1>3, <2>1, <2>3, DecCipher
<1>12. ThrowsOnlyForBadRandomness'
  <2> SUFFICES ASSUME pc' = "threw", unit PROVE FALSE
    BY <1>1 DEF ThrowsOnlyForBadRandomness
  <2>1. c % p # 0 /\ c % q # 0
    BY <1>3, <1>10
  <2>2. c > 0 /\ c < n2
    <3>1. 0 % p = 0
      BY <1>2
    <3> QED
      BY <1>2, <1>3, <2>1, <3>1
  <2>3. Decryptable
    BY <2>1, <2>2 DEF Decryptable
  <2> QED
    BY <1>1, <2>3
<1> QED
  BY <1>7, <1>8, <1>9, <1>11, <1>12 DEF IInv, UnitInv, CipherInv, RangeInv

\* A step that changes nothing keeps it.
LEMMA StutterIInv == IInv /\ UNCHANGED vars => IInv'
BY DEF IInv, TypeOK, KeysInv, UnitInv, CipherInv, RangeInv, Travelling,
       Homomorphic, ThrowsOnlyForBadRandomness, PrimeRange, n, n2, vars

\* Every step keeps the invariant.
LEMMA NextIInv == IInv /\ [Next]_vars => IInv'
BY KeysIInv, EncryptIInv, RaiseIInv, TimesIInv, DecryptIInv, StutterIInv DEF Next

\* The inductive invariant.
THEOREM Invariance == Spec => []IInv
BY InitIInv, NextIInv, PTL DEF Spec

\* Every number stays in its range, whatever the primes that are drawn, the
\* messages, the randomness and the exponents.
THEOREM TypeCorrect == Spec => []TypeOK
<1>1. IInv => TypeOK
  BY DEF IInv
<1> QED
  BY <1>1, Invariance, PTL

\* What is decrypted is the combination of the messages that the other party
\* computed on the ciphertexts, modulo n (paillier.cpp's enc and dec, and the
\* powers and products of shared_sig.cpp). Two different primes are enough.
THEOREM DecryptsSums == Spec => []Homomorphic
<1>1. IInv => Homomorphic
  BY DEF IInv
<1> QED
  BY <1>1, Invariance, PTL

\* dec throws only when the randomness of an encryption shared a factor with n:
\* never because the number is out of range, not even for exponent 0.
THEOREM ThrowsForSharedFactor == Spec => []ThrowsOnlyForBadRandomness
<1>1. IInv => ThrowsOnlyForBadRandomness
  BY DEF IInv
<1> QED
  BY <1>1, Invariance, PTL
=============================================================================
