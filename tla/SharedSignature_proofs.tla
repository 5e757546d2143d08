------------------------ MODULE SharedSignature_proofs ------------------------
(***************************************************************************)
(* Proofs about module SharedSignature, for every group of prime order and *)
(* every Paillier modulus beyond its bound.                                *)
(*                                                                         *)
(* The argument: the sum B encrypts does not reach the modulus (NoWrap),   *)
(* so that its plaintext, times B's nonce, is congruent to the right side  *)
(* of ECDSA's equation (BlindedSignature); dividing by S's nonce and       *)
(* taking the lower half keeps the equation (Unblinded, LowHalf), which    *)
(* has one solution for a nonce, that of a single signer (Solution). A     *)
(* signature that solves it verifies (EquationVerifies), unless the nonces *)
(* were a rare draw, and what verifies is a signature (VerifyIsValid).     *)
(***************************************************************************)
EXTENDS SharedSignature, Arithmetic

\* Program counters from a step of the protocol on, but for an exception.
AfterKey   == {"start_sig", "cont_sig", "finish_sig", "signed", "opened"}
AfterStart == {"cont_sig", "finish_sig", "signed", "opened"}
AfterCont  == {"finish_sig", "signed", "opened"}
Signed     == {"signed", "opened"}

\* Both shares are scalars, and both parties computed the same shared key. An
\* exception comes after that.
KeyInv ==
    /\ pc # "init" => /\ ds \in Scalars /\ db \in Scalars
                      /\ Qs = ds /\ Qb = db
    /\ pc \in AfterKey \union {"threw"} => QofS = RedeemKey /\ QofB = RedeemKey

\* S's nonce and ciphertext; B's nonce, the r of both nonces, and a blinded
\* signature that solves the equation of ECDSA once S divides by its nonce. S
\* has no r before it has computed s.
NonceInv ==
    /\ pc \in AfterStart => ks \in Scalars /\ Ks = ks /\ cs = ds
    /\ pc \in AfterCont =>
         /\ kb \in Scalars
         /\ r = X[Nonce] % n /\ r # 0
         /\ dataB
         /\ Cong(n, kb * cb, h + r * (ds * db))
    /\ pc \notin Signed \union {"threw"} => rS = 0

\* S keeps only what it has verified; B's verdict is about what is revealed.
VerdictInv ==
    /\ pc \in Signed /\ ~cheated => Verify(QofS, h, rS, s) /\ s <= n - s
    /\ pc = "opened" => verified = Verify(QofB, h, rS, s)

IInv == /\ TypeOK /\ KeyInv /\ NonceInv /\ VerdictInv
        /\ SignsForSharedKey /\ ThrowsOnlyForRareDraws

-----------------------------------------------------------------------------

\* The order of the group is a prime.
LEMMA Order == n \in Nat /\ n \in Int /\ n \in Nat \ {0} /\ n > 2 /\ IsPrime(n)
BY EcdsaAssumption DEF IsPrime

\* InverseMod computes inverses, as the order is prime.
LEMMA Inverse ==
  ASSUME NEW a \in Scalars
  PROVE  InverseMod(a) \in Scalars /\ Cong(n, InverseMod(a) * a, 1)
<1> DEFINE z == InverseMod(a)
<1>1. z \in Scalars /\ (z * a) % n = 1
  <2>1. \E y \in Scalars : (y * a) % n = 1
    BY Order, PrimeInverse DEF Scalars
  <2> QED
    BY <2>1 DEF InverseMod
<1> HIDE DEF z
<1>2. z * a \in Int /\ 1 \in Int /\ 1 % n = 1
  BY <1>1, Order, ModSmall DEF Scalars
<1>3. Cong(n, z * a, 1)
  BY <1>1, <1>2, Order, CongMod
<1> QED
  BY <1>1, <1>3 DEF z

\* What verify accepts is an ECDSA signature under the key.
LEMMA VerifyIsValid ==
  ASSUME NEW Q \in Int, NEW z \in Int, NEW rr, NEW ss, Verify(Q, z, rr, ss)
  PROVE  ValidFor(Q, z, rr, ss)
<1>1. rr \in Scalars /\ ss \in Scalars /\ rr \in Int /\ ss \in Int
  BY Order DEF Verify, Scalars
<1> DEFINE w == InverseMod(ss)
<1>2. w \in Int /\ Cong(n, w * ss, 1)
  BY <1>1, Inverse, Order DEF Scalars
<1> HIDE DEF w
<1> DEFINE e == z * w + rr * w * Q
           P2 == e % n
<1>3. P2 # 0 /\ X[P2] = rr
  BY DEF Verify, w
<1>4. e \in Int
  BY <1>1, <1>2
<1>5. P2 \in 0 .. n - 1 /\ P2 \in Int /\ Cong(n, P2, e)
  <2> HIDE DEF e
  <2> QED
    BY <1>4, Order, Reduced
<1> HIDE DEF P2
<1>6. P2 \in Scalars
  BY <1>3, <1>5, Order DEF Scalars
<1>7. Cong(n, P2 * ss, z + rr * Q)
  <2>1. PICK t \in Int : P2 = e + n * t
    BY <1>5 DEF Cong
  <2>2. PICK u \in Int : w * ss = 1 + n * u
    BY <1>2 DEF Cong
  <2>3. P2 * ss = (z + rr * Q) * (w * ss) + n * (t * ss)
    BY <1>1, <1>2, <1>5, <2>1, Order
  <2>4. P2 * ss = (z + rr * Q) * (1 + n * u) + n * (t * ss)
    BY <2>2, <2>3
  <2>5. P2 * ss = (z + rr * Q) + n * ((z + rr * Q) * u + t * ss)
    BY <1>1, <2>4, Order
  <2> QED
    BY <1>1, <2>5 DEF Cong
<1>8. (P2 * ss) % n = (z + rr * Q) % n
  <2>1. P2 * ss \in Int /\ z + rr * Q \in Int
    BY <1>1, <1>5
  <2> QED
    BY <1>7, <2>1, CongMod, Order
<1>9. rr = X[P2] % n /\ rr # 0
  BY <1>1, <1>3, Order, ModSmall DEF Scalars
<1> QED
  BY <1>1, <1>6, <1>8, <1>9 DEF ValidFor

\* A solution of ECDSA's equation verifies, if the x coordinate of its nonce is
\* below the order.
LEMMA EquationVerifies ==
  ASSUME NEW Q \in Scalars, NEW z \in Int, NEW k \in Scalars,
         NEW ss \in Scalars, X[k] \in Scalars,
         Cong(n, k * ss, z + X[k] * Q)
  PROVE  Verify(Q, z, X[k], ss)
<1> DEFINE rr == X[k]
           w  == InverseMod(ss)
           e  == z * w + rr * w * Q
           P2 == e % n
<1>1. /\ Q \in Int /\ k \in Int /\ ss \in Int /\ rr \in Int
      /\ k \in 0 .. n - 1 /\ Q # 0 /\ k # 0
  BY Order DEF Scalars
<1>2. w \in Int /\ Cong(n, w * ss, 1)
  BY Inverse, Order DEF Scalars
<1> HIDE DEF w
<1>3. e \in Int
  BY <1>1, <1>2
<1>4. P2 \in 0 .. n - 1 /\ P2 \in Int /\ Cong(n, P2, e)
  <2> HIDE DEF e
  <2> QED
    BY <1>3, Order, Reduced
<1> HIDE DEF rr, P2
<1>5. Cong(n, P2, k)
  <2>1. PICK t \in Int : P2 = e + n * t
    BY <1>4 DEF Cong
  <2>2. PICK u \in Int : w * ss = 1 + n * u
    BY <1>2 DEF Cong
  <2>3. PICK v \in Int : k * ss = (z + rr * Q) + n * v
    BY DEF Cong, rr
  <2>4. w * (z + rr * Q) = w * (k * ss - n * v)
    BY <1>1, <1>2, <2>3, Order
  <2>5. w * (k * ss - n * v) = k * (w * ss) - n * (w * v)
    BY <1>1, <1>2, Order
  <2>6. k * (w * ss) = k + n * (k * u)
    BY <1>1, <1>2, <2>2, Order
  <2>7. e = w * (z + rr * Q)
    BY <1>1, <1>2
  <2>8. P2 = k + n * (k * u - w * v + t) /\ k * u - w * v + t \in Int
    BY <1>1, <1>2, <2>1, <2>4, <2>5, <2>6, <2>7, Order
  <2> QED
    BY <2>8 DEF Cong
<1>6. P2 = k
  BY <1>1, <1>4, <1>5, Order, CongSmall
<1> QED
  BY <1>1, <1>6 DEF Verify, rr, w, P2

\* The equation has one reduced solution for each nonce.
LEMMA Solution ==
  ASSUME NEW k \in Scalars, NEW v \in 0 .. n - 1, NEW e \in Int,
         Cong(n, k * v, e)
  PROVE  (InverseMod(k) * e) % n = v
<1> DEFINE z == InverseMod(k)
<1>1. /\ z \in Int /\ k \in Int /\ v \in Int /\ Cong(n, z * k, 1)
  BY Inverse, Order DEF Scalars
<1> HIDE DEF z
<1>2. PICK t \in Int : z * k = 1 + n * t
  BY <1>1 DEF Cong
<1>3. PICK u \in Int : k * v = e + n * u
  BY DEF Cong
<1>4. z * e = z * (k * v) - n * (z * u)
  BY <1>1, <1>3, Order
<1>5. z * (k * v) = v + n * (t * v)
  <2>1. z * (k * v) = (z * k) * v
    BY <1>1
  <2> QED
    BY <1>1, <1>2, <2>1, Order
<1>6. z * e = v + n * (t * v - z * u) /\ t * v - z * u \in Int
  BY <1>1, <1>4, <1>5, Order
<1>7. Cong(n, z * e, v)
  BY <1>6 DEF Cong
<1>8. z * e \in Int
  BY <1>1
<1>9. (z * e) % n = v % n
  BY <1>1, <1>7, <1>8, CongMod, Order
<1> QED
  BY <1>9, ModSmall, Order DEF z

\* The lower half of a solution is a solution, for the opposite nonce.
LEMMA LowHalf ==
  ASSUME NEW v \in Scalars, NEW k \in Scalars, NEW e \in Int,
         Cong(n, k * v, e)
  PROVE  /\ LowS(v) \in Scalars /\ LowS(v) <= n - LowS(v)
         /\ \E j \in Scalars : X[j] = X[k] /\ Cong(n, j * LowS(v), e)
<1>1. LowS(v) \in Scalars /\ LowS(v) <= n - LowS(v)
  BY Order DEF LowS, Scalars
<1>2. CASE LowS(v) = v
  BY <1>1, <1>2
<1>3. CASE LowS(v) = n - v
  <2> DEFINE j == n - k
  <2>1. j \in Scalars /\ j + k = n /\ j \in Int /\ k \in Int /\ v \in Int
    BY Order DEF Scalars
  <2>2. X[j] = X[k]
    BY <2>1, EcdsaAssumption DEF Scalars
  <2>3. PICK t \in Int : k * v = e + n * t
    BY DEF Cong
  <2>4. j * (n - v) = e + n * (n - k - v + t)
    BY <2>1, <2>3, Order
  <2>5. Cong(n, j * (n - v), e)
    BY <2>1, <2>4, Order DEF Cong
  <2> QED
    BY <1>1, <1>3, <2>1, <2>2, <2>5
<1> QED
  BY <1>2, <1>3 DEF LowS

\* The sums and products of plaintexts stay below the Paillier modulus.
LEMMA NoWrap ==
  ASSUME NEW a \in 0 .. n - 1, NEW d \in 0 .. n - 1, NEW t \in 0 .. n - 1,
         NEW u \in 0 .. n * n - 1
  PROVE  /\ Plus(Plus(a, Times(d, t)), u * n) = a + d * t + u * n
         /\ a + d * t + u * n \in 0 .. N - 1
<1> DEFINE m2 == n * n
           m3 == n * m2
           m4 == n * m3
           x == d * t
           y == u * n
<1>1. /\ a \in Nat /\ d \in Nat /\ t \in Nat /\ u \in Nat
      /\ a < n /\ d < n /\ t < n /\ u < m2
  BY Order
<1>2. m2 \in Nat /\ m3 \in Nat /\ m4 \in Nat /\ x \in Nat /\ y \in Nat
  BY <1>1, Order
<1>3. n <= m2 /\ m2 >= 2 * n
  BY Order
<1> HIDE DEF m2
<1>4. m3 >= 2 * m2
  BY <1>2, Order
<1> HIDE DEF m3
<1>5. m4 >= 2 * m3
  BY <1>2, Order
<1>6. x <= m2
  <2>1. d * t <= n * t
    BY <1>1, Order
  <2>2. n * t <= n * n
    BY <1>1, Order
  <2> QED
    BY <1>1, <2>1, <2>2, Order DEF m2
<1>7. y <= m3
  <2>1. u * n <= m2 * n
    BY <1>1, <1>2, Order
  <2> QED
    BY <1>2, <2>1, Order DEF m3
<1>8. N \in Nat /\ N > m4
  BY SharedSignatureAssumption, Order DEF m2, m3
<1> HIDE DEF x, y, m4
<1>9. /\ N \in Nat \ {0} /\ x \in 0 .. N - 1 /\ a + x \in 0 .. N - 1
      /\ a + x + y \in 0 .. N - 1
  BY <1>1, <1>2, <1>3, <1>4, <1>5, <1>6, <1>7, <1>8, Order
<1>10. x % N = x /\ (a + x) % N = a + x /\ (a + x + y) % N = a + x + y
  <2> DEFINE v == a + x
             w == a + x + y
  <2>1. v \in 0 .. N - 1 /\ w \in 0 .. N - 1
    BY <1>9
  <2> HIDE DEF v, w
  <2>2. v % N = v /\ w % N = w /\ x % N = x
    BY <1>9, <2>1, ModSmall
  <2> QED
    BY <2>2 DEF v, w
<1>11. Plus(Plus(a, Times(d, t)), y) = a + x + y
  BY <1>10 DEF Plus, Times, x
<1> QED
  BY <1>9, <1>11 DEF x, y

\* A scalar is a plaintext.
LEMMA Modulus == N \in Nat /\ 0 .. n - 1 \subseteq 0 .. N - 1 /\ 0 \in 0 .. N - 1
<1>1. /\ n - 1 \in 0 .. n - 1 /\ 0 \in 0 .. n - 1 /\ 0 \in 0 .. n * n - 1
      /\ (n - 1) + 0 * 0 + 0 * n = n - 1
  BY Order
<1>2. n - 1 \in 0 .. N - 1
  BY <1>1, NoWrap
<1> QED
  BY <1>2, Order, SharedSignatureAssumption

\* What the buyer's ciphertext decrypts to, times its nonce, is the right side
\* of the signature equation.
LEMMA BlindedSignature ==
  ASSUME NEW a \in Scalars, NEW k \in Scalars, NEW b \in Scalars,
         NEW z \in Nat, NEW rr \in 0 .. n - 1, NEW u \in 0 .. n * n - 1
  PROVE  LET ki == InverseMod(k)
             c1 == (ki * z) % n
             t  == (((ki * rr) % n) * b) % n
             c  == Plus(Plus(c1, Times(a, t)), u * n)
         IN  c \in 0 .. N - 1 /\ Cong(n, k * c, z + rr * (a * b))
<1> DEFINE ki == InverseMod(k)
           c1 == (ki * z) % n
           q  == (ki * rr) % n
           t  == (q * b) % n
           c  == Plus(Plus(c1, Times(a, t)), u * n)
<1>1. /\ a \in Int /\ k \in Int /\ b \in Int /\ z \in Int /\ rr \in Int
      /\ a \in 0 .. n - 1 /\ u \in Int
  BY Order DEF Scalars
<1>2. ki \in Int /\ Cong(n, ki * k, 1)
  BY Inverse, Order DEF Scalars
<1> HIDE DEF ki
<1>3. c1 \in 0 .. n - 1 /\ c1 \in Int /\ Cong(n, c1, ki * z)
  <2>1. ki * z \in Int
    BY <1>1, <1>2
  <2> QED
    BY <2>1, Order, Reduced
<1>4. q \in Int /\ Cong(n, q, ki * rr)
  <2>1. ki * rr \in Int
    BY <1>1, <1>2
  <2> QED
    BY <2>1, Order, Reduced
<1> HIDE DEF q
<1>5. t \in 0 .. n - 1 /\ t \in Int /\ Cong(n, t, q * b)
  <2>1. q * b \in Int
    BY <1>1, <1>4
  <2> QED
    BY <2>1, Order, Reduced
<1> HIDE DEF c1, t
<1>6. c = c1 + a * t + u * n /\ c \in 0 .. N - 1
  BY <1>1, <1>3, <1>5, NoWrap
<1> HIDE DEF c
<1>7. Cong(n, k * c, z + rr * (a * b))
  <2>1. PICK v1 \in Int : ki * k = 1 + n * v1
    BY <1>2 DEF Cong
  <2>2. PICK v2 \in Int : c1 = ki * z + n * v2
    BY <1>3 DEF Cong
  <2>3. PICK v3 \in Int : q = ki * rr + n * v3
    BY <1>4 DEF Cong
  <2>4. PICK v4 \in Int : t = q * b + n * v4
    BY <1>5 DEF Cong
  <2>5. k * c1 = z + n * (z * v1 + k * v2)
    <3>1. k * c1 = (ki * k) * z + n * (k * v2)
      BY <1>1, <1>2, <2>2, Order
    <3> QED
      BY <1>1, <2>1, <3>1, Order
  <2>6. k * q = rr + n * (rr * v1 + k * v3)
    <3>1. k * q = (ki * k) * rr + n * (k * v3)
      BY <1>1, <1>2, <2>3, Order
    <3> QED
      BY <1>1, <2>1, <3>1, Order
  <2> DEFINE v5 == rr * v1 + k * v3
  <2>7. v5 \in Int /\ k * q = rr + n * v5
    BY <1>1, <2>6
  <2> HIDE DEF v5
  <2>8. k * t = rr * b + n * (b * v5 + k * v4)
    <3>1. k * t = (k * q) * b + n * (k * v4)
      BY <1>1, <1>4, <2>4, Order
    <3> QED
      BY <1>1, <2>7, <3>1, Order
  <2> DEFINE v6 == z * v1 + k * v2
             v7 == b * v5 + k * v4
  <2>9. /\ v6 \in Int /\ v7 \in Int
        /\ k * c1 = z + n * v6 /\ k * t = rr * b + n * v7
    BY <1>1, <2>5, <2>7, <2>8
  <2> HIDE DEF v6, v7
  <2>10. k * c = k * c1 + a * (k * t) + n * (k * u)
    BY <1>1, <1>3, <1>5, <1>6, Order
  <2>11. a * (k * t) = rr * (a * b) + n * (a * v7)
    BY <1>1, <2>9, Order
  <2>12. k * c = (z + rr * (a * b)) + n * (v6 + a * v7 + k * u)
    BY <1>1, <2>9, <2>10, <2>11, Order
  <2>13. v6 + a * v7 + k * u \in Int
    BY <1>1, <2>9
  <2> QED
    BY <2>12, <2>13 DEF Cong
<1>8. c \in 0 .. N - 1 /\ Cong(n, k * c, z + rr * (a * b))
  BY <1>6, <1>7
<1> QED
  BY <1>8 DEF ki, c1, q, t, c

\* The product of two scalars is a scalar, as the order is prime.
LEMMA ScalarProduct ==
  ASSUME NEW a \in Scalars, NEW b \in Scalars
  PROVE  (a * b) % n \in Scalars /\ Cong(n, (a * b) % n, a * b)
<1> DEFINE v == (a * b) % n
<1>1. a \in Int /\ b \in Int /\ a * b \in Int /\ a \in 0 .. n - 1 /\ b \in 0 .. n - 1
      /\ 0 \in 0 .. n - 1 /\ 0 \in Int
  BY Order DEF Scalars
<1>2. v \in 0 .. n - 1 /\ v \in Int /\ Cong(n, v, a * b)
  BY <1>1, Order, Reduced
<1> HIDE DEF v
<1>3. ASSUME v = 0 PROVE FALSE
  <2>1. Cong(n, a * b, 0)
    BY <1>1, <1>2, <1>3, Order, CongSym
  <2>2. Cong(n, a, 0) \/ Cong(n, b, 0)
    BY <1>1, <2>1, Order, PrimeProduct
  <2>3. a = 0 \/ b = 0
    BY <1>1, <2>2, Order, CongSmall
  <2> QED
    BY <2>3, Order DEF Scalars
<1>4. v \in Scalars
  BY <1>2, <1>3, Order DEF Scalars
<1> QED
  BY <1>2, <1>4 DEF v

\* S decrypts, reduces and divides by its nonce: the result is a solution for
\* the product of both nonces.
LEMMA Unblinded ==
  ASSUME NEW a \in Scalars, NEW b \in Scalars, NEW c \in Nat, NEW e \in Int,
         Cong(n, b * c, e)
  PROVE  LET v == (InverseMod(a) * (c % n)) % n
         IN  v \in 0 .. n - 1 /\ Cong(n, ((b * a) % n) * v, e)
<1> DEFINE w == InverseMod(a)
           m == c % n
           v == (w * m) % n
           k == (b * a) % n
<1>1. a \in Int /\ b \in Int /\ c \in Int
  BY Order DEF Scalars
<1>2. w \in Int /\ Cong(n, w * a, 1)
  BY Inverse, Order DEF Scalars
<1>3. m \in Int /\ Cong(n, m, c)
  BY <1>1, Order, Reduced
<1> HIDE DEF w, m
<1>4. v \in 0 .. n - 1 /\ v \in Int /\ Cong(n, v, w * m)
  <2>1. w * m \in Int
    BY <1>2, <1>3
  <2> QED
    BY <2>1, Order, Reduced
<1>5. k \in Int /\ Cong(n, k, b * a)
  BY ScalarProduct, Order DEF Scalars
<1> HIDE DEF v, k
<1>6. Cong(n, k * v, e)
  <2>1. PICK t1 \in Int : w * a = 1 + n * t1
    BY <1>2 DEF Cong
  <2>2. PICK t2 \in Int : m = c + n * t2
    BY <1>3 DEF Cong
  <2>3. PICK t3 \in Int : v = w * m + n * t3
    BY <1>4 DEF Cong
  <2>4. PICK t4 \in Int : k = b * a + n * t4
    BY <1>5 DEF Cong
  <2>5. PICK t5 \in Int : b * c = e + n * t5
    BY DEF Cong
  <2>6. a * v = m + n * (m * t1 + a * t3)
    <3>1. a * v = (w * a) * m + n * (a * t3)
      BY <1>1, <1>2, <1>3, <2>3, Order
    <3> QED
      BY <1>1, <1>3, <2>1, <3>1, Order
  <2> DEFINE t6 == m * t1 + a * t3
  <2>7. t6 \in Int /\ a * v = m + n * t6
    BY <1>1, <1>3, <2>6
  <2> HIDE DEF t6
  <2>8. b * m = e + n * (t5 + b * t2)
    BY <1>1, <2>2, <2>5, Order
  <2>9. k * v = b * (a * v) + n * (t4 * v)
    BY <1>1, <1>4, <2>4, Order
  <2>10. b * (a * v) = b * m + n * (b * t6)
    BY <1>1, <1>3, <2>7, Order
  <2>11. k * v = e + n * (t5 + b * t2 + b * t6 + t4 * v)
    <3>1. k * v = e + n * (t5 + b * t2) + n * (b * t6) + n * (t4 * v)
      BY <2>8, <2>9, <2>10
    <3> QED
      BY <1>1, <1>4, <2>7, <3>1, Order
  <2>12. t5 + b * t2 + b * t6 + t4 * v \in Int
    BY <1>1, <1>4, <2>7
  <2> QED
    BY <2>11, <2>12 DEF Cong
<1>7. v \in 0 .. n - 1 /\ Cong(n, k * v, e)
  BY <1>4, <1>6
<1> QED
  BY <1>7 DEF w, m, v, k

-----------------------------------------------------------------------------

\* Before the protocol the invariant holds.
LEMMA InitIInv == Init => IInv
<1> SUFFICES ASSUME Init PROVE IInv
  OBVIOUS
<1>1. 0 \in 0 .. n - 1 /\ 0 \in 0 .. n /\ 0 \in 0 .. N - 1
  BY Modulus, Order
<1>2. TypeOK
  BY <1>1 DEF Init, TypeOK
<1> QED
  BY <1>2 DEF Init, IInv, KeyInv, NonceInv, VerdictInv, AfterKey, AfterStart,
     AfterCont, Signed, SignsForSharedKey, ThrowsOnlyForRareDraws

\* The keys: a step of start_init.
LEMMA StartInitIInv == IInv /\ StartInit => IInv'
<1> SUFFICES ASSUME IInv, StartInit PROVE IInv'
  OBVIOUS
<1> USE DEF IInv, StartInit, inputs, sigVars
<1>1. TypeOK'
  BY Order DEF TypeOK, Scalars
<1>2. KeyInv'
  BY DEF KeyInv, AfterKey
<1>3. NonceInv' /\ VerdictInv' /\ ThrowsOnlyForRareDraws'
  BY DEF NonceInv, VerdictInv, ThrowsOnlyForRareDraws, AfterStart, AfterCont,
         Signed
<1>4. SignsForSharedKey'
  BY DEF NonceInv, Signed, SignsForSharedKey
<1> QED
  BY <1>1, <1>2, <1>3, <1>4

\* The shared key: both parties multiply the other's point by their share.
LEMMA FinishInitIInv == IInv /\ FinishInit => IInv'
<1> SUFFICES ASSUME IInv, FinishInit PROVE IInv'
  OBVIOUS
<1> USE DEF IInv, FinishInit, inputs, sigVars
<1>1. ds \in Scalars /\ db \in Scalars /\ Qs = ds /\ Qb = db
  BY DEF KeyInv
<1>2. QofS' = RedeemKey /\ QofB' = RedeemKey
  <2>1. ds * db = db * ds
    BY <1>1, Order DEF Scalars
  <2> QED
    BY <1>1, <2>1 DEF RedeemKey
<1>3. RedeemKey \in Scalars /\ RedeemKey' = RedeemKey
  BY <1>1, ScalarProduct DEF RedeemKey
<1>4. pc' = "start_sig"
  BY <1>2
<1>5. TypeOK'
  BY <1>2, <1>3, <1>4, Order DEF TypeOK, Scalars
<1>6. KeyInv'
  BY <1>1, <1>2, <1>3, <1>4 DEF KeyInv, AfterKey
<1>7. NonceInv' /\ VerdictInv' /\ ThrowsOnlyForRareDraws'
  BY <1>4 DEF NonceInv, VerdictInv, ThrowsOnlyForRareDraws, AfterStart,
              AfterCont, Signed
<1>8. SignsForSharedKey'
  BY DEF NonceInv, Signed, SignsForSharedKey
<1> QED
  BY <1>5, <1>6, <1>7, <1>8

\* S's nonce.
LEMMA StartSigIInv == IInv /\ StartSig => IInv'
<1> SUFFICES ASSUME IInv, StartSig PROVE IInv'
  OBVIOUS
<1> USE DEF IInv, StartSig, inputs, keyVars
<1>1. TypeOK'
  <2>1. ds \in 0 .. N - 1
    BY Modulus DEF TypeOK
  <2> QED
    BY <2>1, Order DEF TypeOK, Scalars
<1>2. KeyInv'
  BY DEF KeyInv, AfterKey, RedeemKey
<1>3. NonceInv' /\ VerdictInv' /\ ThrowsOnlyForRareDraws'
  BY DEF NonceInv, VerdictInv, ThrowsOnlyForRareDraws, AfterStart, AfterCont,
         Signed
<1>4. SignsForSharedKey'
  BY DEF NonceInv, Signed, SignsForSharedKey
<1> QED
  BY <1>1, <1>2, <1>3, <1>4

\* B's nonce and ciphertext.
LEMMA ContSigIInv == IInv /\ ContSig => IInv'
<1> SUFFICES ASSUME IInv, ContSig PROVE IInv'
  OBVIOUS
<1> USE DEF IInv, ContSig, inputs, keyVars
<1>1. /\ ds \in Scalars /\ db \in Scalars /\ ks \in Scalars /\ Ks = ks /\ cs = ds
      /\ QofS = RedeemKey /\ QofB = RedeemKey
      /\ kb' \in Scalars /\ kb' # 0
  BY Order DEF KeyInv, NonceInv, AfterKey, AfterStart, Scalars
<1>2. Nonce' \in Scalars /\ r' = X[Nonce'] % n
  BY <1>1, ScalarProduct DEF Nonce
<1>3. r' \in 0 .. n - 1
  <2>1. X[Nonce'] \in Int
    BY <1>2, EcdsaAssumption DEF Scalars
  <2> QED
    BY <1>2, <2>1, Order, Reduced
<1>4. RedeemKey' = RedeemKey
  BY DEF RedeemKey
<1>5. KeyInv'
  BY <1>4 DEF KeyInv, AfterKey
<1>6. VerdictInv' /\ SignsForSharedKey'
  BY DEF NonceInv, VerdictInv, Signed, SignsForSharedKey
<1>7. CASE r' = 0 \/ ~dataB
  <2>1. TypeOK'
    BY <1>1, <1>3, <1>7, Order DEF TypeOK, Scalars
  <2>2. NonceInv' /\ ThrowsOnlyForRareDraws'
    BY <1>1, <1>7 DEF NonceInv, ThrowsOnlyForRareDraws, AfterStart, AfterCont,
                      Signed
  <2> QED
    BY <1>5, <1>6, <2>1, <2>2
<1>8. CASE ~(r' = 0 \/ ~dataB)
  <2>1. PICK u \in Blinders :
          cb' = LET ki == InverseMod(kb')
                    c1 == (ki * h) % n
                    t  == (((ki * r') % n) * db) % n
                IN  Plus(Plus(c1, Times(ds, t)), u * n)
    BY <1>1, <1>8
  <2>2. u \in 0 .. n * n - 1 /\ h \in Nat
    BY SharedSignatureAssumption DEF TypeOK
  <2>3. cb' \in 0 .. N - 1 /\ Cong(n, kb' * cb', h + r' * (ds * db))
    BY <1>1, <1>3, <2>1, <2>2, BlindedSignature
  <2>4. TypeOK'
    BY <1>1, <1>3, <1>8, <2>3, Order DEF TypeOK, Scalars
  <2>5. NonceInv' /\ ThrowsOnlyForRareDraws'
    BY <1>1, <1>2, <1>8, <2>3
       DEF NonceInv, ThrowsOnlyForRareDraws, AfterStart, AfterCont, Signed
  <2> QED
    BY <1>5, <1>6, <2>4, <2>5
<1> QED
  BY <1>7, <1>8

\* S's signature: it solves the equation of ECDSA, so that it verifies but for
\* a rare draw.
LEMMA FinishSigIInv == IInv /\ FinishSig => IInv'
<1> SUFFICES ASSUME IInv, FinishSig PROVE IInv'
  OBVIOUS
<1> DEFINE v == (InverseMod(ks) * (cb % n)) % n
           f == h + r * RedeemKey
<1>1. /\ ds \in Scalars /\ db \in Scalars /\ ks \in Scalars /\ kb \in Scalars
      /\ QofS = RedeemKey /\ r = X[Nonce] % n /\ r # 0 /\ dataB
      /\ Cong(n, kb * cb, h + r * (ds * db))
      /\ kb # 0 /\ h \in Nat /\ cb \in Nat /\ r \in 0 .. n - 1
  BY Order, Modulus, SharedSignatureAssumption
     DEF IInv, TypeOK, KeyInv, NonceInv, AfterKey, AfterStart, AfterCont,
         Scalars, FinishSig
<1>2. RedeemKey \in Scalars /\ RedeemKey \in Int /\ Nonce \in Scalars
  BY <1>1, Order, ScalarProduct DEF RedeemKey, Nonce, Scalars
<1>3. f \in Int
  BY <1>1, <1>2
<1>4. Cong(n, kb * cb, f)
  <2>1. PICK t \in Int : RedeemKey = ds * db + n * t
    BY <1>1, ScalarProduct DEF RedeemKey, Cong
  <2>2. PICK u \in Int : kb * cb = h + r * (ds * db) + n * u
    BY <1>1 DEF Cong
  <2>3. r \in Int /\ ds * db \in Int
    BY <1>1, Order DEF Scalars
  <2>4. r * RedeemKey = r * (ds * db) + n * (r * t)
    BY <2>1, <2>3, Order
  <2>5. kb * cb = f + n * (u - r * t) /\ u - r * t \in Int
    BY <1>1, <1>3, <2>2, <2>3, <2>4, Order
  <2> QED
    BY <2>5 DEF Cong
<1> HIDE DEF f
<1>5. v \in 0 .. n - 1 /\ Cong(n, Nonce * v, f)
  BY <1>1, <1>3, <1>4, Unblinded DEF Nonce
<1>6. /\ rS' = r /\ s' = IF v = 0 THEN 0 ELSE LowS(v)
      /\ pc' = IF v # 0 /\ dataS /\ Verify(QofS, h, rS', s')
               THEN "signed" ELSE "threw"
      /\ UNCHANGED <<keyVars, ks, Ks, cs, kb, r, cb, cheated, verified>>
  BY DEF FinishSig
<1> HIDE DEF v
<1>7. Nonce' = Nonce /\ RedeemKey' = RedeemKey
  BY <1>6 DEF Nonce, RedeemKey, keyVars
<1>8. KeyInv'
  BY <1>6, <1>7 DEF IInv, KeyInv, FinishSig, AfterKey, keyVars
<1>9. NonceInv'
  BY <1>6, <1>7 DEF IInv, NonceInv, FinishSig, AfterStart, AfterCont, Signed,
                    keyVars, inputs
<1>10. SignsForSharedKey'
  <2> DEFINE w == OneSigner(RedeemKey, Nonce, h)
  <2>1. w = v
    <3>1. (InverseMod(Nonce) * f) % n = v
      BY <1>2, <1>3, <1>5, Solution
    <3> QED
      BY <1>1, <3>1 DEF OneSigner, f
  <2> HIDE DEF w
  <2>2. s' \in {v, n - v} /\ s' <= n - s'
    BY <1>5, <1>6, Order DEF LowS
  <2>3. QofS' = RedeemKey' /\ QofB' = RedeemKey' /\ rS' = X[Nonce'] % n
    BY <1>1, <1>6, <1>7 DEF IInv, KeyInv, FinishSig, AfterKey, keyVars
  <2>4. h' = h
    BY <1>6 DEF keyVars, inputs
  <2>5. w = OneSigner(RedeemKey', Nonce', h')
    BY <1>7, <2>4 DEF w
  <2> QED
    BY <2>1, <2>2, <2>3, <2>5 DEF SignsForSharedKey
<1>11. CASE v = 0
  <2>1. s' = 0 /\ pc' = "threw"
    BY <1>6, <1>11
  <2>2. TypeOK'
    BY <1>1, <1>6, <2>1, Order DEF IInv, TypeOK, keyVars, inputs
  <2>3. f % n = 0
    <3>1. Nonce * v = 0
      BY <1>2, <1>11, Order DEF Scalars
    <3>2. 0 % n = 0 /\ 0 \in Int
      BY Order, ModSmall
    <3>3. Cong(n, 0, f)
      BY <1>5, <3>1
    <3> QED
      BY <1>3, <3>2, <3>3, Order, CongMod
  <2>4. VerdictInv' /\ ThrowsOnlyForRareDraws'
    BY <1>1, <1>6, <1>7, <2>1, <2>3
       DEF VerdictInv, Signed, ThrowsOnlyForRareDraws, f, keyVars, inputs
  <2> QED
    BY <1>8, <1>9, <1>10, <2>2, <2>4 DEF IInv
<1>12. CASE v # 0
  <2>1. v \in Scalars /\ s' = LowS(v)
    BY <1>5, <1>6, <1>12, Order DEF Scalars
  <2>2. /\ LowS(v) \in Scalars /\ LowS(v) <= n - LowS(v)
        /\ \E j \in Scalars : X[j] = X[Nonce] /\ Cong(n, j * LowS(v), f)
    BY <1>2, <1>3, <1>5, <2>1, LowHalf
  <2>3. TypeOK'
    BY <1>1, <1>6, <2>1, <2>2, Order DEF IInv, TypeOK, keyVars, inputs, Scalars
  <2>4. VerdictInv'
    BY <1>6, <2>1, <2>2 DEF VerdictInv, Signed, keyVars, inputs
  <2>5. X[Nonce] < n => Verify(RedeemKey, h, r, LowS(v))
    <3> SUFFICES ASSUME X[Nonce] < n PROVE Verify(RedeemKey, h, r, LowS(v))
      OBVIOUS
    <3>1. PICK j \in Scalars : X[j] = X[Nonce] /\ Cong(n, j * LowS(v), f)
      BY <2>2
    <3>2. X[Nonce] \in 0 .. n - 1
      BY <1>2, EcdsaAssumption, Order DEF Scalars
    <3>3. X[j] = r
      BY <1>1, <3>1, <3>2, Order, ModSmall
    <3>4. X[j] \in Scalars
      BY <1>1, <3>3, Order DEF Scalars
    <3>5. Cong(n, j * LowS(v), h + X[j] * RedeemKey)
      BY <3>1, <3>3 DEF f
    <3>6. h \in Int
      BY <1>1
    <3> QED
      BY <1>2, <2>2, <3>3, <3>4, <3>5, <3>6, EquationVerifies
  <2>6. X[Nonce] \in Nat
    BY <1>2, EcdsaAssumption DEF Scalars
  <2>7. ThrowsOnlyForRareDraws'
    BY <1>1, <1>6, <1>7, <1>12, <2>1, <2>5, <2>6, Order
       DEF ThrowsOnlyForRareDraws, Nonce, keyVars, inputs
  <2> QED
    BY <1>8, <1>9, <1>10, <2>3, <2>4, <2>7 DEF IInv
<1> QED
  BY <1>11, <1>12

\* A signature that is replaced, and the verdict on what is revealed.
LEMMA RevealIInv == IInv /\ (Cheat \/ Open) => IInv'
<1>1. ASSUME IInv, Cheat PROVE IInv'
  <2> USE <1>1 DEF IInv, Cheat, keyVars, inputs
  <2>1. TypeOK'
    BY Order DEF TypeOK
  <2>2. KeyInv' /\ NonceInv'
    BY DEF KeyInv, NonceInv, AfterKey, AfterStart, AfterCont, Signed,
           Nonce, RedeemKey
  <2>3. VerdictInv' /\ SignsForSharedKey' /\ ThrowsOnlyForRareDraws'
    BY DEF VerdictInv, SignsForSharedKey, ThrowsOnlyForRareDraws
  <2> QED
    BY <2>1, <2>2, <2>3
<1>2. ASSUME IInv, Open PROVE IInv'
  <2> USE <1>2 DEF IInv, Open, keyVars, sigVars, inputs
  <2>1. TypeOK'
    BY DEF TypeOK, Verify
  <2>2. KeyInv' /\ NonceInv'
    BY DEF KeyInv, NonceInv, AfterKey, AfterStart, AfterCont, Signed,
           Nonce, RedeemKey
  <2>3. VerdictInv' /\ SignsForSharedKey' /\ ThrowsOnlyForRareDraws'
    BY DEF VerdictInv, SignsForSharedKey, ThrowsOnlyForRareDraws, Signed,
           Nonce, RedeemKey
  <2> QED
    BY <2>1, <2>2, <2>3
<1> QED
  BY <1>1, <1>2

\* Every step keeps the invariant.
LEMMA NextIInv == IInv /\ [Next]_vars => IInv'
<1>1. IInv /\ UNCHANGED vars => IInv'
  BY DEF IInv, TypeOK, KeyInv, NonceInv, VerdictInv, SignsForSharedKey,
         ThrowsOnlyForRareDraws, AfterKey, AfterStart, AfterCont, Signed,
         Nonce, RedeemKey, vars
<1> QED
  BY <1>1, StartInitIInv, FinishInitIInv, StartSigIInv, ContSigIInv,
     FinishSigIInv, RevealIInv DEF Next

\* The invariant of the protocol.
THEOREM Invariance == Spec => []IInv
BY InitIInv, NextIInv, PTL DEF Spec

-----------------------------------------------------------------------------

\* Every variable keeps its type: no ciphertext exceeds the modulus.
THEOREM TypeCorrect == Spec => []TypeOK
BY Invariance, PTL DEF IInv

\* Whatever S computes in finish_sig, verified or not, is the signature that
\* one holder of the shared key and of the product of the nonces would make.
THEOREM JointSignature == Spec => []SignsForSharedKey
BY Invariance, PTL DEF IInv

\* B's verdict on an opened run is right.
THEOREM VerdictRight == Spec => []OpenedAsVerified
<1>1. IInv => OpenedAsVerified
  <2> SUFFICES ASSUME IInv, pc = "opened"
               PROVE  /\ verified => ValidFor(RedeemKey, h, rS, s)
                      /\ ~cheated => verified
    BY DEF OpenedAsVerified
  <2>1. /\ QofS = RedeemKey /\ QofB = RedeemKey
        /\ verified = Verify(QofB, h, rS, s)
        /\ ~cheated => Verify(QofS, h, rS, s)
    BY DEF IInv, KeyInv, VerdictInv, AfterKey, Signed
  <2>2. RedeemKey \in Int /\ h \in Int
    BY <2>1, SharedSignatureAssumption, Order DEF IInv, TypeOK
  <2> QED
    BY <2>1, <2>2, VerifyIsValid
<1> QED
  BY Invariance, <1>1, PTL

\* Parties that follow the protocol throw for rare draws only.
THEOREM RareThrows == Spec => []ThrowsOnlyForRareDraws
BY Invariance, PTL DEF IInv
=============================================================================
