------------------------------ MODULE Paillier ------------------------------
(***************************************************************************)
(* paillier.cpp, as SharedSignature uses it: one party encrypts, the other *)
(* raises the ciphertext to a power and multiplies it by two ciphertexts   *)
(* of its own, the first decrypts. Numbers are small but real.             *)
(***************************************************************************)
EXTENDS Integers, Modular

CONSTANTS
    bits,    \* the argument of the constructor that generates keys
    Factors, \* the exponents the other party uses
    Samples  \* messages and draws that are tried besides the extremes

\* The code's keys have hundreds of bits. With one bit the primes may be 2 and
\* 3, whose phi has no inverse.
ASSUME PaillierAssumption ==
    /\ bits \in Nat /\ bits > 1
    /\ Factors \subseteq Nat /\ Samples \subseteq Nat

InverseMod(a, c) ==
    IF \E z \in 1 .. c - 1 : (z * a) % c = 1
    THEN CHOOSE z \in 1 .. c - 1 : (z * a) % c = 1 ELSE 0

VARIABLES
    pc,     \* "keys", "enc", "power", "times", "again", "dec", "done" or
            \* "threw"
    p, q,   \* the secret primes
    c,      \* the ciphertext that travels
    plain,  \* what it should decrypt to
    unit,   \* is the randomness of every encryption prime to n
    result  \* what dec returned

vars == <<pc, p, q, c, plain, unit, result>>

n   == p * q
n2  == n * n
g   == n + 1
phi == (p - 1) * (q - 1)
u   == InverseMod(phi, n)

\* Messages enc accepts: the extremes, one between, and the samples.
Plaintexts == {0, 1, n \div 2, n - 1} \union {m % n : m \in Samples}

\* r is drawn from 1 to n, both included; those that share a factor too.
Randomness == {1, 2, p, q, n - 1, n} \union {1 + (m % n) : m \in Samples}

\* What the primes are drawn from.
PrimeRange == Power(2)[bits] .. Power(2)[bits + 1]

enc(m, r) == (PowMod(g, m, n2) * PowMod(r, n, n2)) % n2

Unit(r) == r % p # 0 /\ r % q # 0

TypeOK ==
    /\ pc \in {"keys", "enc", "power", "times", "again", "dec", "done",
               "threw"}
    /\ {p, q} \subseteq {0} \union PrimeRange
    /\ c = 0 \/ c \in 0 .. n2 - 1
    /\ plain = 0 \/ plain \in 0 .. n - 1
    /\ unit \in BOOLEAN
    /\ result = 0 \/ result \in 0 .. n - 1

Init ==
    /\ pc = "keys"
    /\ p = 0 /\ q = 0 /\ c = 0 /\ plain = 0 /\ unit = TRUE /\ result = 0

\* Randomize(rng, 1 << bits, 1 << (bits + 1), PRIME), twice.
Keys ==
    /\ pc = "keys"
    /\ p' \in {a \in PrimeRange : IsPrime(a)}
    /\ q' \in {a \in PrimeRange : IsPrime(a)}
    /\ pc' = "enc"
    /\ UNCHANGED <<c, plain, unit, result>>

Encrypt ==
    /\ pc = "enc"
    /\ \E m \in Plaintexts, r \in Randomness :
         /\ c' = enc(m, r)
         /\ plain' = m
         /\ unit' = Unit(r)
    /\ pc' = "power"
    /\ UNCHANGED <<p, q, result>>

Raise ==
    /\ pc = "power"
    /\ \E t \in Factors :
         /\ c' = PowMod(c, t, n2)
         /\ plain' = (plain * t) % n
    /\ pc' = "times"
    /\ UNCHANGED <<p, q, unit, result>>

\* Mutant: the product is not reduced.
TimesUnreduced ==
    /\ pc \in {"times", "again"}
    /\ \E m \in Plaintexts, r \in Randomness :
         /\ c' = c * enc(m, r)
         /\ plain' = (plain + m) % n
         /\ unit' = (unit /\ Unit(r))
    /\ pc' = IF pc = "times" THEN "again" ELSE "dec"
    /\ UNCHANGED <<p, q, result>>

\* First by the encrypted hash, again by the encrypted blinding.
Times ==
    /\ pc \in {"times", "again"}
    /\ \E m \in Plaintexts, r \in Randomness :
         /\ c' = (c * enc(m, r)) % n2
         /\ plain' = (plain + m) % n
         /\ unit' = (unit /\ Unit(r))
    /\ pc' = IF pc = "times" THEN "again" ELSE "dec"
    /\ UNCHANGED <<p, q, result>>

\* Mutant: the range of plaintexts instead of that of ciphertexts.
DecryptableSmall == c > 0 /\ c < n /\ c % p # 0 /\ c % q # 0

\* dec refuses a ciphertext out of range, or one that shares a factor.
Decryptable == c > 0 /\ c < n2 /\ c % p # 0 /\ c % q # 0

\* Mutant: the inverse of phi is forgotten.
decWithoutInverse(a) == ((PowMod(a, phi, n2) - 1) \div n) % n

dec(a) == (((PowMod(a, phi, n2) - 1) \div n) * u) % n

Decrypt ==
    /\ pc = "dec"
    /\ \/ Decryptable /\ result' = dec(c) /\ pc' = "done"
       \/ ~Decryptable /\ pc' = "threw" /\ UNCHANGED result
    /\ UNCHANGED <<p, q, c, plain, unit>>

Next == Keys \/ Encrypt \/ Raise \/ Times \/ Decrypt

Spec == Init /\ [][Next]_vars

-----------------------------------------------------------------------------

\* What SharedSignature relies on: powers and products of ciphertexts decrypt
\* to multiples and sums modulo n. The constructor does not see to p # q.
Homomorphic == pc = "done" /\ p # q => result = plain

\* dec throws only when the randomness of an encryption shared a factor with
\* n ("check divisibility by p, q ?", paillier.cpp:66).
ThrowsOnlyForBadRandomness == pc = "threw" => ~unit
=============================================================================
