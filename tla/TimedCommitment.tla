--------------------------- MODULE TimedCommitment ---------------------------
(***************************************************************************)
(* timed_commitment.cpp: a commitment to the bits m that the commiter can  *)
(* open and that the receiver can force open by repeated squaring, with    *)
(* the proof that it is well formed. Numbers are small but real; the       *)
(* proof's round is run once (the code runs ten, which share nothing).     *)
(***************************************************************************)
EXTENDS Encoding

CONSTANTS
    p, q,      \* the safe primes of the commiter
    B, BITS,   \* g is h to the power of every prime below B, BITS times
    R,         \* the receiver's commit values are at most R
    Ks,        \* the time parameters, K, that are tried
    Messages,  \* the messages that are committed to, sequences of bits
    Samples    \* draws that are tried besides the extremes

\* p and q are safe primes congruent to 3 modulo 4 (gen_prime), and the code's
\* B is 128; the exponent 2^K - l of commit is not negative.
ASSUME TimedCommitmentAssumption ==
    /\ IsPrime(p) /\ IsPrime(q) /\ p # q
    /\ IsPrime((p - 1) \div 2) /\ IsPrime((q - 1) \div 2)
    /\ p % 4 = 3 /\ q % 4 = 3
    /\ B \in Nat /\ B > 2 /\ BITS \in Nat \ {0} /\ R \in Nat
    /\ Ks \subseteq Nat \ {0} /\ Samples \subseteq Nat
    /\ Messages \subseteq Seq({0, 1})
    /\ \A m \in Messages, K \in Ks : Len(m) \in 1 .. Power(2)[K]

n   == p * q
phi == (p - 1) * (q - 1)

-----------------------------------------------------------------------------
(* Arithmetic.                                                             *)

GCD(a, b) == Max({d \in 1 .. b : a % d = 0 /\ b % d = 0})

\* InverseMod, 0 when there is none.
InverseMod(a, c) ==
    IF GCD(a, c) # 1 THEN 0 ELSE CHOOSE z \in 1 .. c - 1 : (z * a) % c = 1

\* The product of r ^ BITS over the primes r below B.
mult == LET f[r \in 1 .. B - 1] ==
              IF r = 1 THEN 1
              ELSE f[r - 1] * (IF IsPrime(r) THEN Power(r)[BITS] ELSE 1)
        IN  f[B - 1]

get_g(m, h) == PowMod(h, mult, m)

\* 2 to the power of 2^K - d, reduced modulo phi.
PowerOfTwo(K, d) == PowMod(2, Power(2)[K] - d, phi)

\* Mutant: factors are divided out without looking at g.
DivideOutBlindly(g, s, o) == IF o % s = 0 THEN o \div s ELSE o

\* One prime factor s divided out of the order o of g as often as possible.
DivideOut(g, s, o) ==
    LET f[t \in 1 .. o] ==
          IF t % s = 0 /\ PowMod(g, t \div s, n) = 1 THEN f[t \div s] ELSE t
    IN  f[o]

\* The "primes" of find_order; the second is q's, (p2-2)/2 in the code.
q1 == (p - 1) \div 2
q2 == (q - 2) \div 2

find_order(g) == DivideOut(g, 2, DivideOut(g, q2, DivideOut(g, q1, phi)))

Bit(v) == v % 2
Xor(a, b) == (a + b) % 2

-----------------------------------------------------------------------------

VARIABLES
    pc,      \* "commit", "accept", "zk_1", "zk_2", "zk_4", "zk_5",
             \* "committed", "opened", "threw" (ProtocolException) or "insane"
    m,       \* the message
    com,     \* the commitment
    order,   \* find_order's result
    values,  \* the receiver's commit_values
    commits, \* the receiver's commitments to them, as the commiter has them
    alpha,   \* the commiter's randomness of the round
    via,     \* how it was opened: "open", "force", "smart" or "none"
    result   \* the bits the receiver got

vars == <<pc, m, com, order, values, commits, alpha, via, result>>

l == Len(m)

Residues == 0 .. n - 1

\* Draws from 0 to b, both included: the extremes and the samples.
Draws(b) == {0, b} \union {v % (b + 1) : v \in Samples}

\* A digest is the string it is made from, which the commiter cannot read.
regular_commit(x) == to_bytes(x)
regular_verify(c, x) == c = regular_commit(x)

TypeOK ==
    /\ pc \in {"commit", "accept", "zk_1", "zk_2", "zk_4", "zk_5",
               "committed", "opened", "threw", "insane"}
    /\ m \in Messages
    /\ com.K \in Ks
    /\ com.h \in Residues /\ com.g \in Residues /\ com.u \in Residues
    /\ com.S \in Seq({0, 1})
    /\ com.W \in Seq(Residues)
    /\ order \in 1 .. phi
    /\ values \in [1 .. com.K -> 0 .. R]
    /\ commits \in [1 .. com.K -> {<<>>} \union {regular_commit(v) : v \in 0 .. R}]
    /\ alpha \in [1 .. com.K -> 0 .. phi]
    /\ via \in {"none", "open", "force", "smart"}
    /\ result \in Seq({0, 1})

Init ==
    /\ pc = "commit"
    /\ m \in Messages
    /\ \E K \in Ks :
         /\ com = [K |-> K, h |-> 0, g |-> 0, u |-> 0, S |-> <<>>, W |-> <<>>]
         /\ values = [k \in 1 .. K |-> 0] /\ alpha = [k \in 1 .. K |-> 0]
         /\ commits = [k \in 1 .. K |-> <<>>]
    /\ order = 1
    /\ via = "none" /\ result = <<>>

\* u after k squarings.
Squared(u, k) == PowMod(u, Power(2)[k], n)

\* The bits of m, each masked with the lowest bit of the next power.
Mask(bits, u) == [k \in 1 .. Len(bits) |-> Xor(bits[k], Bit(Squared(u, k - 1)))]

\* W[i] is g to the 2^(2^i); the sequence starts at 1, the code's at 0.
Chain(g, K) == [k \in 1 .. K + 1 |-> PowMod(g, PowerOfTwo(k - 1, 0), n)]
W(k) == com.W[k + 1]

Commit ==
    /\ pc = "commit"
    /\ \E h \in 2 .. n - 1 :
         LET K  == com.K
             g  == get_g(n, h)
             u0 == PowMod(g, PowerOfTwo(K, l), n)
             u  == Squared(u0, l)
             c  == Chain(g, K)
         IN  /\ order' = find_order(g)
             /\ com' = [K |-> K, h |-> h, g |-> g, u |-> u,
                        S |-> Mask(m, u0), W |-> c]
             /\ pc' = IF /\ u = PowMod(g, PowerOfTwo(K, 0), n)
                         /\ c[1] = PowMod(g, 2, n) /\ c[2] = PowMod(g, 4, n)
                         /\ c[K + 1] = u
                      THEN "accept" ELSE "insane"
    /\ UNCHANGED <<m, values, commits, alpha, via, result>>

\* accept_commitment
Accept ==
    /\ pc = "accept"
    /\ pc' = IF /\ com.g = get_g(n, com.h)
                /\ Len(com.W) = com.K + 1
                /\ W(0) = PowMod(com.g, 2, n) /\ W(com.K) = com.u
             THEN "zk_1" ELSE "threw"
    /\ UNCHANGED <<m, com, order, values, commits, alpha, via, result>>

\* The receiver draws and commits to its values.
Zk1 ==
    /\ pc = "zk_1"
    /\ values' \in [1 .. com.K -> Draws(R)]
    /\ commits' = [k \in 1 .. com.K |-> regular_commit(values'[k])]
    /\ pc' = "zk_2"
    /\ UNCHANGED <<m, com, order, alpha, via, result>>

\* Mutant: alpha is drawn from a range beyond phi.
Zk2Wide ==
    /\ pc = "zk_2"
    /\ alpha' \in [1 .. com.K -> {0, phi + order}]
    /\ pc' = "zk_4"
    /\ UNCHANGED <<m, com, order, values, commits, via, result>>

\* The commiter draws alpha below the order.
Zk2 ==
    /\ pc = "zk_2"
    /\ alpha' \in [1 .. com.K -> Draws(order - 1)]
    /\ pc' = "zk_4"
    /\ UNCHANGED <<m, com, order, values, commits, via, result>>

\* zk_3 reveals the values; the commiter compares them with the commitments it
\* has.
Zk4 ==
    /\ pc = "zk_4"
    /\ pc' = IF \A k \in 1 .. com.K : regular_verify(commits[k], values[k])
             THEN "zk_5" ELSE "threw"
    /\ UNCHANGED <<m, com, order, values, commits, alpha, via, result>>

\* What zk_4 answers.
Answer(k) == (values[k] * PowMod(2, Power(2)[k - 1], order) + alpha[k]) % order

\* zk_5 recomputes what zk_2 sent: base is g for z and W[k-1] for w, and
\* next is what base is claimed to become.
Verifies(base, next, k) ==
    (PowMod(base, Answer(k), n) * PowMod(InverseMod(next, n), values[k], n)) % n
        = PowMod(base, alpha[k], n)

Zk5 ==
    /\ pc = "zk_5"
    /\ pc' = IF \A k \in 1 .. com.K : /\ Verifies(com.g, W(k - 1), k)
                                      /\ Verifies(W(k - 1), W(k), k)
             THEN "committed" ELSE "threw"
    /\ UNCHANGED <<m, com, order, values, commits, alpha, via, result>>

\* Mutant: the decoded power is not compared with u.
decode_unchecked(v) == pc' = "opened" /\ result' = Mask(com.S, v)

\* The receiver has v, l squarings below u: it decodes S, or throws.
decode(v) ==
    IF Squared(v, Len(com.S)) = com.u
    THEN pc' = "opened" /\ result' = Mask(com.S, v)
    ELSE pc' = "threw" /\ UNCHANGED result

\* Commiter::open gives a root of h, which get_g turns into v.
Open ==
    /\ pc = "committed"
    /\ via' = "open"
    /\ decode(get_g(n, PowMod(com.h, PowerOfTwo(com.K, l), n)))
    /\ UNCHANGED <<m, com, order, values, commits, alpha>>

\* Mutant: one squaring too many.
SquaringsOneMore(K) == Max({Power(2)[K] - Len(com.S) + 1, 0})

\* Number of squarings of a forced opening: none when the bound is negative.
Squarings(K) == Max({Power(2)[K] - Len(com.S), 0})

SquareFrom(v, k) ==
    LET f[t \in 0 .. k] == IF t = 0 THEN v ELSE (f[t - 1] * f[t - 1]) % n
    IN  f[k]

ForceOpen ==
    /\ pc = "committed"
    /\ via' = "force"
    /\ decode(SquareFrom(com.g, Squarings(com.K)))
    /\ UNCHANGED <<m, com, order, values, commits, alpha>>

ForceOpenSmart ==
    /\ pc = "committed"
    /\ via' = "smart"
    /\ decode(SquareFrom(W(com.K - 1), Squarings(com.K - 1)))
    /\ UNCHANGED <<m, com, order, values, commits, alpha>>

Next == \/ Commit \/ Accept \/ Zk1 \/ Zk2 \/ Zk4 \/ Zk5
        \/ Open \/ ForceOpen \/ ForceOpenSmart

Spec == Init /\ [][Next]_vars

-----------------------------------------------------------------------------

\* Whichever way it is opened, a commitment opens to what was committed to.
OpensToMessage == pc = "opened" => result = m

\* Between honest parties nothing throws, but for an h that shares a factor
\* with n, and the fast opening of a message longer than half the squarings.
HonestNeverThrows ==
    pc \in {"threw", "insane"} =>
        \/ GCD(com.h, n) # 1
        \/ via = "smart" /\ l > Power(2)[com.K - 1]

\* What the proof needs of find_order: a multiple of the order of g, so that
\* exponents may be reduced by it.
OrderReduces ==
    pc # "commit" /\ GCD(com.h, n) = 1 => PowMod(com.g, order, n) = 1

\* "find order of a element mod (p1*p2)" (timed_commitment.cpp:61)
FindsOrder ==
    pc # "commit" /\ GCD(com.h, n) = 1 =>
        \A d \in 1 .. order - 1 : PowMod(com.g, d, n) # 1
=============================================================================
