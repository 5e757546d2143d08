-------------------------------- MODULE Ecdsa --------------------------------
(***************************************************************************)
(* The arithmetic of ECDSA that both parties of a sale use. The curve's    *)
(* group has prime order n; a point is its discrete logarithm, so that the *)
(* point of a private key is the key itself, and X gives x coordinates.    *)
(***************************************************************************)
EXTENDS Integers

CONSTANTS
    n,  \* the order of the group
    X   \* the x coordinate of each point but the identity

ASSUME EcdsaAssumption ==
    /\ n \in Nat /\ n > 2 /\ \A d \in 2 .. n - 1 : n % d # 0
    /\ X \in [1 .. n - 1 -> Nat]
    /\ \A a, b \in 1 .. n - 1 : X[a] = X[b] <=> (a = b \/ a + b = n)

Scalars == 1 .. n - 1

InverseMod(a) == CHOOSE z \in Scalars : (z * a) % n = 1

\* verify: the recomputed x coordinate is compared with r as it is.
Verify(Q, z, r, s) ==
    /\ Q # 0
    /\ r \in Scalars /\ s \in Scalars
    /\ LET w  == InverseMod(s)
           P2 == (z * w + r * w * Q) % n
       IN  P2 # 0 /\ X[P2] = r

\* The smaller of s and n - s is kept.
LowS(v) == IF v > n - v THEN n - v ELSE v

\* ECDSA's own definition, independent of how a signature came about: a valid
\* signature of h under the private key d.
ValidFor(d, h, r, s) ==
    \E k \in Scalars : /\ r = X[k] % n /\ r # 0
                       /\ (k * s) % n = (h + r * d) % n
                       /\ s \in Scalars
=============================================================================
