------------------------------- MODULE Modular -------------------------------
(***************************************************************************)
(* The operations of Crypto++'s integers that several parts of a sale use. *)
(* Recursion is written as functions, which the prover can unfold: it      *)
(* knows nothing of ^.                                                     *)
(***************************************************************************)
EXTENDS Integers

\* Powers: Power(b)[k] is b multiplied k times by itself.
Power(b) == LET P[k \in Nat] == IF k = 0 THEN 1 ELSE b * P[k - 1] IN P

\* a_exp_b_mod_c, by squaring and multiplying.
PowMod(a, b, c) ==
    LET pow[e \in 0 .. b] ==
          IF e = 0 THEN 1 % c
          ELSE LET half == pow[e \div 2]
               IN  (((half * half) % c) * (IF e % 2 = 1 THEN a ELSE 1)) % c
    IN  pow[b]

IsPrime(a) == a \in Nat /\ a > 1 /\ \A d \in 2 .. a - 1 : a % d # 0
=============================================================================
