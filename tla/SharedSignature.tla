--------------------------- MODULE SharedSignature ---------------------------
(***************************************************************************)
(* shared_sig.cpp: the seller (S) and the buyer (B) share an ECDSA key,    *)
(* the product of ds and db, and sign together so that S alone learns the  *)
(* signature.                                                              *)
(*                                                                         *)
(* A Paillier ciphertext is its plaintext (module Paillier is about the    *)
(* arithmetic that makes this so).                                         *)
(***************************************************************************)
EXTENDS Ecdsa

CONSTANTS
    N,        \* the Paillier modulus
    Hashes,   \* values the hash of the transaction may have as a number
    Blinders  \* values of B's blinding u, in 0 .. n*n - 1

ASSUME SharedSignatureAssumption ==
    /\ N \in Nat /\ N > 2 * n * n * n * n
    /\ Hashes \subseteq Nat
    /\ Blinders \subseteq 0 .. n * n - 1

VARIABLES
    pc,         \* "init", "match", "start_sig", "cont_sig", "finish_sig",
                \* "signed", "opened" or "threw"
    h,          \* the number of the hash both parties sign
    dataS, dataB, \* is what each was told to sign a hash, of 32 bytes
    ds, db,     \* the shares of the key
    Qs, Qb,     \* their points
    QofS, QofB, \* the shared public key as each party computed it
    ks, Ks, cs, \* S's nonce, its point, the ciphertext of ds
    kb, r, cb,  \* B's nonce, the signature's r, the blinded signature
    rS, s,      \* S's copy of r, and s
    cheated,    \* did S replace its signature
    verified    \* B's open_verified

vars == <<pc, h, dataS, dataB, ds, db, Qs, Qb, QofS, QofB, ks, Ks, cs, kb, r, cb, rS, s,
          cheated, verified>>
inputs  == <<h, dataS, dataB>>
keyVars == <<inputs, ds, db, Qs, Qb, QofS, QofB>>
sigVars == <<ks, Ks, cs, kb, r, cb, rS, s>>

TypeOK ==
    /\ pc \in {"init", "match", "start_sig", "cont_sig", "finish_sig",
               "signed", "opened", "threw"}
    /\ h \in Hashes
    /\ dataS \in BOOLEAN /\ dataB \in BOOLEAN
    /\ {ds, db, Qs, Qb, QofS, QofB, ks, Ks, kb, r} \subseteq 0 .. n - 1
    /\ {cs, cb} \subseteq 0 .. N - 1
    /\ rS \in 0 .. n /\ s \in 0 .. n
    /\ cheated \in BOOLEAN /\ verified \in BOOLEAN

Init ==
    /\ pc = "init"
    /\ h \in Hashes
    /\ dataS \in BOOLEAN /\ dataB \in BOOLEAN
    /\ ds = 0 /\ db = 0 /\ Qs = 0 /\ Qb = 0 /\ QofS = 0 /\ QofB = 0
    /\ ks = 0 /\ Ks = 0 /\ cs = 0 /\ kb = 0 /\ r = 0 /\ cb = 0
    /\ rS = 0 /\ s = 0 /\ cheated = FALSE /\ verified = FALSE

\* Mutant: the shares may be the order itself.
StartInitWide ==
    /\ pc = "init"
    /\ ds' \in 1 .. n /\ db' \in 1 .. n
    /\ Qs' = ds' % n /\ Qb' = db' % n
    /\ pc' = "match"
    /\ UNCHANGED <<inputs, QofS, QofB, sigVars, cheated, verified>>

\* start_init of both parties.
StartInit ==
    /\ pc = "init"
    /\ ds' \in Scalars /\ db' \in Scalars
    /\ Qs' = ds' /\ Qb' = db'
    /\ pc' = "match"
    /\ UNCHANGED <<inputs, QofS, QofB, sigVars, cheated, verified>>

\* Mutant: B multiplies its own point.
FinishInitOwnPoint ==
    /\ pc = "match"
    /\ QofS' = (ds * Qb) % n
    /\ QofB' = (db * Qb) % n
    /\ pc' = IF QofS' = QofB' THEN "start_sig" ELSE "threw"
    /\ UNCHANGED <<inputs, ds, db, Qs, Qb, sigVars, cheated, verified>>

\* finish_init of both parties, and the comparison of their Q.
FinishInit ==
    /\ pc = "match"
    /\ QofS' = (ds * Qb) % n
    /\ QofB' = (db * Qs) % n
    /\ pc' = IF QofS' = QofB' THEN "start_sig" ELSE "threw"
    /\ UNCHANGED <<inputs, ds, db, Qs, Qb, sigVars, cheated, verified>>

StartSig ==
    /\ pc = "start_sig"
    /\ ks' \in Scalars
    /\ Ks' = ks'
    /\ cs' = ds
    /\ pc' = "cont_sig"
    /\ UNCHANGED <<keyVars, kb, r, cb, rS, s, cheated, verified>>

\* Mutant: the Paillier keys have four bits less.
PlusShort(a, b) == (a + b) % (N \div 16)

\* Homomorphic sum and multiple of plaintexts.
Plus(a, b)  == (a + b) % N
Times(a, t) == (a * t) % N

\* B throws on r = 0 and on data that is no digest.
ContSig ==
    /\ pc = "cont_sig"
    /\ kb' \in Scalars
    /\ r' = X[(kb' * Ks) % n] % n
    /\ IF r' = 0 \/ ~dataB
       THEN pc' = "threw" /\ UNCHANGED cb
       ELSE /\ \E u \in Blinders :
                 LET ki == InverseMod(kb')
                     c1 == (ki * h) % n
                     t  == (((ki * r') % n) * db) % n
                 IN  cb' = Plus(Plus(c1, Times(cs, t)), u * n)
            /\ pc' = "finish_sig"
    /\ UNCHANGED <<keyVars, ks, Ks, cs, rS, s, cheated, verified>>

\* S throws on s = 0, on data that is no digest, and on a signature that does
\* not verify.
FinishSig ==
    /\ pc = "finish_sig"
    /\ rS' = r
    /\ LET v == (InverseMod(ks) * (cb % n)) % n IN
       /\ s' = IF v = 0 THEN 0 ELSE LowS(v)
       /\ pc' = IF v # 0 /\ dataS /\ Verify(QofS, h, rS', s')
                THEN "signed" ELSE "threw"
    /\ UNCHANGED <<keyVars, ks, Ks, cs, kb, r, cb, cheated, verified>>

\* S::cheat, used by the tests of the cut and choose: any r and s in 1 .. n.
Cheat ==
    /\ pc = "signed" /\ ~cheated
    /\ rS' \in 1 .. n /\ s' \in 1 .. n
    /\ cheated' = TRUE
    /\ UNCHANGED <<pc, keyVars, ks, Ks, cs, kb, r, cb, verified>>

\* Mutant: B verifies with the r it knows, not the one S reveals.
OpenOwnR ==
    /\ pc = "signed"
    /\ verified' = Verify(QofB, h, r, s)
    /\ pc' = "opened"
    /\ UNCHANGED <<keyVars, sigVars, cheated>>

Open ==
    /\ pc = "signed"
    /\ verified' = Verify(QofB, h, rS, s)
    /\ pc' = "opened"
    /\ UNCHANGED <<keyVars, sigVars, cheated>>

Next == \/ StartInit \/ FinishInit \/ StartSig \/ ContSig \/ FinishSig
        \/ Cheat \/ Open

Spec == Init /\ [][Next]_vars

-----------------------------------------------------------------------------

\* The private key that solve_time_lock puts together from both shares.
RedeemKey == (ds * db) % n

\* The nonce of the signature, of which each party has a factor.
Nonce == (kb * ks) % n

\* What one holder of the key d signs z with, by ECDSA, with nonce k.
OneSigner(d, k, z) == (InverseMod(k) * (z + (X[k] % n) * d)) % n

\* What S computes from B's blinded ciphertext, before it verifies anything, is
\* what one holder of the shared key and of the nonce would have signed, in the
\* low half, as bitcoin wants it: neither the blinding nor the modulus of the
\* ciphertexts leaves a trace. The key is the one the buyer redeems T1 with.
SignsForSharedKey ==
    rS # 0 /\ ~cheated =>
        LET v == OneSigner(RedeemKey, Nonce, h) IN
        /\ QofS = RedeemKey /\ QofB = RedeemKey
        /\ rS = X[Nonce] % n
        /\ s \in {v, n - v} /\ s <= n - s

\* A run that was falsified is opened as verified only when what S put in its
\* place is a signature too; an honest one always is.
OpenedAsVerified ==
    pc = "opened" => /\ verified => ValidFor(RedeemKey, h, rS, s)
                     /\ ~cheated => verified

\* Parties that were given a hash to sign throw only for rare draws: r = 0,
\* s = 0, or a nonce whose x coordinate is not below n, which verify fails to
\* reduce; and none throws before the nonces are drawn.
ThrowsOnlyForRareDraws ==
    pc = "threw" => /\ kb # 0
                    /\ \/ ~(dataS /\ dataB)
                       \/ r = 0
                       \/ X[Nonce] >= n
                       \/ (h + r * RedeemKey) % n = 0
=============================================================================
