--------------------------- MODULE SellInformation ---------------------------
(***************************************************************************)
(* SellInformationProtocol::exec between the cut and choose and the first  *)
(* payment, and Buyer::factorise: the buyer sends L squares, the seller    *)
(* commits to two encrypted roots of each, opens for L/2 of them the root  *)
(* the buyer knows together with its key, and for the others both          *)
(* ciphertexts, whose keys come with the signature in T2.                  *)
(*                                                                         *)
(* Numbers are small but real. A ciphertext is a record of its key's index *)
(* and its content; enc and dec (AES) are perfect. Both parties are the    *)
(* code's, in one process.                                                 *)
(***************************************************************************)
EXTENDS Integers, FiniteSets, FiniteSetsExt

CONSTANTS
    p, q,   \* the seller's primes
    L,      \* the number of squares (common.h)
    Draws   \* the values the random generator gives genSquares

n == p * q

ASSUME SellInformationAssumption ==
    /\ p \in Nat /\ q \in Nat /\ p > 2 /\ q > 2 /\ p # q
    /\ \A d \in 2 .. p - 1 : p % d # 0
    /\ \A d \in 2 .. q - 1 : q % d # 0
    /\ L \in Nat \ {0} /\ L % 2 = 0
    /\ Draws \subseteq 0 .. n \div 2

Idx == 0 .. L - 1

-----------------------------------------------------------------------------
(* Arithmetic.                                                             *)

GCD(a, b) == IF a = 0 THEN b ELSE Max({d \in 1 .. b : a % d = 0 /\ b % d = 0})

\* A root of a modulo the prime m, one of the two.
ModularSquareRoot(a, m) == CHOOSE z \in 0 .. m - 1 : (z * z) % m = a % m

\* u is the inverse of p modulo q. The result can be n, for 0 taken as p and q.
CRT(xp, xq) ==
    LET u == CHOOSE z \in 1 .. q - 1 : (z * p) % q = 1
    IN  p * ((u * (xq - xp)) % q) + xp

\* Four numbers in ascending order.
Sorted(s) ==
    LET order == CHOOSE o \in [1 .. 4 -> 1 .. 4] :
                   /\ \A j, k \in 1 .. 4 : o[j] = o[k] => j = k
                   /\ \A j, k \in 1 .. 4 : j < k => s[o[j]] <= s[o[k]]
    IN  [k \in 1 .. 4 |-> s[order[k]]]

\* The four roots, for both signs modulo p and modulo q. square_root's answer
\* for a number that is no square is left out: a is one.
all_square_roots(a) ==
    LET xp == ModularSquareRoot(a, p)
        xq == ModularSquareRoot(a, q)
    IN  Sorted(<<CRT(p - xp, q - xq), CRT(xp, q - xq),
                 CRT(p - xp, xq), CRT(xp, xq)>>)

-----------------------------------------------------------------------------

VARIABLES
    pc,       \* "genSquares", "findRoots", "commit", "pickSubset",
              \* "acceptSubset", "opening", "openRest", "paying", "finished",
              \* "threw" (exec) or "failed" (factorise)
    x,        \* the buyer's roots
    r1, r2,   \* the seller's roots
    sent,     \* the ciphertexts the seller is committed to: d1 and d2
    indices,  \* the buyer's subset, in order
    matched,  \* commitment_indices: which of d1, d2 holds the buyer's root
    i,        \* the loop variable of the opening
    keys,     \* indices of the keys the buyer has had opened
    got,      \* what has been opened to the buyer: d1[i].m, d2[i].m
    found     \* buyer.p and buyer.q, <<>> at first

vars == <<pc, x, r1, r2, sent, indices, matched, i, keys, got, found>>

y == [k \in Idx |-> (x[k] * x[k]) % n]

\* d1[k].m or d2[k].m of the buyer before it is opened.
Empty == [key |-> -1, root |-> -1]

Cipher == [key : Idx, root : 0 .. n]
Ranks  == 0 .. L \div 2 - 1

TypeOK ==
    /\ pc \in {"genSquares", "findRoots", "commit", "pickSubset",
               "acceptSubset", "opening", "openRest", "paying", "finished",
               "threw", "failed"}
    /\ x \in [Idx -> 0 .. n \div 2]
    /\ r1 \in [Idx -> 0 .. n] /\ r2 \in [Idx -> 0 .. n]
    /\ sent \in [Idx -> [1 .. 2 -> Cipher \union {Empty}]]
    /\ indices \in [Ranks -> Idx]
    /\ matched \in [Ranks -> {1, 2, 5}]
    /\ i \in 0 .. L \div 2
    /\ keys \subseteq Idx
    /\ got \in [Idx -> [1 .. 2 -> Cipher \union {Empty}]]
    /\ found \in {<<>>} \union ((1 .. n) \X (1 .. n))

Nothing == [k \in Idx |-> [d \in 1 .. 2 |-> Empty]]

Init ==
    /\ pc = "genSquares"
    /\ x = [k \in Idx |-> 0] /\ r1 = [k \in Idx |-> 0]
    /\ r2 = [k \in Idx |-> 0]
    /\ sent = Nothing /\ got = Nothing
    /\ indices = [k \in Ranks |-> 0] /\ matched = [k \in Ranks |-> 5]
    /\ i = 0 /\ keys = {} /\ found = <<>>

\* Mutant: roots are drawn from all residues.
GenSquaresFromAll ==
    /\ pc = "genSquares"
    /\ x' \in [Idx -> {1, n - 1}]
    /\ pc' = "findRoots"
    /\ UNCHANGED <<r1, r2, sent, indices, matched, i, keys, got, found>>

\* The seller takes the squares, not the roots.
GenSquares ==
    /\ pc = "genSquares"
    /\ x' \in [Idx -> Draws]
    /\ pc' = "findRoots"
    /\ UNCHANGED <<r1, r2, sent, indices, matched, i, keys, got, found>>

\* Mutant: the seller takes the first and the third root.
FindRootsThird ==
    /\ pc = "findRoots"
    /\ LET roots == [k \in Idx |-> all_square_roots(y[k])] IN
         /\ r1' = [k \in Idx |-> roots[k][1]]
         /\ r2' = [k \in Idx |-> roots[k][3]]
    /\ pc' = "commit"
    /\ UNCHANGED <<x, sent, indices, matched, i, keys, got, found>>

\* The two smaller roots, in random order.
FindRoots ==
    /\ pc = "findRoots"
    /\ LET roots == [k \in Idx |-> all_square_roots(y[k])] IN
       \E swapped \in SUBSET Idx :
         /\ r1' = [k \in Idx |-> roots[k][IF k \in swapped THEN 2 ELSE 1]]
         /\ r2' = [k \in Idx |-> roots[k][IF k \in swapped THEN 1 ELSE 2]]
    /\ pc' = "commit"
    /\ UNCHANGED <<x, sent, indices, matched, i, keys, got, found>>

\* encryptRoots under the keys of the chosen run, setupCommit, and exec of
\* the commitments d1 and d2.
CommitRoots ==
    /\ pc = "commit"
    /\ sent' = [k \in Idx |-> [d \in 1 .. 2 |->
                 [key |-> k, root |-> IF d = 1 THEN r1[k] ELSE r2[k]]]]
    /\ pc' = "pickSubset"
    /\ UNCHANGED <<x, r1, r2, indices, matched, i, keys, got, found>>

\* The first half of a shuffle.
PickSubset ==
    /\ pc = "pickSubset"
    /\ indices' \in {s \in [Ranks -> Idx] :
                       \A j, k \in Ranks : s[j] = s[k] => j = k}
    /\ pc' = "acceptSubset"
    /\ UNCHANGED <<x, r1, r2, sent, matched, i, keys, got, found>>

Value(k) == x[indices[k]]

\* acceptSubset's two tests of the value the buyer reveals.
Acceptable(k) == /\ Value(k) < n \div 2
                 /\ (Value(k) * Value(k)) % n = y[indices[k]]

Matching(k) == IF Value(k) = r2[indices[k]] THEN 2
               ELSE IF Value(k) = r1[indices[k]] THEN 1 ELSE 5

AcceptSubset ==
    /\ pc = "acceptSubset"
    /\ \/ /\ \A k \in Ranks : Acceptable(k)
          /\ matched' = [k \in Ranks |-> Matching(k)]
          /\ pc' = "opening"
       \/ /\ \E k \in Ranks : ~Acceptable(k)
          /\ pc' = "threw"
          /\ UNCHANGED matched
    /\ UNCHANGED <<x, r1, r2, sent, indices, i, keys, got, found>>

\* Mutant: both ciphertexts of an index of the subset are opened.
OpenBothRoots ==
    /\ pc = "opening"
    /\ keys' = keys \union {indices[i]}
    /\ got' = [got EXCEPT ![indices[i]] = sent[indices[i]]]
    /\ i' = i + 1
    /\ pc' = IF i' = L \div 2 THEN "openRest" ELSE "opening"
    /\ UNCHANGED <<x, r1, r2, sent, indices, matched, found>>

\* The key of one index of the subset is opened, then one ciphertext, whose
\* content verifyRoot compares with the buyer's root.
OpenRoot ==
    /\ pc = "opening"
    /\ LET ind == indices[i]
           d   == matched[i] IN
       /\ keys' = keys \union {ind}
       /\ IF d = 5
          THEN pc' = "threw" /\ UNCHANGED <<got, i>>
          ELSE /\ got' = [got EXCEPT ![ind][d] = sent[ind][d]]
               /\ i' = i + 1
               /\ pc' = IF sent[ind][d].root # x[ind] THEN "threw"
                        ELSE IF i' = L \div 2 THEN "openRest" ELSE "opening"
    /\ UNCHANGED <<x, r1, r2, sent, indices, matched, found>>

Subset == {indices[k] : k \in Ranks}

\* Both ciphertexts of every other index are opened, their keys are not.
OpenRest ==
    /\ pc = "openRest"
    /\ got' = [k \in Idx |-> IF k \in Subset THEN got[k] ELSE sent[k]]
    /\ pc' = "paying"
    /\ UNCHANGED <<x, r1, r2, sent, indices, matched, i, keys, found>>

\* The p and q that factorise computes from the roots of index k.
Candidate(k) ==
    LET a == got[k][1].root
        b == got[k][2].root
    IN  <<GCD(n + a - b, n), GCD(a + b, n)>>

\* Mutant: the product is not compared with n.
UsefulUnchecked == {k \in Idx : got[k][1] # Empty /\ got[k][2] # Empty}

\* Indices factorise does not pass over, whose candidates multiply to n.
Useful == {k \in Idx : /\ got[k][1] # Empty /\ got[k][2] # Empty
                       /\ Candidate(k)[1] * Candidate(k)[2] = n}

\* The signature has been read from T2: it gives every key.
Factorise ==
    /\ pc = "paying"
    /\ \/ Useful # {} /\ found' = Candidate(Min(Useful)) /\ pc' = "finished"
       \/ Useful = {} /\ pc' = "failed" /\ UNCHANGED found
    /\ keys' = Idx
    /\ UNCHANGED <<x, r1, r2, sent, indices, matched, i, got>>

Next == \/ GenSquares \/ FindRoots \/ CommitRoots \/ PickSubset
        \/ AcceptSubset \/ OpenRoot \/ OpenRest \/ Factorise

Spec == Init /\ [][Next]_vars

-----------------------------------------------------------------------------

\* Before the signature is published the buyer can decrypt no root but the
\* ones he drew himself: the seller opens a key only next to the ciphertext
\* acceptSubset matched with the revealed root, and only after committing.
NothingLearnedUnpaid ==
    pc \notin {"finished", "failed"} =>
        \A k \in keys, d \in 1 .. 2 :
            got[k][d] # Empty => got[k][d].root = x[k]

\* A paid buyer gets the seller's primes, unless every root left unrevealed
\* shares a factor with n; factorise never reports another pair.
PaidBuyerFactors ==
    /\ pc = "finished" => {found[1], found[2]} = {p, q}
    /\ pc = "failed" => \A k \in Idx \ Subset : GCD(x[k], n) # 1

\* Two honest parties fail only at the boundary of acceptSubset's test: every
\* other draw is matched with a root of the seller's, and verifyRoot agrees.
ThrowsOnlyAtHalf ==
    pc = "threw" => \E k \in Ranks : Value(k) = n \div 2

\* test_square_root.cpp:65 counts n/2 among the small roots ("too big" begins
\* above it), and genSquares draws it: honest parties do not throw.
HonestPartiesAgree == pc # "threw"
=============================================================================
