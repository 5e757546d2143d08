----------------------------- MODULE SingleSell -----------------------------
(***************************************************************************)
(* SingleSellInformationProtocol: one instance of the protocol that the    *)
(* cut and choose runs T times. It makes a shared key, builds T1 and T2    *)
(* with the Java servers, signs T2, locks the seller's share in time and   *)
(* commits to the keys made from the signature. An instance that is not    *)
(* chosen is opened; of the adopted one the buyer later reads the          *)
(* signature in the chain, or solves the time lock.                        *)
(*                                                                         *)
(* The shared signature and the time lock appear with their results (the   *)
(* modules SharedSignature and TimedCommitment are about them). What goes  *)
(* from one party to another is encoded as the code encodes it.            *)
(***************************************************************************)
EXTENDS Ecdsa, Encoding

CONSTANTS
    L,      \* number of keys
    Width,  \* bytes of each number of an encoded signature
    Hashes  \* values the hash of T2 may have as a number

ASSUME SingleSellAssumption ==
    /\ L \in Nat \ {0}
    /\ Hashes \subseteq Nat
    /\ Width \in Nat /\ n <= Power(Base)[Width]

VARIABLES
    pc,        \* the next step of exec, open, get_signature or
               \* solve_time_lock; "threw" or "aborted"
    ds, db, Q, \* the shares and the shared public key
    T1,        \* buyer: the point T1 pays to
    T2b,       \* buyer: T2 and its hash
    hash,
    T2s,       \* seller: T2 and the script of T1's output, a point
    script,
    r, s,      \* seller: the signature
    lock,      \* the bits in the time lock
    sent,      \* seller: what it commits to
    com,       \* buyer: the commitments
    opened,    \* buyer: what was opened to it
    verified,  \* buyer: shared_signature_b's open_verified
    open_verified, \* buyer: the instance's
    got        \* buyer: the result of the adopted instance

key   == <<ds, db, Q>>
txs   == <<T1, T2b, hash, T2s, script>>
sig   == <<r, s>>
coms  == <<sent, com>>
opens == <<opened, verified, open_verified>>
vars  == <<pc, key, txs, sig, lock, coms, opens, got>>

Idx   == 0 .. L - 1
Empty == <<>>  \* an empty array of bytes

\* The private key of the shared point, which neither party has.
PrivateKey == (ds * db) % n

Messages == [keys : [Idx -> Seq(Byte)], signature : Seq(Byte)]
Nothing  == [keys |-> [i \in Idx |-> Empty], signature |-> Empty]
NoT2     == [spends |-> 0, pays |-> "nobody", sig |-> Empty]

TypeOK ==
    /\ pc \in {"init", "create_T1", "create_T2", "hand_over", "sign",
               "verify_T2", "commit", "gen_keys", "sha_commit", "executed", "open_lock",
               "open_keys", "open_signature", "verify_keys", "opened",
               "read", "solved", "threw", "aborted"}
    /\ {ds, db, Q, T1, script, r, s} \subseteq 0 .. n - 1
    /\ {T2b, T2s} \subseteq [spends : 0 .. n - 1, pays : {"nobody", "seller"},
                             sig : Seq(Scalars)]
    /\ hash \in Hashes \union {0}
    /\ lock \in Seq(0 .. 1)
    /\ {sent, com, opened} \subseteq Messages
    /\ verified \in BOOLEAN /\ open_verified \in BOOLEAN
    /\ got \in [negated : BOOLEAN, keys : [Idx -> Seq(Byte)], d : 0 .. n - 1]

Init ==
    /\ pc = "init"
    /\ ds = 0 /\ db = 0 /\ Q = 0
    /\ T1 = 0 /\ T2b = NoT2 /\ hash = 0 /\ T2s = NoT2 /\ script = 0
    /\ r = 0 /\ s = 0
    /\ lock = Empty
    /\ sent = Nothing /\ com = Nothing /\ opened = Nothing
    /\ verified = FALSE /\ open_verified = FALSE
    /\ got = [negated |-> FALSE, keys |-> Nothing.keys, d |-> 0]

-----------------------------------------------------------------------------
(* exec.                                                                   *)

\* SharedSignature::init.
MakeKey ==
    /\ pc = "init"
    /\ ds' \in Scalars /\ db' \in Scalars
    /\ Q' = (ds' * db') % n
    /\ pc' = "create_T1"
    /\ UNCHANGED <<txs, sig, lock, coms, opens, got>>

\* The points a server makes of the bytes of two coordinates. The logarithm of
\* a point stands for its y coordinate.
getECKeyFromXY(bx, by) ==
    {P \in Scalars : X[P] = Decode(bx) /\ P = Decode(by)}

\* The shared key as a server gets it.
SharedKey == getECKeyFromXY(to_bytes(X[Q]), to_bytes(Q))

\* The wallet may be short of money: then T1 comes back empty.
CreateT1 ==
    /\ pc = "create_T1"
    /\ \/ T1' \in SharedKey /\ pc' = "create_T2"
       \/ pc' = "threw" /\ UNCHANGED T1
    /\ UNCHANGED <<key, T2b, hash, T2s, script, sig, lock, coms, opens, got>>

\* The transaction that spends an output and pays the seller.
createSendTransactionToAddress(output) ==
    [spends |-> output, pays |-> "seller", sig |-> Empty]

\* The output of T1 is found by its address; T2's hash is any number.
CreateT2 ==
    /\ pc = "create_T2"
    /\ T1 \in SharedKey
    /\ T2b' = createSendTransactionToAddress(T1)
    /\ hash' \in Hashes
    /\ pc' = "hand_over"
    /\ UNCHANGED <<key, T1, T2s, script, sig, lock, coms, opens, got>>

\* The seller gets T2 and the script; both are told to sign the buyer's hash.
HandOver ==
    /\ pc = "hand_over"
    /\ T2s' = T2b /\ script' = T1
    /\ pc' = "sign"
    /\ UNCHANGED <<key, T1, T2b, hash, sig, lock, coms, opens, got>>

\* SharedSignature::exec, with k the product of both nonces.
Sign ==
    /\ pc = "sign"
    /\ \E k \in Scalars :
         /\ r' = X[k] % n
         /\ s' = LowS((InverseMod(k) * (hash + r' * PrivateKey)) % n)
    /\ pc' = IF Verify(Q, hash, r', s') THEN "verify_T2" ELSE "threw"
    /\ UNCHANGED <<key, txs, lock, coms, opens, got>>

\* getSignedTransaction: bitcoinj checks the signature, and puts it in T2.
Accepted(bx, by, br, bs) ==
    \E P \in getECKeyFromXY(bx, by) :
        P = script /\ ValidFor(P, hash, Decode(br), Decode(bs))

\* Mutant: the signed transaction the server returns is dropped.
VerifyT2SignatureOnly ==
    /\ pc = "verify_T2"
    /\ Accepted(to_bytes(X[Q]), to_bytes(Q), to_bytes(r), to_bytes(s))
    /\ pc' = "commit"
    /\ UNCHANGED <<key, txs, sig, lock, coms, opens, got>>

VerifyT2Signature ==
    /\ pc = "verify_T2"
    /\ IF Accepted(to_bytes(X[Q]), to_bytes(Q), to_bytes(r), to_bytes(s))
       THEN T2s' = [T2s EXCEPT !.sig = <<r, s>>] /\ pc' = "commit"
       ELSE pc' = "threw" /\ UNCHANGED T2s
    /\ UNCHANGED <<key, T1, T2b, hash, script, sig, lock, coms, opens, got>>

\* timed_commitment::commit.
CommitShare ==
    /\ pc = "commit"
    /\ lock' = integer_to_bits(ds)
    /\ pc' = "gen_keys"
    /\ UNCHANGED <<key, txs, sig, coms, opens, got>>

encode_signature(rr, ss) == Encode(rr, Width) \o Encode(ss, Width)

\* A digest is the string it is made from.
genKeys(signature) == [i \in Idx |-> signature \o to_bytes(i)]

GenKeysAndSetupCommits ==
    /\ pc = "gen_keys"
    /\ LET signature == encode_signature(r, s)
       IN  sent' = [keys |-> genKeys(signature), signature |-> signature]
    /\ pc' = "sha_commit"
    /\ UNCHANGED <<key, txs, sig, lock, com, opens, got>>

\* ShaCommitment::exec for every key and the signature. A commitment is its
\* message, which the receiver cannot read.
ShaCommit ==
    /\ pc = "sha_commit"
    /\ com' = sent
    /\ pc' = "executed"
    /\ UNCHANGED <<key, txs, sig, lock, sent, opens, got>>

\* Exceptions main does not catch: of a Thrift call, of the Paillier
\* encryption and of the time lock (for rare draws).
Abort ==
    /\ pc \in {"create_T1", "create_T2", "sign", "verify_T2", "commit"}
    /\ pc' = "aborted"
    /\ UNCHANGED <<key, txs, sig, lock, coms, opens, got>>

-----------------------------------------------------------------------------
(* open, of an instance that is not chosen.                                *)

OpenSignature ==
    /\ pc = "executed"
    /\ verified' = Verify(Q, hash, r, s)
    /\ pc' = "open_lock"
    /\ UNCHANGED <<key, txs, sig, lock, coms, opened, open_verified, got>>

\* The opened message is not looked at.
OpenLock ==
    /\ pc = "open_lock"
    /\ pc' = "open_keys"
    /\ UNCHANGED <<key, txs, sig, lock, coms, opens, got>>

\* Mutant: the keys are verified before the signature is there.
OpenKeysThenVerify ==
    /\ pc = "open_keys"
    /\ opened' = [opened EXCEPT !.keys = sent.keys]
    /\ pc' = "verify_keys"
    /\ UNCHANGED <<key, txs, sig, lock, coms, verified, open_verified, got>>

\* ShaCommitment::open writes the receiver's m before it compares.
OpenKeys ==
    /\ pc = "open_keys"
    /\ opened' = [opened EXCEPT !.keys = sent.keys]
    /\ pc' = IF sent.keys = com.keys THEN "open_signature" ELSE "threw"
    /\ UNCHANGED <<key, txs, sig, lock, coms, verified, open_verified, got>>

OpenSignatureCommit ==
    /\ pc = "open_signature"
    /\ opened' = [opened EXCEPT !.signature = sent.signature]
    /\ pc' = IF sent.signature = com.signature THEN "verify_keys" ELSE "threw"
    /\ UNCHANGED <<key, txs, sig, lock, coms, verified, open_verified, got>>

\* equal compares as many bytes as the opened key has.
VerifyKeys ==
    /\ pc = "verify_keys"
    /\ IF \A i \in Idx :
             opened.keys[i] \in {Empty, genKeys(opened.signature)[i]}
       THEN pc' = "opened" /\ open_verified' = verified
       ELSE pc' = "threw" /\ UNCHANGED open_verified
    /\ UNCHANGED <<key, txs, sig, lock, coms, opened, verified, got>>

-----------------------------------------------------------------------------
(* The adopted instance, when the buyer's two threads come to it.          *)

\* Mutant: the bytes of the server are joined as they are.
chain_signature_raw(br, bs) == br \o bs

chain_signature(br, bs) == encode_signature(Decode(br), Decode(bs))

\* get_signature: T2 may be in the chain with the other root of its signature.
GetSignature ==
    /\ pc = "executed"
    /\ \E negated \in BOOLEAN :
         LET chain_s == IF negated THEN n - T2s.sig[2] ELSE T2s.sig[2]
         IN  got' = [got EXCEPT
                !.negated = negated,
                !.keys = genKeys(chain_signature(toByteArray(T2s.sig[1]),
                                                 toByteArray(chain_s)))]
    /\ pc' = "read"
    /\ UNCHANGED <<key, txs, sig, lock, coms, opens>>

\* Mutant: the product of the shares is not reduced.
RedeemKeyUnreduced(bits) == bits_to_integer(bits) * db

RedeemKey(bits) == (bits_to_integer(bits) * db) % n

\* solve_time_lock: the private key redeemTransaction signs with.
SolveTimeLock ==
    /\ pc = "executed"
    /\ got' = [got EXCEPT !.d = Decode(to_bytes(RedeemKey(lock)))]
    /\ pc' = "solved"
    /\ UNCHANGED <<key, txs, sig, lock, coms, opens>>

Next ==
    \/ MakeKey \/ CreateT1 \/ CreateT2 \/ HandOver \/ Sign
    \/ VerifyT2Signature \/ CommitShare \/ GenKeysAndSetupCommits \/ ShaCommit \/ Abort
    \/ OpenSignature \/ OpenLock \/ OpenKeys \/ OpenSignatureCommit
    \/ VerifyKeys \/ GetSignature \/ SolveTimeLock

Spec == Init /\ [][Next]_vars

-----------------------------------------------------------------------------

\* Once exec has returned, the seller holds a T2 the network takes: it spends
\* T1's output with a low signature of the shared key and pays the seller.
\* The buyer's copy has no signature.
SellerCanPublishT2 ==
    pc \in {"commit", "executed", "opened"} =>
        /\ T2s.pays = "seller" /\ T2s.spends = T1 /\ Len(T2s.sig) = 2
        /\ ValidFor(T1, hash, T2s.sig[1], T2s.sig[2])
        /\ T2s.sig[2] <= n - T2s.sig[2]
        /\ T2b.sig = Empty

\* The key the buyer makes from T2 as it was signed (get_signature, factorise)
\* is for each index the key the roots of that index were encrypted under and
\* no other's; from a negated signature ("TODO negate signature") he gets none.
KeysFromChain ==
    pc = "read" => \A i, j \in Idx :
        got.keys[i] = sent.keys[j] <=> i = j /\ ~got.negated

\* The private key solve_time_lock puts together is the one T1 pays to.
LockRedeemsT1 == pc = "solved" => got.d = T1

\* Parties that follow the code fail only for want of money or for a rare draw
\* of nonces: what verify accepts bitcoinj accepts too, and an instance that is
\* opened is found to be good.
HonestInstanceIsGood ==
    /\ pc = "threw" => T1 = 0 \/ ~Verify(Q, hash, r, s)
    /\ pc = "opened" => open_verified /\ opened = sent
=============================================================================
