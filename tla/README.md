# Verification of SellingInformation

SellingInformation sells the factorisation of an RSA modulus `n` for bitcoins.
A seller who knows `p` and `q` and a buyer who wants them run a protocol at
whose end either the buyer has paid and can factor `n`, or has the money back.
This directory holds TLA+ models of the parts of that program, TLC
configurations that check them on small instances, and TLAPS proofs for every
value of the constants.

Both parties run in one C++ process (`main/main`), each with a Java server
(`BitcoinUtilsHandler` on ports 9091 and 9092) that owns a bitcoinj wallet.

## Inventory

| Component | State | Operations | Hard behaviour | What makes it correct |
|---|---|---|---|---|
| Sale (`main/sell_information.*`, `main.cpp`) | `Seller`, `Buyer`; two `atomic_bool` flags; `buyer.p`, `buyer.q` | `init`, `exec`; `make_payment`, `accept_T1`, `accept_payment`, `wait_for_signature_or_time_lock` with the threads `solve_time_lock` and `get_signature`, `factorise` | two threads that race for one output, detached threads, exceptions in threads, what is on the chain when a call fails | fair exchange: the price leaves T1 once, the factors go with it; a cheating seller cannot keep it locked |
| Exchange of roots (`main/sell_information.*`, `common/square_root.*`) | squares `y`, roots `x`, `r1`, `r2`, ciphertexts, commitments `d1`, `d2`, the subset | `genSquares`, `findRoots`, `encryptRoots`, `setupCommit`, `pickSubset`, `acceptSubset`, `verifyRoot`, `factorise` | which of two ciphertexts may be opened; arithmetic at the boundary `n/2`; degenerate roots | nothing is learned before the payment; a paid buyer factors `n` |
| Instance (`main/signature_key.*`) | shares of the key, T1, T2, keys, commitments | `exec`: key, T1 and T2, signature, time lock, commitments; `open`, `verifyKeys` | a long sequence of sub-protocols, each of which may fail | the time lock opens to the seller's share, the keys come from the signature |
| Cut and choose (`cut_and_choose/`) | `Prover.v`, `Verifier.v`, `i`, `res` | one template over any protocol | exceptions in the middle of the loop | the chosen run stays sealed, all others are checked |
| Timed commitment (`timed_commitment/`) | `Commitment`, `order`, `alpha`, `commit_values` | `commit`, `zk_1` to `zk_5`, `open`, `force_open`, `force_open_smart` | arithmetic modulo `n`, `phi` and the order of `g`; negative bounds | it opens to the message, in every way |
| Shared signature (`shared_signature/shared_sig.*`) | shares, nonces, `r`, `s`, ciphertexts | `init`, `exec`, `open`, `cheat` | ranges of sums under encryption, rare draws | a valid, low ECDSA signature under the product of the shares |
| Paillier (`shared_signature/paillier.*`) | keys | constructor, `enc`, `dec` | boundary draws | homomorphic |
| SHA commitment, regular commitment | message, seed, digest | `exec`, `open` | exception against recorded result | hiding, binding |
| Java servers (`bitcoin/java/src/`) | wallet, watched addresses, a pool of 16 workers | broadcast, wait, search, redeem, build and sign | jobs that outlive their caller, timeouts, broadcasts that fail halfway, a pool that runs out | they answer TRUE only for what is in a block; every connection gets a worker |
| Bits, AES, encodings, log, Thrift interface | none | conversions | | round trips |

The components meet like this. `exec` builds `T` instances and runs the cut and
choose over them; each instance runs a shared signature, a timed commitment and
`L + 1` SHA commitments, and asks the Java servers to build T1 and T2. The
chosen instance is adopted by both parties; the roots are encrypted under keys
derived from its signature and exchanged. Then T1 is broadcast, the seller
waits for it and broadcasts T2, and the buyer's two threads wait, one for T2
and its signature, the other for the time lock that gives it the key of T1.

## Modules

| Module | Models | Uses |
|---|---|---|
| `FairExchange` | what a sale promises: where the price is, whether the buyer has the factors | abstract |
| `Sale` | `main` and the whole `exec`, from the cut and choose to the settlement | `CutAndChoose`, `Settlement`; implements `FairExchange` |
| `Settlement` | `exec` from `make_payment` on, both threads, `main`'s exit, the Java jobs, the network | implements `FairExchange` |
| `CutAndChoose` | the template and what `exec` does with its result | |
| `SingleSell`, `MCSingleSell` | one instance: T1, T2, the signature, the keys, the time lock; opening it; using it | `Ecdsa`, `Encoding` |
| `SellInformation` | the exchange of roots and `factorise` | |
| `TimedCommitment`, `MCTimedCommitment` | the timed commitment and the regular commitment in its proof | `Encoding` |
| `SharedSignature`, `MCSharedSignature` | the shared ECDSA signature | `Ecdsa`; Paillier abstracted to plaintexts |
| `Paillier` | the arithmetic that justifies it | `Modular` |
| `ServerPool` | the workers of the buyer's Java server over several sales | |
| `Ecdsa`, `Encoding`, `Modular` | operators: signatures over a small group; bytes and bits of a number; powers, powers modulo a number, primality | `Encoding` uses `Modular` |
| `Sale_proofs`, `ServerPool_proofs`, `SharedSignature_proofs`, `SellInformation_proofs`, `SingleSell_proofs`, `Paillier_proofs`, `TimedCommitment_proofs` | theorems about the module each is named after | `Arithmetic` |
| `Arithmetic` | lemmas about numbers: induction, division, congruences, primes, powers, Fermat's theorem for one prime and for two | `Modular` |

### Settlement

`main`, `lock` and `sig` are program counters of the three threads. `rpc[t]` is
the job of a Java server that thread `t` waits for: `broadcast`, `redeem`,
`verify`, `watch`, `search`, `wait` or `signature`, which becomes `true` or
`false` when it is answered. `Calls` says which jobs a thread may ask for, and
about which transaction. Every Thrift call of the settlement is such a job and
can be lost, also `verifyTransaction` in `accept_T1` and the `getSignature` that
follows the wait for T2. Jobs are separate from the process because they are: after
`std::terminate` or a normal exit the server goes on with what it was asked.
`tx` is the state of T1, T2 and R (the transaction `redeemTransaction` builds)
on the network, `watched` the outputs the waiting wallet watches and `wallet`
the transactions it has seen. T2 and R spend the same output, so one in a block
rules the other out, and peers that hold one may refuse the other. A wallet sees
a watched transaction when it is spread, when peers answer its new filter
(`Hear`, which may or may not happen), or in a block.

A `ProtocolException` of the main thread is caught in `main` (`threw`); one in a
thread, and a Thrift transport exception anywhere, ends the process
(`proc = "aborted"`). `LeaveMain` has three steps because the process does not
end at once: it prints `buyer.p` and `q`, destroys the `Buyer`, and exits, while
a detached thread goes on.

`faults`, drawn at the start from the constant `FaultSets`, says what may go
wrong outside: a broadcast that is reported failed (taken by peers or not), a
block later than the hour the helper waits, a confirmation before the watch is
set, a lost call, a wallet in which the search throws, and roots that do not
factor. It never changes, so that one run covers settlements in which nothing
fails, one thing does, or everything may, and a liveness property can name the
faults it survives.

What is abstracted: time (a wait fails when the model says that no block comes
in time), the sleep of one second in the poll loop and fees. T1's value is
20000, as `createT1AndT2` has it. A block is final.

### CutAndChoose

`T` runs of an abstract protocol. `bad` are the runs whose prover no longer
holds what it ran with (`cheat`, the test hook, makes one). A bad run that is
opened either throws (`ShaCommitment::open`) or is recorded in the receiver's
`open_verified` (`SharedSignature::open`); `throws` says which kind `P` is. The
last step is `exec`'s test of `res` and the adoption of run `verifier.i`.

### Sale

One process from the entry of `exec` to its end. Its state is that of
`CutAndChoose` and of `Settlement`, which it extends both, with three variables
between them: the instance each party has
adopted (`setSingleSeller`, `setSingleBuyer`) and how far the roots are. `Play`
is a step of the cut and choose, `Settle` one of the settlement or of the end of
`main`; `Adopt`, `ExchangeRoots` and `PreparationFails` are `exec`'s own. An
exception may come before every step of the preparation, and is or is not one
that `main` catches. T2 can only be published if it spends this T1, which is why
`Settle` asks that both parties adopted the same instance. `SaleIsFair` is the
refinement: the buyer has the information (`Learned`) when `factorise` set it or
when the instance whose signature hides the roots was opened.

The parties follow the code: what a cheating prover can do to the cut and choose
is in `CutAndChoose`, what a seller that refuses the payment can do is in
`Settlement` (`cheat`, which `main.cpp` asks for).

### SingleSell

`exec` step by step: the shared key, T1 (the wallet may be short of money), T2
and its hash, T2 handed to the seller, the signature, `verifyT2Signature`, the
time lock, the keys and the `L + 1` commitments; then either `open`, if the
instance is not chosen, or the uses the buyer makes of the adopted one:
`get_signature` builds the keys from T2 in the chain, `solve_time_lock` the
private key of T1. A transaction is what it spends, whom it pays and its
signature; a digest is the string it is made of; a commitment is its message,
which the receiver cannot read. The shared signature and the time lock appear
with their results, to which `SharedSignature` and `TimedCommitment` are
devoted. A nonce that gives no valid signature, or one `verify` refuses because
it compares the unreduced x coordinate with r, makes `Sign` throw.

Numbers are really encoded, because the code converts them often: minimal
big-endian bytes to Java, `BigInteger.toByteArray` with its sign byte back, two
numbers of fixed width in `encode_signature`, the seller's share as bits in the
time lock. Bytes have `ByteBits` bits, so that small numbers take one byte or
two. `T2` in the chain may be the one with the other root of its signature
(`negated`): anyone can make it from the published one.

### SellInformation

Real arithmetic over a small `n`: `all_square_roots` is the code's, through the
two primes and the Chinese remainder theorem. A ciphertext is a record of the
index of its key and its content; `keys` are the indices whose key the buyer
has, `got` the ciphertexts opened to it. AES and the SHA commitments are
perfect. `Draws` are the values of the random generator.

### TimedCommitment, Paillier, SharedSignature

Real arithmetic with small parameters. One of the ten equal rounds of the proof
is run, and an exception of any of its checks is `threw`: no property tells the
rounds or the kinds of exception apart. The regular commitments of that round are to the bytes of the receiver's
challenges. `find_order` keeps the expression `(p2-2)/2` of the code. `Draws(b)`
is what a draw between 0 and `b` may give: the extremes, and the members of the
constant `Samples` reduced to the range. TLC gets one sample; with
`Samples = Nat` it is every draw, and the theorems cover that. `Paillier` lets a
message travel as in the shared signature: encrypted, raised to a power
(`Raise`), multiplied by two ciphertexts of the other party (`Times`, twice),
decrypted. In
`SharedSignature` a point is its discrete logarithm and `X` gives its x
coordinate, symmetric as on the curve, with values below, at and above `n`.

### ServerPool

`TThreadPoolServer` gives a connection a worker of a pool of 16 threads until
the client closes it and the call it was in has returned. The buyer's side of a
sale opens three: `SingleBuyer::base_party`, one in `get_signature`, and one in
`solve_time_lock` when the lock is solved. `stage` is where the process is,
`opened` its open connections, `queue` those the server has not given a worker,
`busy` those that have one. `refused` are the sales whose T2 never comes to the
wallet: the loop of `waitForTransactionByOutput` then never ends, and keeps its
worker when the process is long gone (`Hopeless`). All other calls return: the
waits are bounded by an hour, and peers are taken to answer a broadcast, whose
future has no timeout in the code. The process may also end at any time
(`Abort`).

## Runs

| Run | Shows | Bounds |
|---|---|---|
| `settlement` | type, `OneWinner`, `SpendsOnlyLockedPrice`, `NormalReturnIsSettled`, `GivenUpForCause`, `DetachedThreadsWriteNothing`, `FairExchangeSafe`; and, for the faults each names, `FairExchangeFair`, `RefundedFromCheater`, `Ends` | two prices (T1's and another), both kinds of seller, no fault, each alone, three and all together; nothing else is bounded, the state space is finite |
| `settlement_price` | violation: a price other than 20000 is refused after the broadcast of T1 | |
| `cut_and_choose` | type, `SealedUntilCommitted`, `VerdictIsJustified` (what is adopted was checked, what is refused was bad), `CheaterLoses` | 5 runs; the code has 10, the theorems hold for all |
| `sale` | `PaidInstanceIsSealed`, `SaleIsFair`, `SaleSettles` | 4 instances with every choice, two prices, no fault, lost calls, all faults |
| `single_sell` | type, `SellerCanPublishT2`, `KeysFromChain`, `LockRedeemsT1`, `HonestInstanceIsGood` | group of order 13: every pair of shares, every nonce; three hashes (0, below and above the order); 5 keys, so that indices have one byte or two; x coordinates of one byte, two, equal to and above the order |
| `sell_information` | type, nothing learned unpaid, paid buyer factors, throws only at `n/2` | n = 35, L = 4; draws with units, a multiple of each prime and `n/2` |
| `sell_information_half` | violation: honest parties fail at `n/2` | n = 15, L = 2 |
| `timed_commitment` | type, every opening gives the message, who throws when, exponents may be reduced by `order` | small safe primes, every `h`, for each random value the extremes and one more, messages of 1 to 4 bits below and beyond half of the squarings |
| `timed_commitment_order` | violation: `find_order` does not find the order | |
| `paillier` | type, homomorphic, `dec` throws only for bad randomness | the primes 11 and 13, in each place, equal too; extreme and sampled messages and randomness |
| `shared_signature` | type; the signature S makes, before it verifies it, is the low one that a single signer with both shares and both nonces makes; an opening verifies no invalid signature; who throws when | group of order 7, every share and nonce |
| `server_pool` | type, `WorkersComeBack`, `SaleIsServed` | 4 workers and 3 sales: after one sale that loses a worker the pool still serves, after two it does not, so both sides of the bound are met |

Small numbers are enough for the arithmetic because the code treats all
residues alike: the cases that differ (a root that shares a factor with `n`, a
draw at the end of its range, an x coordinate above the order, a sum at the
modulus, a number with a leading zero byte or a highest bit set) all occur in
them. What small numbers cannot show is how rare these cases are.

`SaleIsServed` has its precondition for a reason: with two workers left instead
of three a sale starves. Its main thread and `get_signature` hold both, the
solved lock waits in the queue, and T1 stays locked for as long as the server
runs. For the code's 16 workers that is after 14 sales in which T2 never came.

Deadlock is not checked: every one of these programs ends.

### Fairness

`settlement` assumes weak fairness of the three threads (the operating system
schedules them), of the jobs of the servers (a pool serves them, and a wait has a
timeout), of a broadcast that no rival contests, and of the confirmation of T1
and of one of T2 and R. A contested broadcast has none: nothing makes peers take
a transaction when they hold a rival of it. Its liveness properties name the
faults they survive; with the others the code gives up (an exception, a thread
that sleeps forever), and only the safety part remains. That the pool serves
every job is itself an assumption about the server, which `server_pool` examines:
it holds while three of its workers are free of earlier sales.

`sale` adds that the main thread goes on while it prepares. `server_pool` assumes
that threads run, the lock gets solved, a free worker takes the first connection
of the queue, a call that can return does, and R is mined when T2 does not
contest it. `cut_and_choose` assumes that its one thread does not stop. The other
modules have no liveness property.

## Proofs

TLAPS checks every theorem and lemma of the seven `_proofs` modules and of
`Arithmetic`. `Sale_proofs` holds those of `CutAndChoose`, `Settlement` and
`Sale`. The theorems hold for every value of the constants that the
module's assumption allows; TLC evaluates that assumption in each run. None of
the properties is inductive, so each module has an invariant `IInv` that is,
shown to be kept in one lemma per action (per process in `Settlement`).

*Settlement*, for every set of prices and every family of fault sets.
`SettlementInv` has, beside the ranges of the variables, five parts: `JobsInv`, which job a thread at a given place waits for;
`AnswersInv`, what an answer TRUE proves about the chain; `ChainInv`, T2 and R
are not both in the chain and T1 is in it before them; `ThreadsInv`, what each
thread's progress and flag say about the chain; `MainInv`, which threads exist
and which one has ended, by where `main` is. From it follow `OneWinner` (a
finished thread has its transaction in the chain, and there is one),
`SpendsOnlyLockedPrice`, `NormalReturnIsSettled`, the action property
`DetachedThreadsWriteNothing` (the other thread cannot reach its write any more)
and `ImplementsFairExchange`: each step maps to one step of `FairExchange` or to
none. `GivenUpForCause` (`EndsForCause`) is about what goes wrong, of which
`SettlementInv` says nothing: `ReasonsInv`, proved on top of it, says that an
answer FALSE has one of the causes the property names, and that main asks only
about a T1 that was broadcast and whose confirmation its wallet has seen. It is
this property that a T1 left without anyone to redeem it is measured by.

*CutAndChoose*, for every number of runs `T > 0`. `ExecInv` relates the loop
variable of the first loop to the runs executed, `OpenInv` that of the second to
the runs opened and verified, `ResInv` the result to where the game is.

*Sale*, for every number of instances, prices and fault sets. The invariants of
both parts hold in the composition, because the parts never move in the same
step: `QuietInv` says that nothing of the settlement has begun before the roots
are exchanged, other than `main` being thrown out; `AdoptedInv` that what both
parties adopted is the verifier's choice. `PaidInstanceIsSealed` needs both,
and the game's invariant, by which the choice is never opened. For `SaleIsFair`
the buyer's knowledge as the sale defines it (`Learned`) is shown to be the
settlement's (`info`) in every reachable state, since no opened instance is
adopted; the step simulation is then that of `Settlement`.

*ServerPool*, for every size of the pool and number of sales. `TypeOK` includes
`Cardinality(busy) <= Workers`. `OnceInv` makes it inductive: a connection is
queued once at most and never while it is served.

*SharedSignature*, for every group of prime order `n > 2`, every function `X`
with the symmetry of a curve, every Paillier modulus `N > 2n^4`, hash and
blinding. `NoWrap`: the sum B makes under encryption stays below `N`, so that
the plaintext S finds is the sum itself, not the sum modulo `N`.
`BlindedSignature`: times B's nonce it is congruent to `h + r ds db`;
`Unblinded` and `LowHalf`: dividing by S's nonce and choosing the smaller of two
values keep the equation of ECDSA; `Solution`: for each nonce the equation has
one solution, the one a single signer computes. So what S has before it verifies
anything is that signer's signature (`JointSignature`, the property
`SignsForSharedKey`); a sum that wraps around `N` would break it, and the proof
uses `NoWrap`. `EquationVerifies`: a solution of the equation passes `Verify`,
unless a draw was rare; `VerifyIsValid`: what passes is a signature. The last holds although `verify` compares with the unreduced x
coordinate: it refuses some valid signatures and accepts no other.

*SellInformation*, for every two different odd primes, every even number of
squares and every set of draws up to `n/2`. The four roots of a square are `c`,
`n-c`, `d` and `n-d` for the two numbers of the Chinese remainder theorem
(`CrtIsRoot`, `RootModPrime`), so that the two the seller keeps are one of
each and the buyer's own is among them (`PairOfRoots`, `SmallerRoots`); the sum
and the difference of the two then each share exactly one prime with `n`
(`TwoRoots`, `Candidates`, `UsefulPair`). A root that shares a factor with `n`, or that lies at `n/2`, is
where this breaks, and `PaidBuyerFactors` and `ThrowsOnlyAtHalf` say exactly
that. `NothingLearnedUnpaid` follows from which of the two ciphertexts
`OpenRoot` opens (`Opened`, `MatchedRight`).

*SingleSell*, for every group of prime order, number of bits in a byte, width of
an encoded number that holds the order, and hashes. First the conversions: each
is undone by the one the other side applies, for every number (`BytesBack`,
`JavaBack`, `BitsBack`, `NumberBack`), and two encoded signatures of fixed width
followed by an index are equal only if their numbers and indices are (`Joined`,
`KeyEqual`). `IInv` says what a step of `exec` has computed in all steps after
it: `KeyInv` the shared key, `TxsInv` both copies of T2 and what T1 pays to,
`SigInv` the signature, `ComInv` what is locked and committed to, `OpenInv` and
`GotInv` what is found when it is opened or used, `ThrowInv` why an exception
was thrown. `KeysFromChain` says that a negated signature gives no key at all,
for which `n - s` must differ from `s`, so `n` must be odd.

*Paillier*, for every size of the primes, and every set of messages, draws and
exponents. The argument is one predicate, `Cipher(e, x)`: `e` to the power `phi`
is `1 + x phi n` modulo `n^2`. It holds of an encryption of `x` whose randomness
is prime to `n` (`EncCipher`): the first factor says `x` because
`(1 + n)^k = 1 + k n` (`CipherOfG`), the second says 0 because `r^(n phi)` is 1
modulo `n^2` (`CipherOfR`), which is Euler's theorem modulo `n` raised to the
power `n`. Products of ciphertexts add what they say and powers multiply it
(`CipherTimes`, `CipherPower`), so `IInv` can follow the number through `Times`
and `Raise` (`CipherInv`), together with whether it shares a prime with `n`
(`UnitInv`), how the keys derive from the primes (`KeysInv`) and the ranges
(`RangeInv`). `DecCipher`: `dec` inverts it. That needs `phi` prime to `n`
(`PhiInverse`), which the sizes of the primes give: neither is large enough to
divide the other minus 1 as long as they differ.

*TimedCommitment*, for every two safe primes congruent to 3 modulo 4, every
bound on the primes of `g`, time parameters, messages and draws. `Sq(a, e)` is
`a` after `e` squarings. Four facts carry the proof.
`ShortCut`: the commiter, who reduces the exponent `2^e` modulo `phi`, gets
`Sq(a, e)`. For an `h` prime to `n` that is Euler's theorem; for any other `h` it
holds modulo the prime that divides `h` because the reduced exponent is not 0: a
power of 2 is no multiple of `phi`. `BaseOfRoot`: raising the root of `h` that
`Commiter::open` reveals to the power of `mult` gives the same number as taking
the root of `g`. `RootsUnique`: squares modulo `n` have one square root that is
itself a square, since -1 is no square modulo either prime (`NotOpposite`); `g`
is a square because `mult` is even, so a value that passes the receiver's
comparison with `u` is the commiter's: where the loop of `force_open_smart` is
too short, the receiver may get an exception but no wrong bits. `OrderIs`:
whatever `find_order` divides out, with its `(p2-2)/2`, `g` to the power of what
is left is 1 (`DivideOutKeeps`), so reducing exponents by it is sound; with
`Convinced`, the verification equation of the proof, this gives
`HonestNeverThrows`. `IInv` adds
`ComInv`, what each field of the commitment is as a number of squarings of `g`,
and `CommitsInv`, that the digests the commiter holds are of the values that will
be revealed.

### How the proofs are made

- Induction is over a set of naturals: the least number outside the set is
  refuted (`Least`, `SetInduction`), from the well-foundedness of `<` that the
  library proves. No library theorem that takes an operator is used.
- A recursive function (`Power`, `PowMod`, `mult`, `DivideOut`, `SquareFrom`) and
  the folds of the community modules say `CHOOSE h : ...`; a lemma shows that such
  an `h` exists (`Recursion`, `DecodeSteps`, `BitSteps`), after which the steps of
  the recursion are facts. `PowModIsPower` then says that squaring and multiplying
  computes the power.
- `Modular` has `Power(b)[k]` where one would write `b ^ k`, and
  `SellInformation` has `Sorted` where one would use TLC's `SortSeq`, because
  the provers know nothing of those operators.
- Fermat's theorem is proved from the binomial coefficients (`Triangle`), which a
  prime divides, by induction over the base; for two primes it gives Euler's.
- The lemmas `Order`, `ScalarProduct` and `VerifyIsValid` stand in two
  modules: they are about the constants of `Ecdsa`, which is not a module with
  theorems of its own. `Arithmetic` has what does not depend on constants: that
  a number below a prime has an inverse (`PrimeInverse`), that a prime divides a
  product only if it divides a factor (`PrimeProduct`), congruences, powers, and
  uniqueness of quotient and remainder.

### Only model-checked

- Liveness: `FairExchangeFair`, `RefundedFromCheater`, `Ends`, `SaleSettles`,
  `CheaterLoses`, `WorkersComeBack`, `SaleIsServed`. Fairness and ENABLED are out
  of the prover's reach.
- That the abstractions fit: that `SharedSignature` may treat a Paillier
  ciphertext as its plaintext, and `SingleSell` a shared signature and a time
  lock as their results. Each is the property of another module, not a
  refinement.

## Disagreements found

Three have a run that shows them, listed in `PROJECT.json`: the fixed price of
T1, the bound `n/2`, and the order of `g`. More were met and need no run:

- `sell_information.cpp:424` calls `wait_for_signature_or_time_lock` the "last
  function for buyer", but when the signature comes first `solve_time_lock` is
  detached and goes on using `this->single_buyer` after `main` has destroyed the
  `Buyer` (`Settlement`, `main = "destroyed"` with `lock = "force_open"`).
- A cheating that `ShaCommitment::open` detects leaves `verifier.res` true, which
  `test_cc_sha_commit.cpp` prints (`CutAndChoose`, action `OpenBad`).
- Paillier's primes have one bit more than the comment at `paillier.cpp:10` says
  (`Paillier`, action `Keys`).
- The messages of `test_cc_shared_signature.cpp`, 10 bytes long and not given to
  S, are refused by `hash_m_to_int` (`SharedSignature`, `ContSig`, `FinishSig`).

## Not modelled

- Logging and hexadecimal output, which change nothing; AES, SHA-256 and the
  random generator, which are perfect here.
- The string variants of `BitUtils`: the same templates, unused by the sale.
- The Thrift interface (a description), the C++ stub of the server (it prints),
  the Java tools and the ECDSA experiments (no part of the system calls them),
  the tests (drivers).
- A reorganisation of the chain: the code has only a TODO
  (`main/sell_information.cpp:100`) and no step that would notice one.
- Parties that send what the code would not: a time lock over another share
  passes the cut and choose, whose check of it is a TODO
  (`main/signature_key.cpp:167`). The two deviations the code itself offers, the
  seller that refuses the payment and `cheat`, are modelled.

## Order of the work, and what is next

The modules were written in the order of what they matter to the sale:
`Settlement` with `FairExchange`, `CutAndChoose`, `SellInformation`,
`SharedSignature`, `Paillier`, `TimedCommitment`, then `SingleSell` and the
composition `Sale`, then `ServerPool`; the proofs followed in the same order but
for the arithmetic of `Paillier` and `TimedCommitment`, which came last. Every
invariant that a passing run checks is now also a theorem. What a next step could
do is replace the abstractions named under "Only model-checked" by refinements:
`SharedSignature` over the ciphertexts of `Paillier`, `SingleSell` over
`SharedSignature` and `TimedCommitment`.
