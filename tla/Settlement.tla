----------------------------- MODULE Settlement -----------------------------
(***************************************************************************)
(* The end of a sale, from the moment the transactions T1 and T2 exist and *)
(* are signed: SellInformationProtocol::exec from make_payment on, the two *)
(* threads of the buyer, main's exit, the jobs of the two Java servers     *)
(* that answer their calls, and the bitcoin network.                       *)
(*                                                                         *)
(* T1 locks the price under the shared key, T2 pays it to the seller and   *)
(* carries the signature that decrypts the roots, R (built by              *)
(* redeemTransaction) pays it back to the buyer after the time lock.       *)
(***************************************************************************)
EXTENDS Integers

CONSTANTS
    Prices,    \* the prices that may be entered, in satoshis
    FaultSets  \* what may go wrong together around a settlement

FaultKinds == {
    "broadcast",  \* a broadcast is reported failed, sent or not
    "slow",       \* a block takes longer than the hour the helper waits
    "lateWatch",  \* a transaction is confirmed before its watch is set
    "rpc",        \* a Thrift call ends in a transport exception
    "search",     \* the wallet holds an output that getOutput cannot compare
    "factorise" } \* no pair of roots factors n

ASSUME SettlementAssumption ==
    /\ Prices \subseteq Nat
    /\ FaultSets \subseteq SUBSET FaultKinds

VARIABLES
    price,     \* the price both parties agreed on
    cheat,     \* will the seller refuse the payment (main.cpp asks)
    faults,    \* what may go wrong in this settlement
    main,      \* where the main thread is in exec and main()
    lock,      \* where the thread solve_time_lock is
    sig,       \* where the thread get_signature is
    proc,      \* the C++ process: "running", "exited" or "aborted"
    threw,     \* did main catch a ProtocolException
    rpc,       \* per thread: the job of a Java server it waits for
    tx,        \* the network: each transaction's state
    watched,   \* transactions whose output address the waiting wallet watches
    wallet,    \* transactions the waiting wallet has seen
    sigFlag,   \* signature_finished
    lockFlag,  \* time_lock_finished
    info       \* buyer.p and buyer.q are set

inputs  == <<price, cheat, faults>>
pcs     == <<main, lock, sig>>
process == <<proc, threw>>
network == <<tx, watched, wallet>>
results == <<sigFlag, lockFlag, info>>
vars    == <<inputs, pcs, process, rpc, network, results>>

Txs     == {"T1", "T2", "R"}
Threads == {"main", "lock", "sig"}
Jobs    == {"idle", "broadcast", "redeem", "verify", "watch", "search", "wait",
            "signature", "true", "false"}

Idle == [op |-> "idle", tx |-> "T1"]

\* The calls a thread makes, and what they are about.
Calls ==
    [main |-> [op : {"broadcast"}, tx : {"T1", "T2"}]
                \union [op : {"verify", "watch", "wait"}, tx : {"T1"}],
     lock |-> [op : {"redeem", "wait"}, tx : {"R"}],
     sig  |-> [op : {"watch", "search", "wait", "signature"}, tx : {"T2"}]]

Ranges ==
    /\ price \in Nat
    /\ cheat \in BOOLEAN
    /\ faults \subseteq FaultKinds
    /\ main \in {"make_payment", "paying", "accept_T1", "verifying_T1",
                 "waiting_T1", "accept_payment", "selling", "wait", "poll",
                 "woken", "join_sig", "join_lock", "print", "return",
                 "destroyed"}
    /\ lock \in {"unborn", "force_open", "redeeming", "finish", "done",
                 "sleeping"}
    /\ sig \in {"unborn", "get_signature", "searching", "reading",
                "factorise", "finish", "done"}
    /\ proc \in {"running", "exited", "aborted"}
    /\ threw \in BOOLEAN
    /\ rpc \in [Threads -> [op : Jobs, tx : Txs]]
    /\ tx \in [Txs -> {"none", "pending", "confirmed"}]
    /\ watched \subseteq Txs
    /\ wallet \subseteq Txs
    /\ sigFlag \in BOOLEAN
    /\ lockFlag \in BOOLEAN
    /\ info \in BOOLEAN

TypeOK ==
    /\ Ranges
    /\ \A t \in Threads :
         rpc[t].op \in {"idle", "true", "false"} \/ rpc[t] \in Calls[t]

Init ==
    /\ price \in Prices
    /\ cheat \in BOOLEAN
    /\ faults \in FaultSets
    /\ main = "make_payment" /\ lock = "unborn" /\ sig = "unborn"
    /\ proc = "running" /\ threw = FALSE
    /\ rpc = [t \in Threads |-> Idle]
    /\ tx = [x \in Txs |-> "none"]
    /\ watched = {} /\ wallet = {}
    /\ sigFlag = FALSE /\ lockFlag = FALSE /\ info = FALSE

-----------------------------------------------------------------------------
(* Calls to the Java servers and exceptions.                               *)

Call(t, op, x) == rpc' = [rpc EXCEPT ![t] = [op |-> op, tx |-> x]]

\* The call of thread t has been answered b.
Answered(t, b) == rpc[t].op = IF b THEN "true" ELSE "false"

\* It returns, and the thread makes no further call.
Returned(t, b) == /\ Answered(t, b)
                  /\ rpc' = [rpc EXCEPT ![t] = Idle]

\* A ProtocolException of the main thread: main catches and prints it.
Throw == main' = "print" /\ threw' = TRUE

\* An exception that leaves a thread: std::terminate.
Terminate == proc' = "aborted"

-----------------------------------------------------------------------------
(* The main thread.                                                        *)

MakePayment ==
    /\ main = "make_payment"
    /\ main' = "paying"
    /\ Call("main", "broadcast", "T1")
    /\ UNCHANGED <<lock, sig, process, network, results>>

PaymentAnswered ==
    /\ main = "paying"
    /\ \/ Returned("main", TRUE) /\ main' = "accept_T1" /\ UNCHANGED threw
       \/ Returned("main", FALSE) /\ Throw
    /\ UNCHANGED <<lock, sig, proc, network, results>>

AcceptT1 ==
    /\ main = "accept_T1"
    /\ main' = "verifying_T1"
    /\ Call("main", "verify", "T1")
    /\ UNCHANGED <<lock, sig, process, network, results>>

\* accept_T1 throws, or goes on to waitForTransaction.
T1Verified ==
    /\ main = "verifying_T1"
    /\ \/ Answered("main", TRUE) /\ Call("main", "watch", "T1")
          /\ main' = "waiting_T1" /\ UNCHANGED threw
       \/ Returned("main", FALSE) /\ Throw
    /\ UNCHANGED <<lock, sig, proc, network, results>>

\* Mutant: the result of waitForTransaction is not looked at.
T1AnsweredUnread ==
    /\ main = "waiting_T1"
    /\ \E b \in BOOLEAN : Returned("main", b)
    /\ main' = "accept_payment"
    /\ UNCHANGED <<lock, sig, proc, threw, network, results>>

T1Answered ==
    /\ main = "waiting_T1"
    /\ \/ Returned("main", TRUE) /\ main' = "accept_payment" /\ UNCHANGED threw
       \/ Returned("main", FALSE) /\ Throw
    /\ UNCHANGED <<lock, sig, proc, network, results>>

AcceptPayment ==
    /\ main = "accept_payment"
    /\ \/ cheat /\ main' = "wait" /\ UNCHANGED rpc
       \/ ~cheat /\ Call("main", "broadcast", "T2") /\ main' = "selling"
    /\ UNCHANGED <<lock, sig, process, network, results>>

SaleAnswered ==
    /\ main = "selling"
    /\ \/ Returned("main", TRUE) /\ main' = "wait" /\ UNCHANGED threw
       \/ Returned("main", FALSE) /\ Throw
    /\ UNCHANGED <<lock, sig, proc, network, results>>

\* Mutant: the thread that solves the time lock is forgotten.
StartOneThread ==
    /\ main = "wait"
    /\ main' = "poll" /\ sig' = "get_signature"
    /\ UNCHANGED <<lock, process, rpc, network, results>>

StartThreads ==
    /\ main = "wait"
    /\ main' = "poll" /\ lock' = "force_open" /\ sig' = "get_signature"
    /\ UNCHANGED <<process, rpc, network, results>>

\* while (!signature_finished && !time_lock_finished) sleep(1)
PollLoopEnds ==
    /\ main = "poll"
    /\ sigFlag \/ lockFlag
    /\ main' = "woken"
    /\ UNCHANGED <<lock, sig, process, rpc, network, results>>

\* The flag is read a second time to tell which thread to join.
ChooseThread ==
    /\ main = "woken"
    /\ main' = IF sigFlag THEN "join_sig" ELSE "join_lock"
    /\ UNCHANGED <<lock, sig, process, rpc, network, results>>

\* Joins one thread; the other one is detached and goes on.
Join ==
    /\ \/ main = "join_sig" /\ sig = "done"
       \/ main = "join_lock" /\ lock = "done"
    /\ main' = "print"
    /\ UNCHANGED <<lock, sig, process, rpc, network, results>>

\* main prints buyer.p and buyer.q, leaves its scope, and the process ends.
LeaveMain ==
    /\ \/ main = "print" /\ main' = "return" /\ UNCHANGED proc
       \/ main = "return" /\ main' = "destroyed" /\ UNCHANGED proc
       \/ main = "destroyed" /\ proc' = "exited" /\ UNCHANGED main
    /\ UNCHANGED <<lock, sig, threw, rpc, network, results>>

MainStep ==
    /\ proc = "running"
    /\ \/ MakePayment \/ PaymentAnswered \/ AcceptT1 \/ T1Verified
       \/ T1Answered \/ AcceptPayment \/ SaleAnswered \/ StartThreads \/ PollLoopEnds
       \/ ChooseThread \/ Join \/ LeaveMain
    /\ UNCHANGED inputs

-----------------------------------------------------------------------------
(* The buyer's thread solve_time_lock.                                     *)

\* The time lock is solved; d is computed and R asked for.
ForceOpen ==
    /\ lock = "force_open"
    /\ lock' = "redeeming"
    /\ Call("lock", "redeem", "R")
    /\ UNCHANGED <<main, sig, process, network, results>>

\* Mutant: a failed redeemTransaction counts as a refund.
RedeemAnsweredUnread ==
    /\ lock = "redeeming"
    /\ \E b \in BOOLEAN : Returned("lock", b)
    /\ lock' = "finish"
    /\ UNCHANGED <<main, sig, process, network, results>>

\* After a failure the thread sleeps forever.
RedeemAnswered ==
    /\ lock = "redeeming"
    /\ \/ Returned("lock", TRUE) /\ lock' = "finish"
       \/ Returned("lock", FALSE) /\ lock' = "sleeping"
    /\ UNCHANGED <<main, sig, process, network, results>>

\* Mutant: the thread ends without setting its flag.
LockFinishSilent ==
    /\ lock = "finish"
    /\ lock' = "done"
    /\ UNCHANGED <<main, sig, process, rpc, network, results>>

LockFinish ==
    /\ lock = "finish"
    /\ lockFlag' = TRUE
    /\ lock' = "done"
    /\ UNCHANGED <<main, sig, process, rpc, network, sigFlag, info>>

LockStep ==
    /\ proc = "running"
    /\ ForceOpen \/ RedeemAnswered \/ LockFinish
    /\ UNCHANGED inputs

-----------------------------------------------------------------------------
(* The buyer's thread get_signature.                                       *)

\* Mutant: the search is for an output of the shared key, which T1 has.
GetSignatureOfT1 ==
    /\ sig = "get_signature"
    /\ sig' = "searching"
    /\ Call("sig", "watch", "T1")
    /\ UNCHANGED <<main, lock, process, network, results>>

\* Mutant: the search begins without a watched address.
GetSignatureUnwatched ==
    /\ sig = "get_signature"
    /\ sig' = "searching"
    /\ Call("sig", "search", "T2")
    /\ UNCHANGED <<main, lock, process, network, results>>

GetSignature ==
    /\ sig = "get_signature"
    /\ sig' = "searching"
    /\ Call("sig", "watch", "T2")
    /\ UNCHANGED <<main, lock, process, network, results>>

\* Mutant: a wait that timed out ends the thread as if it had worked.
T2AnsweredUnread ==
    /\ sig = "searching"
    /\ \/ Answered("sig", TRUE) /\ Call("sig", "signature", "T2") /\ sig' = "reading"
       \/ Returned("sig", FALSE) /\ sig' = "finish"
    /\ UNCHANGED <<main, lock, process, network, results>>

\* waitForTransactionByOutput: T2 is deep enough, and its signature is asked
\* for. A failed wait throws.
T2Answered ==
    /\ sig = "searching"
    /\ \/ Answered("sig", TRUE) /\ Call("sig", "signature", "T2")
          /\ sig' = "reading" /\ UNCHANGED proc
       \/ Returned("sig", FALSE) /\ Terminate /\ UNCHANGED sig
    /\ UNCHANGED <<main, lock, threw, network, results>>

\* getSignature has no result for a failure: an exception of the handler comes
\* back as one of Thrift.
SignatureAnswered ==
    /\ sig = "reading"
    /\ \/ Returned("sig", TRUE) /\ sig' = "factorise" /\ UNCHANGED proc
       \/ Returned("sig", FALSE) /\ Terminate /\ UNCHANGED sig
    /\ UNCHANGED <<main, lock, threw, network, results>>

\* factorise sets p and q, or throws when no pair of roots factors n.
Factorise ==
    /\ sig = "factorise"
    /\ \/ info' = TRUE /\ sig' = "finish" /\ UNCHANGED proc
       \/ "factorise" \in faults /\ Terminate /\ UNCHANGED <<sig, info>>
    /\ UNCHANGED <<main, lock, threw, rpc, network, sigFlag, lockFlag>>

SigFinish ==
    /\ sig = "finish"
    /\ sigFlag' = TRUE
    /\ sig' = "done"
    /\ UNCHANGED <<main, lock, process, rpc, network, lockFlag, info>>

SigStep ==
    /\ proc = "running"
    /\ \/ GetSignature \/ T2Answered \/ SignatureAnswered \/ Factorise
       \/ SigFinish
    /\ UNCHANGED inputs

\* TTransportException is no ProtocolException: nothing catches it.
RpcLost ==
    /\ "rpc" \in faults
    /\ proc = "running"
    /\ \E t \in Threads : rpc[t].op # "idle"
    /\ Terminate
    /\ UNCHANGED <<inputs, pcs, threw, rpc, network, results>>

-----------------------------------------------------------------------------
(* The jobs of the Java servers. They go on when the C++ process is gone.  *)

\* T2 and R spend the same output of T1.
Rivals(x) == IF x = "T1" THEN {} ELSE {"T2", "R"} \ {x}

\* Peers keep x: its input exists and no block has spent it.
Spendable(x) == /\ x # "T1" => tx["T1"] # "none"
                /\ \A y \in Rivals(x) : tx[y] # "confirmed"

\* After the broadcast redeemTransaction waits for a block itself.
AfterBroadcast(t) == IF rpc[t].op = "redeem" THEN "wait" ELSE "true"

\* The network takes the transaction, and a watching wallet hears of it.
Spread(x) ==
    /\ tx' = [tx EXCEPT ![x] = IF tx[x] = "none" THEN "pending" ELSE tx[x]]
    /\ wallet' = IF x \in watched \/ x = "R" THEN wallet \union {x} ELSE wallet
    /\ UNCHANGED watched

BroadcastWorks(t) ==
    /\ rpc[t].op \in {"broadcast", "redeem"}
    /\ Spendable(rpc[t].tx)
    /\ Spread(rpc[t].tx)
    /\ Call(t, AfterBroadcast(t), rpc[t].tx)
    /\ UNCHANGED <<inputs, pcs, process, results>>

\* The future of the broadcast fails: a rival is on the network already, or
\* the peers could not be reached, which does not mean that none took it.
BroadcastFails(t) ==
    /\ rpc[t].op \in {"broadcast", "redeem"}
    /\ \/ "broadcast" \in faults
       \/ \E y \in Rivals(rpc[t].tx) : tx[y] # "none"
    /\ \/ UNCHANGED network
       \/ "broadcast" \in faults /\ Spendable(rpc[t].tx) /\ Spread(rpc[t].tx)
    /\ Call(t, "false", rpc[t].tx)
    /\ UNCHANGED <<inputs, pcs, process, results>>

\* createT1AndT2 put this value in T1.
T1Value == 20000

\* Mutant: more than the price is asked for, as if T1 had to carry the fee.
VerifyT1Fee == T1Value > price

\* verifyTransaction: the output for the shared key carries the price.
VerifyT1 == T1Value = price

VerifyTransaction(t) ==
    /\ rpc[t].op = "verify"
    /\ Call(t, IF VerifyT1 THEN "true" ELSE "false", rpc[t].tx)
    /\ UNCHANGED <<inputs, pcs, process, network, results>>

\* addWatchedAddress. waitForTransaction has the transaction in its hands,
\* waitForTransactionByOutput has to find it by its output.
AddWatch(t) ==
    /\ rpc[t].op = "watch"
    /\ watched' = watched \union {rpc[t].tx}
    /\ Call(t, IF t = "main" THEN "wait" ELSE "search", rpc[t].tx)
    /\ UNCHANGED <<inputs, pcs, process, tx, wallet, results>>

\* Mutant: the signature is read as soon as T2 is found, at depth 0.
FoundShallow(t) ==
    /\ rpc[t].op = "search"
    /\ rpc[t].tx \in wallet
    /\ Call(t, "true", rpc[t].tx)
    /\ UNCHANGED <<inputs, pcs, process, network, results>>

\* One of the searches, every ten seconds, finds it in the wallet.
Found(t) ==
    /\ rpc[t].op = "search"
    /\ rpc[t].tx \in wallet
    /\ Call(t, "wait", rpc[t].tx)
    /\ UNCHANGED <<inputs, pcs, process, network, results>>

\* getOutput calls equals on the address of every output in the wallet; for
\* one that pays to no public key hash there is none, and the search throws,
\* that of waitForTransactionByOutput or that of getSignature.
SearchFails(t) ==
    /\ "search" \in faults
    /\ rpc[t].op \in {"search", "signature"}
    /\ Call(t, "false", rpc[t].tx)
    /\ UNCHANGED <<inputs, pcs, process, network, results>>

\* getSignature finds the transaction again and takes its signature out.
ReadSignature(t) ==
    /\ rpc[t].op = "signature"
    /\ Call(t, "true", rpc[t].tx)
    /\ UNCHANGED <<inputs, pcs, process, network, results>>

\* The wallet knows the block of the transaction.
Deep(x) == x \in wallet /\ tx[x] = "confirmed"

HelperWorks(t) ==
    /\ rpc[t].op = "wait"
    /\ Deep(rpc[t].tx)
    /\ Call(t, "true", rpc[t].tx)
    /\ UNCHANGED <<inputs, pcs, process, network, results>>

\* 61 waits of a minute have passed. Without the fault "slow" a transaction
\* that can still enter a block has done so by then.
HelperFails(t) ==
    LET x == rpc[t].tx IN
    /\ rpc[t].op = "wait"
    /\ ~Deep(x)
    /\ "slow" \in faults \/ tx[x] # "pending" \/ ~Spendable(x)
    /\ Call(t, "false", x)
    /\ UNCHANGED <<inputs, pcs, process, network, results>>

ServerStep(t) == \/ BroadcastWorks(t) \/ BroadcastFails(t)
                 \/ VerifyTransaction(t) \/ AddWatch(t)
                 \/ Found(t) \/ SearchFails(t) \/ ReadSignature(t)
                 \/ HelperWorks(t) \/ HelperFails(t)

-----------------------------------------------------------------------------
(* The bitcoin network.                                                    *)

\* A call that sets a watch takes less time than a block; the fault
\* "lateWatch" and the end of the process lift that.
InTime(x) == \/ x \in watched \union {"R"}
             \/ "lateWatch" \in faults
             \/ proc # "running"

\* Peers tell a wallet that has begun to watch what they hold for it.
Hear(x) ==
    /\ tx[x] = "pending"
    /\ x \in watched \ wallet
    /\ wallet' = wallet \union {x}
    /\ UNCHANGED <<inputs, pcs, process, rpc, tx, watched, results>>

\* A block with transaction x; a watching wallet sees it.
Confirm(x) ==
    /\ tx[x] = "pending"
    /\ x # "T1" => tx["T1"] = "confirmed"
    /\ Spendable(x)
    /\ InTime(x)
    /\ tx' = [tx EXCEPT ![x] = "confirmed"]
    /\ wallet' = IF x \in watched THEN wallet \union {x} ELSE wallet
    /\ UNCHANGED <<inputs, pcs, process, rpc, watched, results>>

-----------------------------------------------------------------------------

Next ==
    \/ MainStep \/ LockStep \/ SigStep \/ RpcLost
    \/ \E t \in Threads : ServerStep(t)
    \/ \E x \in Txs : Hear(x) \/ Confirm(x)

Spec == Init /\ [][Next]_vars

\* A broadcast that no rival contests is taken.
Uncontested(t) == \A y \in Rivals(rpc[t].tx) : tx[y] = "none"

\* Threads are scheduled, jobs run, and a pending transaction of the sale is
\* mined. Nothing makes peers take a transaction they hold a rival of.
Fairness ==
    /\ WF_vars(MainStep) /\ WF_vars(LockStep) /\ WF_vars(SigStep)
    /\ \A t \in Threads :
         /\ WF_vars(BroadcastWorks(t) /\ Uncontested(t))
         /\ WF_vars(VerifyTransaction(t)) /\ WF_vars(AddWatch(t))
         /\ WF_vars(Found(t)) /\ WF_vars(ReadSignature(t))
         /\ WF_vars(HelperWorks(t)) /\ WF_vars(HelperFails(t))
    /\ WF_vars(Confirm("T1"))
    /\ WF_vars(Confirm("T2") \/ Confirm("R"))

FairSpec == Spec /\ Fairness

-----------------------------------------------------------------------------
(* Properties.                                                             *)

\* The two threads never both win: buyer.p and q come from T2 (get_signature),
\* the finished refund from R (solve_time_lock), and both spend T1.
OneWinner == ~((info \/ sigFlag) /\ (lockFlag \/ lock \in {"finish", "done"}))

\* The seller publishes the signature (accept_payment) only after T1 is in a
\* block, and so nothing spends T1 before: accept_T1's wait is what protects
\* the seller from a T1 that is replaced.
SpendsOnlyLockedPrice ==
    (tx["T2"] # "none" \/ tx["R"] # "none") => tx["T1"] = "confirmed"

\* When exec returns without an exception, the price has left T1 and the
\* buyer holds what it went for: the factors or the money.
NormalReturnIsSettled ==
    main \in {"print", "return", "destroyed"} /\ ~threw
        => \/ info /\ tx["T2"] = "confirmed"
           \/ ~info /\ tx["R"] = "confirmed"

\* wait_for_signature_or_time_lock detaches the thread that lost. Its writes
\* would race main's read of buyer.p and q, and would go to a flag of a stack
\* frame that is gone: from then on no thread writes any of them.
DetachedThreadsWriteNothing ==
    [][(main \in {"print", "return", "destroyed"}) => UNCHANGED results]_vars

\* A T1 on its way is given up, by an exception of the main thread that leaves
\* nobody to redeem it or by the end of the process, only for what went wrong
\* outside: a report of a broadcast, a block or its watch that came late, a
\* price T1 was not built for; lost calls, the search, worthless roots. Or it
\* has been redeemed.
GivenUpForCause ==
    tx["T1"] # "none" =>
        /\ threw => \/ price # T1Value
                    \/ faults \intersect {"broadcast", "slow", "lateWatch"} # {}
        /\ proc = "aborted" =>
             \/ faults \intersect {"rpc", "slow", "search", "factorise"} # {}
             \/ tx["R"] = "confirmed"

\* Where the price is, as the chain has it.
Money == IF tx["T2"] = "confirmed" THEN "seller"
         ELSE IF tx["R"] = "confirmed" THEN "refunded"
         ELSE IF tx["T1"] = "confirmed" THEN "locked"
         ELSE "buyer"

FE == INSTANCE FairExchange WITH money <- Money

\* Whatever fails, the sale is a fair exchange: the price leaves T1 once and
\* p and q are learned only from a sale that was paid.
FairExchangeSafe == FE!Spec

\* With no fault outside, a price T1 was built for leaves T1 once it is locked,
\* and when it goes to the seller the buyer learns p and q (exec).
FairExchangeFair ==
    faults = {} /\ price = T1Value => FE!Fairness

\* main does not wait forever for the two flags, even when calls are lost, the
\* search throws or no roots factor n: each of these ends the process.
Ends == faults \subseteq {"rpc", "search", "factorise"} => <>(proc # "running")

\* A seller that refuses the payment after T1 is locked (cheat) cannot keep it
\* locked: solve_time_lock gets it back, whatever the roots are worth.
RefundedFromCheater ==
    (/\ faults \subseteq {"factorise"} /\ price = T1Value
     /\ cheat /\ tx["T1"] = "confirmed") ~> (tx["R"] = "confirmed")

\* "Input price in satoshis" (main.cpp:34): a T1 in the chain is accepted by
\* the seller of an undisturbed sale.
AgreedPriceAccepted == tx["T1"] # "none" => ~threw
=============================================================================
