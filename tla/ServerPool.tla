----------------------------- MODULE ServerPool -----------------------------
(***************************************************************************)
(* The buyer's Java server over several sales. TThreadPoolServer gives     *)
(* each connection a worker of a fixed pool, until the client has closed   *)
(* it and the call it was in has returned; further connections queue. A    *)
(* sale is a process with three connections: of its main thread, of        *)
(* get_signature, and of solve_time_lock once the lock is solved. A search *)
(* for a T2 that is never published keeps its worker when the process is   *)
(* long gone. (Settlement is about one sale with workers enough.)          *)
(***************************************************************************)
EXTENDS Integers, Sequences, FiniteSets

CONSTANTS
    Workers,  \* threads of the pool
    MaxSales  \* bound on the sales, one after the other

ASSUME ServerPoolAssumption ==
    Workers \in Nat \ {0} /\ MaxSales \in Nat \ {0}

VARIABLES
    stage,    \* of the running sale: "idle" (none), "prepare", "threads"
    sale,     \* its number
    refused,  \* sales whose T2 never comes to the buyer's wallet: it is not
              \* published, or R is taken in its place
    opened,   \* connections of the running sale
    queue,    \* connections that wait for a worker, the first first
    busy      \* connections that have one

vars == <<stage, sale, refused, opened, queue, busy>>

Sales       == 1 .. MaxSales
Connections == Sales \X {"main", "sig", "lock"}

TypeOK ==
    /\ stage \in {"idle", "prepare", "threads"}
    /\ sale \in 0 .. MaxSales
    /\ refused \subseteq 1 .. sale
    /\ opened \subseteq {sale} \X {"main", "sig", "lock"}
    /\ queue \in Seq(Connections)
    /\ busy \subseteq Connections /\ Cardinality(busy) <= Workers

Init ==
    /\ stage = "idle" /\ sale = 0 /\ refused = {}
    /\ opened = {} /\ queue = <<>> /\ busy = {}

\* BaseParty: the server accepts the connection and queues it.
Connect(c) == queue' = Append(queue, c) /\ opened' = opened \union {c}

\* A process starts, with the connection SingleBuyer::base_party.
StartSale ==
    /\ stage = "idle"
    /\ sale < MaxSales
    /\ sale' = sale + 1
    /\ refused' \in {refused, refused \union {sale'}}
    /\ Connect(<<sale', "main">>)
    /\ stage' = "prepare"
    /\ UNCHANGED busy

\* The calls of the main thread have been answered.
StartThreads ==
    /\ stage = "prepare"
    /\ <<sale, "main">> \in busy
    /\ stage' = "threads"
    /\ UNCHANGED <<sale, refused, opened, queue, busy>>

\* get_signature connects and calls waitForTransactionByOutput; solve_time_lock
\* does, for redeemTransaction, when the lock is solved.
ThreadConnects(t) ==
    /\ stage = "threads"
    /\ <<sale, t>> \notin opened
    /\ Connect(<<sale, t>>)
    /\ UNCHANGED <<stage, sale, refused, busy>>

\* The process is over and its connections are closed; jobs and requests of
\* it are not.
ProcessEnds ==
    /\ stage' = "idle"
    /\ opened' = {}
    /\ UNCHANGED <<sale, refused, queue, busy>>

\* The search finds T2.
SignatureRead ==
    /\ stage = "threads"
    /\ <<sale, "sig">> \in busy /\ sale \notin refused
    /\ ProcessEnds

\* T1 is redeemed.
Redeemed ==
    /\ stage = "threads"
    /\ <<sale, "lock">> \in busy
    /\ ProcessEnds

\* An exception ends the process at any time.
Abort == stage # "idle" /\ ProcessEnds

\* Mutant: the simple server, which is commented out, serves one connection.
ServeSimple ==
    /\ queue # <<>>
    /\ busy = {}
    /\ busy' = {Head(queue)}
    /\ queue' = Tail(queue)
    /\ UNCHANGED <<stage, sale, refused, opened>>

\* Mutant: a thread for every connection.
ServeAll ==
    /\ queue # <<>>
    /\ busy' = busy \union {Head(queue)}
    /\ queue' = Tail(queue)
    /\ UNCHANGED <<stage, sale, refused, opened>>

\* A free worker takes the first connection, whether or not it is still open:
\* its request has been sent.
Serve ==
    /\ queue # <<>>
    /\ Cardinality(busy) < Workers
    /\ busy' = busy \union {Head(queue)}
    /\ queue' = Tail(queue)
    /\ UNCHANGED <<stage, sale, refused, opened>>

\* Mutant: redeemTransaction, too, looks for its transaction without end.
HopelessThreads(c) == c[1] \in refused /\ c[2] \in {"sig", "lock"}

\* The loop of waitForTransactionByOutput has no bound.
Hopeless(c) == c[1] \in refused /\ c[2] = "sig"

\* The call has returned and its client is gone: the worker is free.
Leave(c) ==
    /\ c \in busy \ opened
    /\ ~Hopeless(c)
    /\ busy' = busy \ {c}
    /\ UNCHANGED <<stage, sale, refused, opened, queue>>

Next ==
    \/ StartSale \/ StartThreads \/ \E t \in {"sig", "lock"} : ThreadConnects(t)
    \/ SignatureRead \/ Redeemed \/ Abort
    \/ Serve \/ \E c \in Connections : Leave(c)

Spec == Init /\ [][Next]_vars

\* Threads run, the lock is solved, and a free worker takes a connection.
\* Redeeming is certain only where T2 does not contest it.
Fairness ==
    /\ WF_vars(StartThreads)
    /\ \A t \in {"sig", "lock"} : WF_vars(ThreadConnects(t))
    /\ WF_vars(SignatureRead) /\ WF_vars(Redeemed /\ sale \in refused)
    /\ WF_vars(Serve) /\ \A c \in Connections : WF_vars(Leave(c))

FairSpec == Spec /\ Fairness

-----------------------------------------------------------------------------

\* When a sale is over, however it ended, the pool gets back the workers of its
\* connections, all but one where T2 never came to the buyer's wallet.
WorkersComeBack ==
    stage = "idle" ~> \/ stage # "idle"
                      \/ Cardinality(busy) <= Cardinality(refused)

\* A sale that finds three workers not lost to such sales before it comes to its
\* end, by the signature or by the refund. (With fewer the lock may be solved
\* and no worker redeem T1.)
SaleIsServed ==
    \A k \in Sales :
        (/\ stage = "prepare" /\ sale = k
         /\ Cardinality(refused \ {k}) + 3 <= Workers)
        ~> (sale > k \/ stage = "idle")
=============================================================================
