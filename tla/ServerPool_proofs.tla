-------------------------- MODULE ServerPool_proofs --------------------------
(***************************************************************************)
(* Proofs about module ServerPool, for every size of the pool and every    *)
(* number of sales.                                                        *)
(*                                                                         *)
(* The argument: a connection that is opened is none of those that are     *)
(* queued or served, so that no connection is ever twice in the server     *)
(* (OnceInv) and each one served holds a worker of its own.                *)
(***************************************************************************)
EXTENDS ServerPool, FiniteSetTheorems, SequenceTheorems, TLAPS

\* A connection is queued once at most, and not while it is served; one of the
\* running sale that was not opened is neither, nor is one of a sale to come.
OnceInv ==
    /\ \A j, k \in 1 .. Len(queue) : queue[j] = queue[k] => j = k
    /\ \A k \in 1 .. Len(queue) : queue[k] \notin busy
    /\ \A k \in 1 .. Len(queue) : queue[k][1] <= sale
    /\ \A c \in busy : c[1] <= sale
    /\ stage # "idle" =>
         \A t \in {"main", "sig", "lock"} : <<sale, t>> \notin opened =>
             /\ <<sale, t>> \notin busy
             /\ \A k \in 1 .. Len(queue) : queue[k] # <<sale, t>>

IInv ==
    /\ TypeOK
    /\ IsFiniteSet(busy)
    /\ stage = "idle" => opened = {}
    /\ stage # "idle" => sale # 0
    /\ OnceInv

-----------------------------------------------------------------------------

\* A pool without connections.
LEMMA InitIInv == Init => IInv
<1> SUFFICES ASSUME Init PROVE IInv
  OBVIOUS
<1>1. IsFiniteSet(busy) /\ Cardinality(busy) = 0
  BY FS_EmptySet DEF Init
<1>2. queue \in Seq(Connections)
  BY DEF Init
<1> QED
  BY <1>1, <1>2, ServerPoolAssumption DEF Init, IInv, TypeOK, OnceInv, Connections

\* A connection that is neither queued nor served goes to the end of the queue.
LEMMA ConnectOnce ==
  ASSUME IInv, NEW c \in Connections, queue' = Append(queue, c), UNCHANGED busy,
         \A k \in 1 .. Len(queue) : queue[k] # c,  c \notin busy
  PROVE  /\ queue' \in Seq(Connections)
         /\ \A k \in 1 .. Len(queue') :
               queue'[k] = c \/ \E j \in 1 .. Len(queue) : queue'[k] = queue[j]
         /\ \A j, k \in 1 .. Len(queue') : queue'[j] = queue'[k] => j = k
         /\ \A k \in 1 .. Len(queue') : queue'[k] \notin busy'
<1> USE DEF IInv, TypeOK, OnceInv
<1>1. /\ queue' \in Seq(Connections)
      /\ Len(queue') = Len(queue) + 1
      /\ queue'[Len(queue')] = c
      /\ \A k \in 1 .. Len(queue) : queue'[k] = queue[k]
  OBVIOUS
<1> QED
  BY <1>1

\* A new process opens its first connection.
LEMMA StartSaleIInv == IInv /\ StartSale => IInv'
<1> SUFFICES ASSUME IInv, StartSale PROVE IInv'
  OBVIOUS
<1> USE ServerPoolAssumption DEF IInv, StartSale, Connect, TypeOK, OnceInv
<1> DEFINE c == <<sale + 1, "main">>
<1>1. c \in Connections
  BY DEF Connections, Sales
<1>2. c \notin busy /\ \A k \in 1 .. Len(queue) : queue[k] # c
  OBVIOUS
<1>3. /\ queue' \in Seq(Connections)
      /\ \A k \in 1 .. Len(queue') :
            queue'[k] = c \/ \E j \in 1 .. Len(queue) : queue'[k] = queue[j]
      /\ \A j, k \in 1 .. Len(queue') : queue'[j] = queue'[k] => j = k
      /\ \A k \in 1 .. Len(queue') : queue'[k] \notin busy'
  BY <1>1, <1>2, ConnectOnce
<1>4. TypeOK' /\ IsFiniteSet(busy') /\ (stage' = "idle" => opened' = {})
      /\ (stage' # "idle" => sale' # 0)
  BY <1>3
<1>5. ASSUME NEW k \in 1 .. Len(queue') PROVE queue'[k][1] <= sale'
  <2>1. CASE queue'[k] = c
    BY <2>1
  <2>2. CASE \E j \in 1 .. Len(queue) : queue'[k] = queue[j]
    <3>1. PICK j \in 1 .. Len(queue) : queue'[k] = queue[j]
      BY <2>2
    <3>2. queue[j] \in Connections
      OBVIOUS
    <3>3. queue[j][1] <= sale /\ queue[j][1] \in Int /\ sale' = sale + 1
      BY <3>2 DEF Connections, Sales
    <3> QED
      BY <3>1, <3>3
  <2> QED
    BY <1>3, <2>1, <2>2
<1>6. \A t \in {"main", "sig", "lock"} : <<sale', t>> \notin opened' =>
             /\ <<sale', t>> \notin busy'
             /\ \A k \in 1 .. Len(queue') : queue'[k] # <<sale', t>>
  BY <1>3
<1>7. \A d \in busy' : d[1] <= sale'
  BY DEF Connections, Sales
<1> QED
  BY <1>3, <1>4, <1>5, <1>6, <1>7

\* A thread of the running process opens a connection of its own.
LEMMA ThreadConnectsIInv ==
  ASSUME IInv, NEW t \in {"sig", "lock"}, ThreadConnects(t)
  PROVE  IInv'
<1> USE ServerPoolAssumption DEF IInv, ThreadConnects, Connect, TypeOK, OnceInv
<1> DEFINE c == <<sale, t>>
<1>1. c \in Connections
  <2>1. sale \in 1 .. MaxSales
    BY DEF Connections
  <2> QED
    BY <2>1 DEF Connections, Sales
<1>2. c \notin busy /\ \A k \in 1 .. Len(queue) : queue[k] # c
  OBVIOUS
<1>3. /\ queue' \in Seq(Connections)
      /\ \A k \in 1 .. Len(queue') :
            queue'[k] = c \/ \E j \in 1 .. Len(queue) : queue'[k] = queue[j]
      /\ \A j, k \in 1 .. Len(queue') : queue'[j] = queue'[k] => j = k
      /\ \A k \in 1 .. Len(queue') : queue'[k] \notin busy'
  BY <1>1, <1>2, ConnectOnce
<1>4. TypeOK' /\ IsFiniteSet(busy') /\ (stage' = "idle" => opened' = {})
      /\ (stage' # "idle" => sale' # 0)
  BY <1>3
<1>5. \A k \in 1 .. Len(queue') : queue'[k][1] <= sale'
  BY <1>3
<1>6. \A u \in {"main", "sig", "lock"} : <<sale', u>> \notin opened' =>
             /\ <<sale', u>> \notin busy'
             /\ \A k \in 1 .. Len(queue') : queue'[k] # <<sale', u>>
  <2> SUFFICES ASSUME NEW u \in {"main", "sig", "lock"},
                      <<sale, u>> \notin opened \union {c}
               PROVE  /\ <<sale, u>> \notin busy
                      /\ \A k \in 1 .. Len(queue') : queue'[k] # <<sale, u>>
    OBVIOUS
  <2>1. /\ <<sale, u>> \notin busy /\ <<sale, u>> # c
        /\ \A j \in 1 .. Len(queue) : queue[j] # <<sale, u>>
    OBVIOUS
  <2>2. ASSUME NEW k \in 1 .. Len(queue') PROVE queue'[k] # <<sale, u>>
    <3>1. queue'[k] = c \/ \E j \in 1 .. Len(queue) : queue'[k] = queue[j]
      BY <1>3
    <3> QED
      BY <2>1, <3>1
  <2> QED
    BY <2>1, <2>2
<1> QED
  BY <1>3, <1>4, <1>5, <1>6

\* A worker more is in use, and there was a free one.
LEMMA ServeIInv == IInv /\ Serve => IInv'
<1> SUFFICES ASSUME IInv, Serve PROVE IInv'
  OBVIOUS
<1> USE DEF IInv, Serve, TypeOK, OnceInv
<1> DEFINE c == Head(queue)
<1>1. /\ c \in Connections /\ c = queue[1] /\ 1 \in 1 .. Len(queue)
      /\ queue' \in Seq(Connections)
      /\ Len(queue') = Len(queue) - 1
      /\ \A k \in 1 .. Len(queue') : queue'[k] = queue[k + 1]
  OBVIOUS
<1>2. IsFiniteSet(busy') /\ Cardinality(busy') <= Workers
  <2>1. /\ Cardinality(busy) \in Nat
        /\ IsFiniteSet(busy \union {c})
        /\ Cardinality(busy \union {c}) \in {Cardinality(busy), Cardinality(busy) + 1}
    BY FS_CardinalityType, FS_AddElement
  <2> QED
    BY <2>1, ServerPoolAssumption
<1>3. TypeOK' /\ (stage' = "idle" => opened' = {})
      /\ (stage' # "idle" => sale' # 0)
  BY <1>1, <1>2
<1>4. \A k \in 1 .. Len(queue') : k + 1 \in 1 .. Len(queue) /\ k + 1 # 1
  BY <1>1
<1>5. /\ \A j, k \in 1 .. Len(queue') : queue'[j] = queue'[k] => j = k
      /\ \A k \in 1 .. Len(queue') : queue'[k] \notin busy'
  BY <1>1, <1>4
<1>6. OnceInv'
  <2>1. c[1] <= sale /\ \A k \in 1 .. Len(queue') : queue'[k][1] <= sale
    BY <1>1, <1>4
  <2>2. ASSUME stage # "idle", NEW t \in {"main", "sig", "lock"},
               <<sale, t>> \notin opened
        PROVE  /\ <<sale, t>> \notin busy'
               /\ \A k \in 1 .. Len(queue') : queue'[k] # <<sale, t>>
    <3>1. /\ <<sale, t>> \notin busy
          /\ \A k \in 1 .. Len(queue) : queue[k] # <<sale, t>>
      BY <2>2
    <3> QED
      BY <1>1, <1>4, <3>1
  <2> QED
    BY <1>5, <2>1, <2>2
<1> QED
  BY <1>2, <1>3, <1>6

\* A worker less is in use.
LEMMA LeaveIInv ==
  ASSUME IInv, NEW c \in Connections, Leave(c)
  PROVE  IInv'
<1> USE DEF IInv, Leave, TypeOK, OnceInv
<1>1. IsFiniteSet(busy') /\ Cardinality(busy') <= Workers
  <2>1. /\ Cardinality(busy) \in Nat
        /\ IsFiniteSet(busy \ {c})
        /\ Cardinality(busy \ {c}) = Cardinality(busy) - 1
    BY FS_CardinalityType, FS_RemoveElement
  <2> QED
    BY <2>1, ServerPoolAssumption
<1> QED
  BY <1>1

\* The calls of the main thread are answered, or the process ends: the server
\* sees nothing of it.
LEMMA ProcessIInv ==
  IInv /\ (StartThreads \/ SignatureRead \/ Redeemed \/ Abort) => IInv'
BY DEF IInv, TypeOK, OnceInv, StartThreads, SignatureRead, Redeemed, Abort,
       ProcessEnds

\* Every step keeps the invariant.
LEMMA NextIInv == IInv /\ [Next]_vars => IInv'
<1>1. IInv /\ UNCHANGED vars => IInv'
  BY DEF IInv, TypeOK, OnceInv, vars
<1> QED
  BY <1>1, StartSaleIInv, ThreadConnectsIInv, ServeIInv, LeaveIInv, ProcessIInv
     DEF Next

\* The invariant of the pool.
THEOREM Invariance == Spec => []IInv
BY InitIInv, NextIInv, PTL DEF Spec

\* Every variable keeps its type; no more workers than there are, are in use.
THEOREM TypeCorrect == Spec => []TypeOK
BY Invariance, PTL DEF IInv

\* A connection is queued once and served by one worker: the workers in use
\* are as many as the connections served, and what is queued is not served.
THEOREM NeverTwice == Spec => []OnceInv
BY Invariance, PTL DEF IInv
=============================================================================
