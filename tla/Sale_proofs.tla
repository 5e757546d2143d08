----------------------------- MODULE Sale_proofs -----------------------------
(***************************************************************************)
(* Proofs about a whole sale and its two parts, for every number of        *)
(* instances, every set of prices and every family of fault sets: first    *)
(* the cut and choose, then the settlement, then their composition. Sale   *)
(* extends both parts, which share no variable, so that a theorem about    *)
(* GameSpec or Spec is one about the part alone.                           *)
(***************************************************************************)
EXTENDS Sale, TLAPS

-----------------------------------------------------------------------------
(* The cut and choose, for every number T of runs.                         *)
(*                                                                         *)
(* In each phase the loop variable says which runs have been executed or   *)
(* opened so far. While runs are being opened, those before i other than   *)
(* the chosen one were opened, verified and not bad.                       *)

\* Runs are executed in the order of the loop, and opened only after it.
ExecInv ==
    /\ game = "exec" => /\ i < T
                      /\ bad = {} /\ chosen_i = -1
                      /\ \A j \in Runs : run[j] = IF j < i THEN "executed"
                                                          ELSE "new"
    /\ game \in {"cheat", "choose"} =>
           /\ chosen_i = -1
           /\ \A j \in Runs : run[j] = "executed"
    /\ game = "cheat" => bad = {}

\* From getI on nothing is new, and what lies behind i has been checked.
OpenInv ==
    game \notin {"exec", "cheat", "choose"} =>
        /\ chosen_i = r
        /\ \A j \in Runs : run[j] # "new"
        /\ run[r] = "executed"
        /\ game = "open" => i < T
        /\ game = "check" /\ res = "yes" => i = T
        /\ game \in {"open", "check", "adopted"} /\ res = "yes" =>
               \A j \in Runs \ {r} : j < i =>
                   run[j] = "opened" /\ verified[j] = "yes" /\ j \notin bad

\* res leaves "yes" only for a bad run, which an exception names too.
ResInv ==
    /\ game = "open" => res = "yes"
    /\ game = "adopted" => res = "yes" /\ i = T
    /\ game = "refused" => res # "yes"
    /\ (game = "threw" \/ (game \in {"check", "refused"} /\ res # "yes")) =>
           \E j \in bad \ {r} : run[j] = "opened" /\ verified[j] = "no"

GameInv == GameTypeOK /\ ExecInv /\ OpenInv /\ ResInv

-----------------------------------------------------------------------------

\* Before the first run nothing is executed, opened or bad.
LEMMA GameInitInv == GameInit => GameInv
BY CutAndChooseAssumption
   DEF GameInit, GameInv, GameTypeOK, ExecInv, OpenInv, ResInv, Runs

\* Every step keeps the type of the variables.
LEMMA GameNextTypeOK ==
  GameTypeOK /\ ExecInv /\ OpenInv /\ [GameNext]_gameVars => GameTypeOK'
<1> SUFFICES ASSUME GameTypeOK, ExecInv, OpenInv, [GameNext]_gameVars
             PROVE  GameTypeOK'
  OBVIOUS
<1> USE CutAndChooseAssumption DEF GameTypeOK, ExecInv, OpenInv, Runs
<1>1. CASE Exec
  BY <1>1 DEF Exec
<1>2. CASE Cheat
  BY <1>2 DEF Cheat
<1>3. CASE Choose
  BY <1>3 DEF Choose
<1>4. CASE Skip
  BY <1>4 DEF Skip, NextRun
<1>5. CASE OpenGood
  BY <1>5 DEF OpenGood, NextRun
<1>6. CASE OpenBad
  BY <1>6 DEF OpenBad
<1>7. CASE Check
  BY <1>7 DEF Check
<1>8. CASE UNCHANGED gameVars
  BY <1>8 DEF gameVars
<1> QED
  BY <1>1, <1>2, <1>3, <1>4, <1>5, <1>6, <1>7, <1>8 DEF GameNext

\* Every step keeps what the loop variable says about the runs.
LEMMA GameNextLoopInv ==
  GameInv /\ [GameNext]_gameVars => ExecInv' /\ OpenInv' /\ ResInv'
<1> SUFFICES ASSUME GameInv, [GameNext]_gameVars
             PROVE  ExecInv' /\ OpenInv' /\ ResInv'
  OBVIOUS
<1> USE CutAndChooseAssumption
    DEF GameInv, GameTypeOK, ExecInv, OpenInv, ResInv, Runs
<1>1. CASE Exec
  BY <1>1 DEF Exec
<1>2. CASE Cheat
  BY <1>2 DEF Cheat
<1>3. CASE Choose
  BY <1>3 DEF Choose
<1>4. CASE Skip
  BY <1>4 DEF Skip, NextRun
<1>5. CASE OpenGood
  BY <1>5 DEF OpenGood, NextRun
<1>6. CASE OpenBad
  BY <1>6 DEF OpenBad
<1>7. CASE Check
  BY <1>7 DEF Check
<1>8. CASE UNCHANGED gameVars
  BY <1>8 DEF gameVars
<1> QED
  BY <1>1, <1>2, <1>3, <1>4, <1>5, <1>6, <1>7, <1>8 DEF GameNext

\* Every step keeps the invariant.
LEMMA GameNextInv == GameInv /\ [GameNext]_gameVars => GameInv'
BY GameNextTypeOK, GameNextLoopInv DEF GameInv

\* The invariant of a game, for every number of runs.
THEOREM GameInvariance == GameSpec => []GameInv
BY GameInitInv, GameNextInv, PTL DEF GameSpec

-----------------------------------------------------------------------------

\* Every variable keeps its type, for every number of runs.
THEOREM GameTypeCorrect == GameSpec => []GameTypeOK
BY GameInvariance, PTL DEF GameInv

\* The run that is used is never opened, none is opened before all are done.
THEOREM Sealed == GameSpec => []SealedUntilCommitted
<1>1. GameInv => SealedUntilCommitted
  BY DEF GameInv, GameTypeOK, ExecInv, OpenInv, SealedUntilCommitted, Runs
<1> QED
  BY GameInvariance, <1>1, PTL

\* A run that is adopted was the only one not checked, and a refusal is due to
\* a bad run that was opened: a prover honest outside r is never refused.
THEOREM VerdictJustified == GameSpec => []VerdictIsJustified
<1>1. GameInv => VerdictIsJustified
  BY DEF GameInv, GameTypeOK, OpenInv, ResInv, VerdictIsJustified, Runs
<1> QED
  BY GameInvariance, <1>1, PTL

-----------------------------------------------------------------------------
(* The settlement, for every set of prices and of faults.                  *)
(*                                                                         *)
(* A thread's program counter says which job of a server it waits for      *)
(* (JobsInv) and what an answer TRUE of it proves about the chain          *)
(* (AnswersInv); T2 and R cannot both be in the chain (ChainInv); hence    *)
(* each thread's progress says what is in the chain (ThreadsInv), and      *)
(* main's progress says which threads exist and how they ended (MainInv).  *)

\* main's program counters before the threads are started, and after exec.
Before == {"make_payment", "paying", "accept_T1", "verifying_T1",
           "waiting_T1", "accept_payment", "selling", "wait"}
After  == {"print", "return", "destroyed"}

\* Program counters that are reached only when T1 is in a block.
Locked == {"accept_payment", "selling", "wait", "poll", "woken",
           "join_sig", "join_lock"}

JobsInv ==
    /\ \/ rpc["main"].op = "idle"
       \/ /\ main = "paying" /\ rpc["main"].tx = "T1"
          /\ rpc["main"].op \in {"broadcast", "true", "false"}
       \/ /\ main = "verifying_T1" /\ rpc["main"].tx = "T1"
          /\ rpc["main"].op \in {"verify", "true", "false"}
       \/ /\ main = "waiting_T1" /\ rpc["main"].tx = "T1"
          /\ rpc["main"].op \in {"watch", "wait", "true", "false"}
       \/ /\ main = "selling" /\ rpc["main"].tx = "T2"
          /\ rpc["main"].op \in {"broadcast", "true", "false"}
    /\ \/ rpc["lock"].op = "idle"
       \/ /\ lock = "redeeming" /\ rpc["lock"].tx = "R"
          /\ rpc["lock"].op \in {"redeem", "wait", "true", "false"}
    /\ \/ rpc["sig"].op = "idle"
       \/ /\ sig = "searching" /\ rpc["sig"].tx = "T2"
          /\ rpc["sig"].op \in {"watch", "search", "wait", "true", "false"}
       \/ /\ sig = "reading" /\ rpc["sig"].tx = "T2"
          /\ rpc["sig"].op \in {"signature", "true", "false"}

AnswersInv ==
    /\ main = "waiting_T1" /\ rpc["main"].op = "true" => tx["T1"] = "confirmed"
    /\ rpc["lock"].op = "true" => tx["R"] = "confirmed"
    /\ rpc["sig"].op = "true" => tx["T2"] = "confirmed"

ChainInv ==
    /\ ~(tx["T2"] = "confirmed" /\ tx["R"] = "confirmed")
    /\ SpendsOnlyLockedPrice
    /\ main \in Locked \/ lock # "unborn" => tx["T1"] = "confirmed"

ThreadsInv ==
    /\ lock \in {"finish", "done"} => tx["R"] = "confirmed"
    /\ sig \in {"reading", "factorise", "finish", "done"} =>
           tx["T2"] = "confirmed"
    /\ lockFlag <=> lock = "done"
    /\ info <=> sig \in {"finish", "done"}
    /\ sigFlag <=> sig = "done"

MainInv ==
    /\ main \in Before \/ threw => lock = "unborn" /\ sig = "unborn"
    /\ threw => main \in After
    /\ main = "woken" => sigFlag \/ lockFlag
    /\ main = "join_sig" => sigFlag
    /\ main = "join_lock" => lockFlag
    /\ main \in After /\ ~threw => sig = "done" \/ lock = "done"

SettlementInv == /\ Ranges
        /\ JobsInv
        /\ AnswersInv
        /\ ChainInv
        /\ ThreadsInv
        /\ MainInv

-----------------------------------------------------------------------------

\* Initially no thread but main's exists and the chain holds nothing.
LEMMA SettlementInitInv == Init => SettlementInv
<1> SUFFICES ASSUME Init PROVE SettlementInv
  OBVIOUS
<1> USE DEF Init, Idle, Txs, Threads
<1>1. Ranges
  BY SettlementAssumption DEF Ranges, Jobs, FaultKinds
<1>2. JobsInv /\ AnswersInv
  BY DEF JobsInv, AnswersInv
<1>3. ChainInv
  BY DEF ChainInv, SpendsOnlyLockedPrice, Locked
<1>4. ThreadsInv
  BY DEF ThreadsInv
<1>5. MainInv
  BY DEF MainInv, After
<1> QED
  BY <1>1, <1>2, <1>3, <1>4, <1>5 DEF SettlementInv

\* The steps of main keep the invariant.
LEMMA MainStepIInv == SettlementInv /\ MainStep => SettlementInv'
<1> SUFFICES ASSUME SettlementInv, MainStep PROVE SettlementInv'
  OBVIOUS
<1> USE DEF SettlementInv, Ranges, JobsInv, AnswersInv, ChainInv, ThreadsInv,
            MainInv, SpendsOnlyLockedPrice, Before, After, Locked, Jobs,
            Txs, Threads, inputs, pcs, process, network, results
<1>1. CASE MakePayment
  BY <1>1 DEF MainStep, MakePayment, Call
<1>2. CASE PaymentAnswered
  <2>1. Ranges'
    <3>1. threw' \in BOOLEAN
      BY <1>2 DEF MainStep, PaymentAnswered, Answered, Returned, Throw, Idle
    <3>2. rpc' \in [Threads -> [op : Jobs, tx : Txs]]
      BY <1>2 DEF MainStep, PaymentAnswered, Answered, Returned, Throw, Idle
    <3> QED
      BY <1>2, <3>1, <3>2 DEF MainStep, PaymentAnswered, Answered,
         Returned, Throw, Idle
  <2>2. JobsInv'
    BY <1>2 DEF MainStep, PaymentAnswered, Answered, Returned, Throw, Idle
  <2>3. AnswersInv'
    BY <1>2 DEF MainStep, PaymentAnswered, Answered, Returned, Throw, Idle
  <2>4. ChainInv'
    BY <1>2 DEF MainStep, PaymentAnswered, Answered, Returned, Throw, Idle
  <2>5. ThreadsInv'
    BY <1>2 DEF MainStep, PaymentAnswered, Answered, Returned, Throw, Idle
  <2>6. MainInv'
    BY <1>2 DEF MainStep, PaymentAnswered, Answered, Returned, Throw, Idle
  <2> QED
    BY <2>1, <2>2, <2>3, <2>4, <2>5, <2>6
<1>3. CASE AcceptT1
  BY <1>3 DEF MainStep, AcceptT1, Call
<1>4. CASE T1Answered
  <2>1. Ranges'
    <3>1. threw' \in BOOLEAN
      BY <1>4 DEF MainStep, T1Answered, Answered, Returned, Throw, Idle
    <3>2. rpc' \in [Threads -> [op : Jobs, tx : Txs]]
      BY <1>4 DEF MainStep, T1Answered, Answered, Returned, Throw, Idle
    <3> QED
      BY <1>4, <3>1, <3>2 DEF MainStep, T1Answered, Answered, Returned,
         Throw, Idle
  <2>2. JobsInv'
    BY <1>4 DEF MainStep, T1Answered, Answered, Returned, Throw, Idle
  <2>3. AnswersInv'
    BY <1>4 DEF MainStep, T1Answered, Answered, Returned, Throw, Idle
  <2>4. ChainInv'
    BY <1>4 DEF MainStep, T1Answered, Answered, Returned, Throw, Idle
  <2>5. ThreadsInv'
    BY <1>4 DEF MainStep, T1Answered, Answered, Returned, Throw, Idle
  <2>6. MainInv'
    BY <1>4 DEF MainStep, T1Answered, Answered, Returned, Throw, Idle
  <2> QED
    BY <2>1, <2>2, <2>3, <2>4, <2>5, <2>6
<1>5. CASE AcceptPayment
  BY <1>5 DEF MainStep, AcceptPayment, Call
<1>6. CASE SaleAnswered
  <2>1. Ranges'
    <3>1. threw' \in BOOLEAN
      BY <1>6 DEF MainStep, SaleAnswered, Answered, Returned, Throw, Idle
    <3>2. rpc' \in [Threads -> [op : Jobs, tx : Txs]]
      BY <1>6 DEF MainStep, SaleAnswered, Answered, Returned, Throw, Idle
    <3> QED
      BY <1>6, <3>1, <3>2 DEF MainStep, SaleAnswered, Answered, Returned,
         Throw, Idle
  <2>2. JobsInv'
    BY <1>6 DEF MainStep, SaleAnswered, Answered, Returned, Throw, Idle
  <2>3. AnswersInv'
    BY <1>6 DEF MainStep, SaleAnswered, Answered, Returned, Throw, Idle
  <2>4. ChainInv'
    BY <1>6 DEF MainStep, SaleAnswered, Answered, Returned, Throw, Idle
  <2>5. ThreadsInv'
    BY <1>6 DEF MainStep, SaleAnswered, Answered, Returned, Throw, Idle
  <2>6. MainInv'
    BY <1>6 DEF MainStep, SaleAnswered, Answered, Returned, Throw, Idle
  <2> QED
    BY <2>1, <2>2, <2>3, <2>4, <2>5, <2>6
<1>7. CASE StartThreads
  BY <1>7 DEF MainStep, StartThreads
<1>8. CASE PollLoopEnds
  BY <1>8 DEF MainStep, PollLoopEnds
<1>9. CASE ChooseThread
  BY <1>9 DEF MainStep, ChooseThread
<1>10. CASE Join
  BY <1>10 DEF MainStep, Join
<1>11. CASE LeaveMain
  BY <1>11 DEF MainStep, LeaveMain
<1>12. CASE T1Verified
  <2>1. Ranges'
    <3>1. threw' \in BOOLEAN
      BY <1>12 DEF MainStep, T1Verified, Answered, Returned,
         Call, Idle, Throw
    <3>2. rpc' \in [Threads -> [op : Jobs, tx : Txs]]
      BY <1>12 DEF MainStep, T1Verified, Answered, Returned,
         Call, Idle, Throw
    <3> QED
      BY <1>12, <3>1, <3>2 DEF MainStep, T1Verified, Answered, Returned,
         Call, Idle, Throw
  <2>2. JobsInv'
    BY <1>12 DEF MainStep, T1Verified, Answered, Returned,
         Call, Idle, Throw
  <2>3. AnswersInv'
    BY <1>12 DEF MainStep, T1Verified, Answered, Returned,
         Call, Idle, Throw
  <2>4. ChainInv'
    BY <1>12 DEF MainStep, T1Verified, Answered, Returned,
         Call, Idle, Throw
  <2>5. ThreadsInv'
    BY <1>12 DEF MainStep, T1Verified, Answered, Returned,
         Call, Idle, Throw
  <2>6. MainInv'
    BY <1>12 DEF MainStep, T1Verified, Answered, Returned,
         Call, Idle, Throw
  <2> QED
    BY <2>1, <2>2, <2>3, <2>4, <2>5, <2>6
<1> QED
  BY <1>1, <1>2, <1>3, <1>4, <1>5, <1>6, <1>7, <1>8, <1>9, <1>10, <1>11,
     <1>12 DEF MainStep

\* The steps of the thread solve_time_lock keep the invariant.
LEMMA LockStepIInv == SettlementInv /\ LockStep => SettlementInv'
<1> SUFFICES ASSUME SettlementInv, LockStep PROVE SettlementInv'
  OBVIOUS
<1> USE DEF SettlementInv, Ranges, JobsInv, AnswersInv, ChainInv, ThreadsInv,
            MainInv, SpendsOnlyLockedPrice, Before, After, Locked, Jobs,
            Txs, Threads, inputs, pcs, process, network, results
<1>1. CASE ForceOpen
  BY <1>1 DEF LockStep, ForceOpen, Call
<1>2. CASE RedeemAnswered
  BY <1>2 DEF LockStep, RedeemAnswered, Answered, Returned, Idle
<1>3. CASE LockFinish
  BY <1>3 DEF LockStep, LockFinish
<1> QED
  BY <1>1, <1>2, <1>3 DEF LockStep

\* The steps of the thread get_signature keep the invariant.
LEMMA SigStepIInv == SettlementInv /\ SigStep => SettlementInv'
<1> SUFFICES ASSUME SettlementInv, SigStep PROVE SettlementInv'
  OBVIOUS
<1> USE DEF SettlementInv, Ranges, JobsInv, AnswersInv, ChainInv, ThreadsInv,
            MainInv, SpendsOnlyLockedPrice, Before, After, Locked, Jobs,
            Txs, Threads, inputs, pcs, process, network, results
<1>1. CASE GetSignature
  BY <1>1 DEF SigStep, GetSignature, Call
<1>2. CASE SignatureAnswered
  BY <1>2 DEF SigStep, SignatureAnswered, Answered, Returned, Idle, Terminate
<1>3. CASE Factorise
  <2>1. Ranges'
    BY <1>3 DEF SigStep, Factorise, Terminate
  <2>2. JobsInv'
    BY <1>3 DEF SigStep, Factorise, Terminate
  <2>3. AnswersInv'
    BY <1>3 DEF SigStep, Factorise, Terminate
  <2>4. ChainInv'
    BY <1>3 DEF SigStep, Factorise, Terminate
  <2>5. ThreadsInv'
    BY <1>3 DEF SigStep, Factorise, Terminate
  <2>6. MainInv'
    BY <1>3 DEF SigStep, Factorise, Terminate
  <2> QED
    BY <2>1, <2>2, <2>3, <2>4, <2>5, <2>6
<1>4. CASE SigFinish
  BY <1>4 DEF SigStep, SigFinish
<1>5. CASE T2Answered
  <2> USE DEF T2Answered, Answered, Returned, Call, Idle, Terminate
  <2>1. Ranges'
    BY <1>5 DEF SigStep
  <2>2. JobsInv'
    BY <1>5 DEF SigStep
  <2>3. AnswersInv'
    BY <1>5 DEF SigStep
  <2>4. ChainInv'
    BY <1>5 DEF SigStep
  <2>5. ThreadsInv'
    BY <1>5 DEF SigStep
  <2>6. MainInv'
    BY <1>5 DEF SigStep
  <2> QED
    BY <2>1, <2>2, <2>3, <2>4, <2>5, <2>6
<1> QED
  BY <1>1, <1>2, <1>3, <1>4, <1>5 DEF SigStep

\* A job's step keeps the invariant: an answer TRUE is given only for a
\* transaction in a block, and a rival of one in a block is not spread.
LEMMA ServerStepIInv ==
  ASSUME NEW t \in Threads, SettlementInv, ServerStep(t)
  PROVE  SettlementInv'
<1> USE DEF SettlementInv, Ranges, JobsInv, AnswersInv, ChainInv, ThreadsInv,
            MainInv, SpendsOnlyLockedPrice, Before, After, Locked, Jobs,
            Txs, Threads, inputs, pcs, process, network, results,
            Call
<1>1. CASE BroadcastWorks(t)
  <2>1. Ranges'
    <3>1. /\ tx' \in [Txs -> {"none", "pending", "confirmed"}]
          /\ wallet' \subseteq Txs
          /\ watched' \subseteq Txs
      <4>1. rpc[t].tx \in Txs
        OBVIOUS
      <4>2. Spread(rpc[t].tx)
        BY <1>1 DEF BroadcastWorks
      <4> QED
        BY <4>1, <4>2 DEF Spread
    <3>2. rpc' \in [Threads -> [op : Jobs, tx : Txs]]
      BY <1>1 DEF BroadcastWorks, AfterBroadcast
    <3> QED
      BY <1>1, <3>1, <3>2 DEF BroadcastWorks
  <2>2. JobsInv'
    BY <1>1 DEF BroadcastWorks, AfterBroadcast, Spread, Spendable,
                Rivals
  <2>3. AnswersInv'
    BY <1>1 DEF BroadcastWorks, AfterBroadcast, Spread, Spendable,
                Rivals
  <2>4. ChainInv'
    BY <1>1 DEF BroadcastWorks, AfterBroadcast, Spread, Spendable,
                Rivals
  <2>5. ThreadsInv'
    BY <1>1 DEF BroadcastWorks, AfterBroadcast, Spread, Spendable,
                Rivals
  <2>6. MainInv'
    BY <1>1 DEF BroadcastWorks, AfterBroadcast, Spread, Spendable,
                Rivals
  <2> QED
    BY <2>1, <2>2, <2>3, <2>4, <2>5, <2>6
<1>2. CASE BroadcastFails(t)
  <2>1. Ranges'
    <3>1. /\ tx' \in [Txs -> {"none", "pending", "confirmed"}]
          /\ wallet' \subseteq Txs
          /\ watched' \subseteq Txs
      <4>1. CASE UNCHANGED network
        BY <4>1
      <4>2. CASE Spread(rpc[t].tx)
        BY <4>2 DEF Spread
      <4> QED
        BY <1>2, <4>1, <4>2 DEF BroadcastFails
    <3>2. rpc' \in [Threads -> [op : Jobs, tx : Txs]]
      BY <1>2 DEF BroadcastFails
    <3> QED
      BY <1>2, <3>1, <3>2 DEF BroadcastFails
  <2>2. JobsInv'
    BY <1>2 DEF BroadcastFails, Spread, Spendable, Rivals
  <2>3. AnswersInv'
    BY <1>2 DEF BroadcastFails, Spread, Spendable, Rivals
  <2>4. ChainInv'
    BY <1>2 DEF BroadcastFails, Spread, Spendable, Rivals
  <2>5. ThreadsInv'
    BY <1>2 DEF BroadcastFails, Spread, Spendable, Rivals
  <2>6. MainInv'
    BY <1>2 DEF BroadcastFails, Spread, Spendable, Rivals
  <2> QED
    BY <2>1, <2>2, <2>3, <2>4, <2>5, <2>6
<1>3. CASE AddWatch(t)
  <2>1. Ranges'
    <3>1. rpc' \in [Threads -> [op : Jobs, tx : Txs]]
      BY <1>3 DEF AddWatch
    <3>2. watched' \subseteq Txs
      BY <1>3 DEF AddWatch
    <3> QED
      BY <1>3, <3>1, <3>2 DEF AddWatch
  <2>2. JobsInv'
    BY <1>3 DEF AddWatch
  <2>3. AnswersInv'
    BY <1>3 DEF AddWatch
  <2>4. ChainInv'
    BY <1>3 DEF AddWatch
  <2>5. ThreadsInv'
    BY <1>3 DEF AddWatch
  <2>6. MainInv'
    BY <1>3 DEF AddWatch
  <2> QED
    BY <2>1, <2>2, <2>3, <2>4, <2>5, <2>6
<1>4. CASE Found(t)
  BY <1>4 DEF Found
<1>5. CASE SearchFails(t)
  BY <1>5 DEF SearchFails
<1>6. CASE HelperWorks(t)
  BY <1>6 DEF HelperWorks, Deep
<1>7. CASE HelperFails(t)
  BY <1>7 DEF HelperFails
<1>8. CASE VerifyTransaction(t)
  BY <1>8 DEF VerifyTransaction
<1>9. CASE ReadSignature(t)
  BY <1>9 DEF ReadSignature
<1> QED
  BY <1>1, <1>2, <1>3, <1>4, <1>5, <1>6, <1>7, <1>8, <1>9, ServerStep(t)
     DEF ServerStep

\* Losing a call ends the process only; a block confirms one spend of T1.
LEMMA OtherStepIInv ==
  /\ SettlementInv
  /\ \/ RpcLost
     \/ \E x \in Txs : Hear(x) \/ Confirm(x)
     \/ UNCHANGED vars
  => SettlementInv'
<1> USE DEF SettlementInv, Ranges, JobsInv, AnswersInv, ChainInv, ThreadsInv,
            MainInv, SpendsOnlyLockedPrice, Before, After, Locked, Txs,
            inputs, pcs, process, network, results
<1>1. SettlementInv /\ RpcLost => SettlementInv'
  BY DEF RpcLost, Terminate
<1>2. ASSUME SettlementInv, NEW x \in Txs, Confirm(x) PROVE SettlementInv'
  BY <1>2 DEF Confirm, Spendable, Rivals
<1>3. ASSUME SettlementInv, NEW x \in Txs, Hear(x) PROVE SettlementInv'
  BY <1>3 DEF Hear
<1>4. SettlementInv /\ UNCHANGED vars => SettlementInv'
  BY DEF vars
<1> QED
  BY <1>1, <1>2, <1>3, <1>4

\* Every step keeps the invariant.
LEMMA SettlementNextInv == SettlementInv /\ [Next]_vars => SettlementInv'
<1>1. SettlementInv /\ Next => SettlementInv'
  BY MainStepIInv, LockStepIInv, SigStepIInv, ServerStepIInv, OtherStepIInv
     DEF Next
<1>2. SettlementInv /\ UNCHANGED vars => SettlementInv'
  BY OtherStepIInv
<1> QED
  BY <1>1, <1>2

\* The invariant of a settlement, whatever fails.
THEOREM SettlementInvariance == Spec => []SettlementInv
BY SettlementInitInv, SettlementNextInv, PTL DEF Spec

-----------------------------------------------------------------------------

\* Every variable keeps its type, for every set of prices and faults.
THEOREM SettlementTypeCorrect == Spec => []TypeOK
<1>1. SettlementInv => TypeOK
  BY DEF SettlementInv, Ranges, JobsInv, TypeOK, Calls, Threads
<1> QED
  BY SettlementInvariance, <1>1, PTL

\* get_signature and solve_time_lock never both win: T2 and R spend T1.
THEOREM WinnersExclude == Spec => []OneWinner
<1>1. SettlementInv => OneWinner
  BY DEF SettlementInv, ChainInv, ThreadsInv, OneWinner
<1> QED
  BY SettlementInvariance, <1>1, PTL

\* The signature is published, and the refund spread, after T1 is locked.
THEOREM SpendsFollowLock == Spec => []SpendsOnlyLockedPrice
BY SettlementInvariance, PTL DEF SettlementInv, ChainInv

\* exec returns without an exception only from a settled sale.
THEOREM ReturnsSettled == Spec => []NormalReturnIsSettled
<1>1. SettlementInv => NormalReturnIsSettled
  BY DEF SettlementInv, ChainInv, ThreadsInv, MainInv, After,
         NormalReturnIsSettled
<1> QED
  BY SettlementInvariance, <1>1, PTL

\* The detached thread never writes what main reads, nor its own flag, whose
\* stack frame is gone.
THEOREM DetachedThreadsHarmless == Spec => DetachedThreadsWriteNothing
<1>1. SettlementInv /\ [Next]_vars /\ main \in After
        => UNCHANGED results
  <2> SUFFICES ASSUME SettlementInv, [Next]_vars, main \in After
               PROVE  UNCHANGED results
    OBVIOUS
  <2> USE DEF SettlementInv, ChainInv, ThreadsInv, MainInv, After, results
  <2>1. lock # "finish" /\ sig \notin {"factorise", "finish"}
    OBVIOUS
  <2>2. CASE MainStep
    BY <2>2 DEF MainStep, MakePayment, PaymentAnswered, AcceptT1,
                T1Verified, T1Answered, AcceptPayment, SaleAnswered,
                StartThreads, PollLoopEnds, ChooseThread, Join, LeaveMain
  <2>3. CASE LockStep
    BY <2>1, <2>3 DEF LockStep, ForceOpen, RedeemAnswered, LockFinish
  <2>4. CASE SigStep
    BY <2>1, <2>4 DEF SigStep, GetSignature, T2Answered, SignatureAnswered,
                      Factorise, SigFinish
  <2>5. CASE RpcLost
    BY <2>5 DEF RpcLost
  <2>6. ASSUME NEW t \in Threads, ServerStep(t) PROVE UNCHANGED results
    BY <2>6 DEF ServerStep, BroadcastWorks, BroadcastFails, AddWatch,
                Found, SearchFails, HelperWorks, HelperFails,
         VerifyTransaction, ReadSignature
  <2>7. ASSUME NEW x \in Txs, Hear(x) \/ Confirm(x)
        PROVE  UNCHANGED results
    BY <2>7 DEF Hear, Confirm
  <2>8. CASE UNCHANGED vars
    BY <2>8 DEF vars
  <2> QED
    BY <2>2, <2>3, <2>4, <2>5, <2>6, <2>7, <2>8 DEF Next
<1>2. SettlementInv /\ [Next]_vars
        => [(main \in {"print", "return", "destroyed"})
              => UNCHANGED results]_vars
  BY <1>1 DEF After
<1> QED
  BY SettlementInvariance, <1>2, PTL DEF Spec, DetachedThreadsWriteNothing

-----------------------------------------------------------------------------
(* Why a settlement ends early: an answer FALSE has one of the causes that *)
(* GivenUpForCause names (ReasonsInv), and only such an answer, a lost     *)
(* call or worthless roots end it.                                         *)

\* What may make main throw, and end the process.
ThrowCause == \/ price # T1Value
              \/ faults \intersect {"broadcast", "slow", "lateWatch"} # {}
AbortCause == \/ faults \intersect {"rpc", "slow", "search", "factorise"} # {}
              \/ tx["R"] = "confirmed"

\* Main asks about a T1 that was broadcast, whose confirmation its wallet has
\* seen; R is asked for by the lock's thread only; the sig thread waits for a
\* T2 its wallet has.
ReasonsInv ==
    /\ \/ main \in {"accept_T1", "verifying_T1", "waiting_T1"}
       \/ main = "paying" /\ rpc["main"].op = "true"
       => tx["T1"] # "none"
    /\ tx["T1"] = "confirmed" => \/ "T1" \in wallet
                                \/ "lateWatch" \in faults
                                \/ proc # "running"
    /\ lock = "unborn" => tx["R"] = "none"
    /\ "T2" \in wallet => tx["T2"] # "none"
    /\ rpc["sig"].op = "wait" => "T2" \in wallet
    /\ rpc["main"].op = "false" /\ proc = "running" => ThrowCause
    /\ rpc["sig"].op = "false" => AbortCause
    /\ threw => ThrowCause
    /\ proc = "aborted" => AbortCause

\* The steps of the C++ threads, and the loss of a call.
LEMMA ThreadStepReasons ==
  ASSUME SettlementInv, ReasonsInv, MainStep \/ LockStep \/ SigStep \/ RpcLost
  PROVE  ReasonsInv'
<1> USE DEF SettlementInv, Ranges, JobsInv, MainInv, ReasonsInv, ThrowCause,
            AbortCause, Threads, inputs, pcs, process, network, results
<1>1. CASE MainStep
  <2> USE <1>1 DEF MainStep, Answered, Returned, Call, Throw, Idle
  <2>1. CASE MakePayment
    BY <2>1 DEF MakePayment
  <2>2. CASE PaymentAnswered
    BY <2>2 DEF PaymentAnswered
  <2>3. CASE AcceptT1
    BY <2>3 DEF AcceptT1
  <2>4. CASE T1Verified
    BY <2>4 DEF T1Verified
  <2>5. CASE T1Answered
    BY <2>5 DEF T1Answered
  <2>6. CASE AcceptPayment
    BY <2>6 DEF AcceptPayment
  <2>7. CASE SaleAnswered
    BY <2>7 DEF SaleAnswered
  <2>8. CASE StartThreads \/ PollLoopEnds \/ ChooseThread \/ Join \/ LeaveMain
    BY <2>8 DEF StartThreads, PollLoopEnds, ChooseThread, Join, LeaveMain
  <2> QED
    BY <2>1, <2>2, <2>3, <2>4, <2>5, <2>6, <2>7, <2>8
<1>2. CASE LockStep
  <2> USE <1>2 DEF LockStep, Answered, Returned, Call, Idle
  <2>1. CASE ForceOpen
    BY <2>1 DEF ForceOpen
  <2>2. CASE RedeemAnswered
    BY <2>2 DEF RedeemAnswered
  <2>3. CASE LockFinish
    BY <2>3 DEF LockFinish
  <2> QED
    BY <2>1, <2>2, <2>3
<1>3. CASE SigStep
  <2> USE <1>3 DEF SigStep, Answered, Returned, Call, Idle, Terminate
  <2>1. CASE GetSignature
    BY <2>1 DEF GetSignature
  <2>2. CASE T2Answered
    BY <2>2 DEF T2Answered
  <2>3. CASE SignatureAnswered
    BY <2>3 DEF SignatureAnswered
  <2>4. CASE Factorise
    BY <2>4 DEF Factorise
  <2>5. CASE SigFinish
    BY <2>5 DEF SigFinish
  <2> QED
    BY <2>1, <2>2, <2>3, <2>4, <2>5
<1>4. CASE RpcLost
  BY <1>4 DEF RpcLost, Terminate
<1> QED
  BY <1>1, <1>2, <1>3, <1>4

\* The steps of the jobs: the only place where an answer FALSE is given.
LEMMA ServerStepReasons ==
  ASSUME SettlementInv, ReasonsInv, NEW t \in Threads, ServerStep(t)
  PROVE  ReasonsInv'
<1> USE DEF SettlementInv, Ranges, JobsInv, ChainInv, ThreadsInv, MainInv,
            SpendsOnlyLockedPrice, Before, Locked, ReasonsInv, ThrowCause,
            AbortCause, Threads, Txs, Call, inputs, pcs, process, network,
            results
<1>1. CASE BroadcastWorks(t)
  BY <1>1 DEF BroadcastWorks, AfterBroadcast, Spread, Spendable, Rivals
<1>2. CASE BroadcastFails(t)
  BY <1>2 DEF BroadcastFails, Spread, Spendable, Rivals
<1>3. CASE VerifyTransaction(t)
  BY <1>3 DEF VerifyTransaction, VerifyT1
<1>4. CASE AddWatch(t)
  BY <1>4 DEF AddWatch
<1>5. CASE Found(t)
  BY <1>5 DEF Found
<1>6. CASE SearchFails(t)
  BY <1>6 DEF SearchFails
<1>7. CASE ReadSignature(t)
  BY <1>7 DEF ReadSignature
<1>8. CASE HelperWorks(t)
  BY <1>8 DEF HelperWorks
<1>9. CASE HelperFails(t)
  BY <1>9 DEF HelperFails, Deep, Spendable, Rivals
<1> QED
  BY <1>1, <1>2, <1>3, <1>4, <1>5, <1>6, <1>7, <1>8, <1>9, ServerStep(t)
     DEF ServerStep

\* The steps of the network.
LEMMA NetworkStepReasons ==
  ASSUME SettlementInv, ReasonsInv, NEW x \in Txs, Hear(x) \/ Confirm(x)
  PROVE  ReasonsInv'
<1> USE DEF SettlementInv, Ranges, ReasonsInv, ThrowCause, AbortCause, Txs,
            inputs, pcs, process, network, results
<1>1. CASE Hear(x)
  BY <1>1 DEF Hear
<1>2. CASE Confirm(x)
  BY <1>2 DEF Confirm, InTime
<1> QED
  BY <1>1, <1>2

\* A settlement is given up, with T1 on its way, only for a cause outside, a
\* price T1 was not built for, or when T1 has been redeemed.
THEOREM EndsForCause == Spec => []GivenUpForCause
<1>1. Init => ReasonsInv
  BY DEF Init, Idle, Txs, Threads, ReasonsInv
<1>2. SettlementInv /\ ReasonsInv /\ [Next]_vars => ReasonsInv'
  <2>1. UNCHANGED vars /\ ReasonsInv => ReasonsInv'
    BY DEF vars, inputs, pcs, process, network, results, ReasonsInv,
           ThrowCause, AbortCause
  <2> QED
    BY <2>1, ThreadStepReasons, ServerStepReasons, NetworkStepReasons DEF Next
<1>3. ReasonsInv => GivenUpForCause
  BY DEF ReasonsInv, ThrowCause, AbortCause, GivenUpForCause
<1> QED
  BY SettlementInvariance, <1>1, <1>2, <1>3, PTL DEF Spec

-----------------------------------------------------------------------------

\* A block moves the price as FairExchange says.
LEMMA ConfirmMovesMoney ==
  ASSUME SettlementInv, NEW x \in Txs, Confirm(x)
  PROVE  FE!Next
<1> USE DEF SettlementInv, Ranges, ChainInv, SpendsOnlyLockedPrice, Txs,
            Confirm, Spendable, Rivals, Money, results
<1>1. info' = info
  OBVIOUS
<1>2. CASE x = "T1"
  <2>1. tx["T2"] = "none" /\ tx["R"] = "none" /\ tx["T1"] = "pending"
    BY <1>2
  <2>2. tx'["T2"] = "none" /\ tx'["R"] = "none" /\ tx'["T1"] = "confirmed"
    BY <1>2, <2>1
  <2> QED
    BY <1>1, <2>1, <2>2 DEF FE!Next, FE!Lock
<1>3. CASE x = "T2"
  <2>1. tx["T2"] = "pending" /\ tx["R"] # "confirmed" /\ tx["T1"] = "confirmed"
    BY <1>3
  <2>2. tx'["T2"] = "confirmed"
    BY <1>3
  <2>3. Money = "locked" /\ Money' = "seller"
    BY <2>1, <2>2
  <2> QED
    BY <1>1, <2>3 DEF FE!Next, FE!Pay
<1>4. CASE x = "R"
  <2>1. tx["R"] = "pending" /\ tx["T2"] # "confirmed" /\ tx["T1"] = "confirmed"
    BY <1>4
  <2>2. tx'["R"] = "confirmed" /\ tx'["T2"] # "confirmed"
    BY <1>4, <2>1
  <2>3. Money = "locked" /\ Money' = "refunded"
    BY <2>1, <2>2
  <2> QED
    BY <1>1, <2>3 DEF FE!Next, FE!Refund
<1> QED
  BY <1>2, <1>3, <1>4

\* The C++ threads move no money; factorise is the step that delivers.
LEMMA ThreadStepDelivers ==
  ASSUME SettlementInv, MainStep \/ LockStep \/ SigStep
  PROVE  FE!Next \/ UNCHANGED FE!vars
<1> USE DEF SettlementInv, ChainInv, ThreadsInv, network, results
<1>0. tx' = tx /\ info' = info => UNCHANGED FE!vars
  BY DEF Money, FE!vars
<1>1. MainStep => tx' = tx /\ info' = info
  BY DEF MainStep, MakePayment, PaymentAnswered, AcceptT1, T1Verified,
         T1Answered, AcceptPayment, SaleAnswered, StartThreads, PollLoopEnds,
         ChooseThread, Join, LeaveMain
<1>2. LockStep => tx' = tx /\ info' = info
  BY DEF LockStep, ForceOpen, RedeemAnswered, LockFinish
<1>3. SigStep /\ ~Factorise => tx' = tx /\ info' = info
  BY DEF SigStep, GetSignature, T2Answered, SignatureAnswered, SigFinish
<1>4. CASE SigStep /\ Factorise
  <2> USE DEF Money
  <2>1. tx' = tx
    BY <1>4 DEF Factorise
  <2>2. Money = "seller" /\ Money' = "seller"
    BY <1>4, <2>1 DEF Factorise
  <2>3. ~info
    BY <1>4 DEF Factorise
  <2>4. CASE info' = TRUE
    BY <2>2, <2>3, <2>4 DEF FE!Next, FE!Learn
  <2>5. CASE info' = info
    BY <1>0, <2>1, <2>5
  <2> QED
    BY <1>4, <2>4, <2>5 DEF Factorise
<1> QED
  BY <1>0, <1>1, <1>2, <1>3, <1>4

\* A job spreads transactions and confirms none.
LEMMA ServerStepMovesNothing ==
  ASSUME SettlementInv, NEW t \in Threads, ServerStep(t)
  PROVE  UNCHANGED FE!vars
<1>1. info' = info
  BY DEF ServerStep, BroadcastWorks, BroadcastFails, AddWatch, Found,
         SearchFails, HelperWorks, HelperFails,
         VerifyTransaction, ReadSignature, results
<1>2. \A x \in Txs : tx'[x] = "confirmed" <=> tx[x] = "confirmed"
  BY DEF SettlementInv, Ranges, ServerStep, BroadcastWorks,
         BroadcastFails, Spread, AddWatch, Found, SearchFails,
         HelperWorks, HelperFails,
         VerifyTransaction, ReadSignature, network
<1>3. Money' = Money
  BY <1>2 DEF Money, Txs
<1> QED
  BY <1>1, <1>3 DEF FE!vars

\* Every step of the settlement is one of the fair exchange, or none.
LEMMA StepMovesPrice ==
  SettlementInv /\ [Next]_vars => [FE!Next]_(FE!vars)
<1> SUFFICES ASSUME SettlementInv, [Next]_vars
             PROVE  FE!Next \/ UNCHANGED FE!vars
  OBVIOUS
<1>1. CASE RpcLost
  BY <1>1 DEF RpcLost, network, results, Money, FE!vars
<1>2. CASE UNCHANGED vars
  BY <1>2 DEF vars, network, results, Money, FE!vars
<1>3. ASSUME NEW x \in Txs, Hear(x) PROVE UNCHANGED FE!vars
  BY <1>3 DEF Hear, results, Money, FE!vars
<1> QED
  BY <1>1, <1>2, <1>3, ConfirmMovesMoney, ThreadStepDelivers,
     ServerStepMovesNothing DEF Next

\* The settlement implements the fair exchange (its safety part), whatever
\* fails: the price leaves T1 once, and p and q come from a paid sale only.
THEOREM SettlementImplementsFairExchange == Spec => FairExchangeSafe
<1>1. Init => FE!Init
  BY DEF Init, Txs, Money, FE!Init
<1> QED
  BY SettlementInvariance, StepMovesPrice, <1>1, PTL DEF Spec,
     FairExchangeSafe, FE!Spec

-----------------------------------------------------------------------------
(* The whole sale.                                                         *)
(*                                                                         *)
(* The invariants of both parts hold in the composition, because the one   *)
(* moves only before an instance is adopted and the other only when exec   *)
(* has failed or come to make_payment (QuietInv). What is adopted is the   *)
(* verifier's choice (AdoptedInv), which the cut and choose never opens.   *)

\* Both parties go on with the verifier's choice, when the game is over, and
\* exchange roots after that.
AdoptedInv ==
    /\ roots \in {"none", "committed", "opened"}
    /\ sellerRun # -1 => game = "adopted" /\ sellerRun = r /\ buyerRun = r
    /\ roots # "none" => sellerRun # -1

\* Until the roots have been exchanged no transaction is on its way, no job
\* runs and no thread but main's exists; main may have been thrown out.
QuietInv ==
    roots # "opened" =>
        /\ \A x \in Txs : tx[x] = "none"
        /\ \A t \in Threads : rpc[t].op = "idle"
        /\ lock = "unborn" /\ sig = "unborn" /\ ~info
        /\ main = "make_payment" \/ (threw /\ main \in After)

IInv == GameInv /\ SettlementInv /\ AdoptedInv /\ QuietInv

-----------------------------------------------------------------------------

\* A sale begins with nothing chosen, adopted or spread.
LEMMA InitIInv == SaleInit => IInv
<1> SUFFICES ASSUME SaleInit PROVE IInv
  OBVIOUS
<1>1. GameInv
  <2>1. GameInit
    BY DEF SaleInit, GameInit, Runs
  <2> QED
    BY <2>1, GameInitInv
<1>2. SettlementInv
  <2>1. Init
    BY DEF SaleInit, Init, Idle, Txs, Threads
  <2> QED
    BY <2>1, SettlementInitInv
<1>3. AdoptedInv
  BY DEF SaleInit, AdoptedInv
<1>4. QuietInv
  BY DEF SaleInit, Init, QuietInv, Txs, Threads, Idle
<1> QED
  BY <1>1, <1>2, <1>3, <1>4 DEF IInv

\* A step of the game, and any step outside it, keeps the game's invariant.
LEMMA GameKeeps == GameInv /\ (GameNext \/ UNCHANGED gameVars) => GameInv'
<1>1. GameInv /\ [GameNext]_gameVars => GameInv'
  BY GameNextInv
<1> QED
  BY <1>1 DEF gameVars

\* The same of the settlement.
LEMMA SettlementKeeps ==
  SettlementInv /\ (Next \/ UNCHANGED vars) => SettlementInv'
<1>1. SettlementInv /\ [Next]_vars => SettlementInv'
  BY SettlementNextInv
<1> QED
  BY <1>1

\* The game is over when an instance is adopted.
LEMMA AdoptedIsOver == GameNext => game # "adopted"
BY DEF GameNext, Exec, Cheat, Choose, Skip, OpenGood, OpenBad,
       Check

\* A step of the game: nothing is adopted before it or by it.
LEMMA PlayIInv == IInv /\ Play => IInv'
<1> SUFFICES ASSUME IInv, Play PROVE IInv'
  OBVIOUS
<1>1. GameInv' /\ SettlementInv'
  BY GameKeeps, SettlementKeeps DEF IInv, Play
<1>2. AdoptedInv'
  BY AdoptedIsOver DEF IInv, AdoptedInv, Play, runVars
<1>3. QuietInv'
  BY DEF IInv, QuietInv, Play, vars, pcs, process, network, results
<1> QED
  BY <1>1, <1>2, <1>3 DEF IInv

\* Both parties adopt the choice of a game that is over.
LEMMA AdoptIInv == IInv /\ Adopt => IInv'
<1> SUFFICES ASSUME IInv, Adopt PROVE IInv'
  OBVIOUS
<1>1. GameInv' /\ SettlementInv'
  BY GameKeeps, SettlementKeeps DEF IInv, Adopt
<1>2. AdoptedInv'
  BY DEF IInv, AdoptedInv, Adopt, gameVars
<1>3. QuietInv'
  BY DEF IInv, QuietInv, Adopt, vars, pcs, process, network, results
<1> QED
  BY <1>1, <1>2, <1>3 DEF IInv

\* The roots are exchanged with an instance adopted.
LEMMA ExchangeRootsIInv == IInv /\ ExchangeRoots => IInv'
<1> SUFFICES ASSUME IInv, ExchangeRoots PROVE IInv'
  OBVIOUS
<1>1. GameInv' /\ SettlementInv'
  BY GameKeeps, SettlementKeeps DEF IInv, ExchangeRoots
<1>2. AdoptedInv'
  BY DEF IInv, AdoptedInv, ExchangeRoots, gameVars, runVars
<1>3. QuietInv'
  BY DEF IInv, QuietInv, ExchangeRoots, vars, pcs, process, network, results
<1> QED
  BY <1>1, <1>2, <1>3 DEF IInv

\* An exception before the payment: main leaves exec, or the process ends.
LEMMA PreparationFailsIInv == IInv /\ PreparationFails => IInv'
<1> SUFFICES ASSUME IInv, PreparationFails PROVE IInv'
  OBVIOUS
<1> USE DEF PreparationFails, Preparing
<1>1. GameInv'
  BY GameKeeps DEF IInv
<1>2. SettlementInv'
  <2> USE DEF IInv, QuietInv, SettlementInv, After, Txs, Threads
  <2>1. Ranges'
    BY DEF Ranges
  <2>2. JobsInv' /\ AnswersInv'
    BY DEF JobsInv, AnswersInv
  <2>3. ChainInv'
    BY DEF ChainInv, SpendsOnlyLockedPrice, Locked
  <2>4. ThreadsInv' /\ MainInv'
    BY DEF Ranges, ThreadsInv, MainInv, Before
  <2> QED
    BY <2>1, <2>2, <2>3, <2>4
<1>3. AdoptedInv'
  BY DEF IInv, AdoptedInv, gameVars, runVars
<1>4. QuietInv'
  BY DEF IInv, QuietInv, After
<1> QED
  BY <1>1, <1>2, <1>3, <1>4 DEF IInv

\* Before the roots are opened nothing of the settlement moves but a main
\* that was thrown out of exec.
LEMMA QuietSettle ==
  ASSUME IInv, Next, ~Preparing, roots # "opened"
  PROVE  /\ LeaveMain /\ threw
         /\ main' \in After
         /\ UNCHANGED <<threw, tx, rpc, lock, sig, info>>
<1> USE DEF IInv, QuietInv, Txs, Threads
<1>1. ~LockStep /\ ~SigStep /\ ~RpcLost
  BY DEF LockStep, ForceOpen, RedeemAnswered, LockFinish,
         SigStep, GetSignature, T2Answered, SignatureAnswered, Factorise,
         SigFinish, RpcLost
<1>2. ASSUME NEW t \in Threads PROVE ~ServerStep(t)
  BY DEF ServerStep, BroadcastWorks, BroadcastFails, AddWatch,
         Found, SearchFails, HelperWorks, HelperFails,
         VerifyTransaction, ReadSignature
<1>3. ASSUME NEW x \in Txs PROVE ~Hear(x) /\ ~Confirm(x)
  BY DEF Hear, Confirm
<1>4. MainStep
  BY <1>1, <1>2, <1>3 DEF Next
<1>5. proc = "running" /\ threw /\ main \in After
  BY <1>4 DEF MainStep, Preparing
<1>6. LeaveMain
  BY <1>4, <1>5 DEF MainStep, MakePayment, PaymentAnswered,
         AcceptT1, T1Verified, T1Answered, AcceptPayment, SaleAnswered,
         StartThreads, PollLoopEnds, ChooseThread, Join, After
<1> QED
  BY <1>5, <1>6 DEF LeaveMain, After, network, results

\* A step of the settlement, or main on its way out after an exception.
LEMMA SettleIInv == IInv /\ Settle => IInv'
<1> SUFFICES ASSUME IInv, Settle PROVE IInv'
  OBVIOUS
<1>1. GameInv' /\ SettlementInv'
  BY GameKeeps, SettlementKeeps DEF IInv, Settle
<1>2. AdoptedInv'
  BY DEF IInv, AdoptedInv, Settle, gameVars, runVars
<1>3. QuietInv'
  BY QuietSettle DEF IInv, QuietInv, Settle
<1> QED
  BY <1>1, <1>2, <1>3 DEF IInv

\* Every step keeps the invariant.
LEMMA NextIInv == IInv /\ [SaleNext]_saleVars => IInv'
<1>1. IInv /\ UNCHANGED saleVars => IInv'
  <2> SUFFICES ASSUME IInv, UNCHANGED saleVars PROVE IInv'
    OBVIOUS
  <2>1. GameInv' /\ SettlementInv'
    BY GameKeeps, SettlementKeeps DEF IInv, saleVars
  <2>2. AdoptedInv' /\ QuietInv'
    BY DEF IInv, AdoptedInv, QuietInv, saleVars, gameVars, runVars, vars, pcs,
           process, network, results
  <2> QED
    BY <2>1, <2>2 DEF IInv
<1> QED
  BY <1>1, PlayIInv, AdoptIInv, ExchangeRootsIInv, PreparationFailsIInv,
     SettleIInv DEF SaleNext

\* The invariant of a whole sale, whatever fails.
THEOREM Invariance == SaleSpec => []IInv
BY InitIInv, NextIInv, PTL DEF SaleSpec

-----------------------------------------------------------------------------

\* The price goes to the sealed instance of a checked game.
THEOREM PaidIsSealed == SaleSpec => []PaidInstanceIsSealed
<1>1. IInv => PaidInstanceIsSealed
  <2> SUFFICES ASSUME IInv, tx["T1"] # "none"
               PROVE  /\ sellerRun = buyerRun
                      /\ run[buyerRun] = "executed"
                      /\ \A j \in Runs \ {buyerRun} :
                           run[j] = "opened" /\ verified[j] = "yes"
    BY DEF PaidInstanceIsSealed
  <2>1. game = "adopted" /\ sellerRun = r /\ buyerRun = r
    BY DEF IInv, QuietInv, AdoptedInv, Txs
  <2>2. run[r] = "executed" /\ res = "yes" /\ i = T
    BY <2>1 DEF IInv, GameInv, OpenInv, ResInv
  <2>3. \A j \in Runs \ {r} :
           j < i => run[j] = "opened" /\ verified[j] = "yes"
    BY <2>1, <2>2 DEF IInv, GameInv, OpenInv
  <2> QED
    BY <2>1, <2>2, <2>3, CutAndChooseAssumption DEF Runs
<1> QED
  BY Invariance, <1>1, PTL

\* Nothing but the factors tells the buyer the roots: the adopted instance
\* stays sealed, so what the buyer has learned is what it factorised.
LEMMA LearnedIsInfo == IInv => Learned = info
<1> SUFFICES ASSUME IInv PROVE Learned = info
  OBVIOUS
<1>1. roots # "none" => run[sellerRun] = "executed"
  BY DEF IInv, AdoptedInv, GameInv, OpenInv
<1>2. info \in BOOLEAN
  BY DEF IInv, SettlementInv, Ranges
<1> QED
  BY <1>1, <1>2 DEF Learned

\* The whole sale implements the fair exchange (its safety part), whatever
\* fails.
THEOREM ImplementsFairExchange == SaleSpec => SaleIsFair
<1>1. SaleInit => SaleFE!Init
  BY DEF SaleInit, Init, Txs, Money, Learned, SaleFE!Init
<1>2. ASSUME IInv, [SaleNext]_saleVars, Learned = info, (Learned = info)'
      PROVE  [SaleFE!Next]_(SaleFE!vars)
  <2>1. tx' = tx /\ info' = info => UNCHANGED SaleFE!vars
    BY <1>2 DEF SaleFE!vars, Money
  <2>2. CASE Play \/ Adopt \/ ExchangeRoots \/ PreparationFails
    BY <2>1, <2>2 DEF Play, Adopt, ExchangeRoots, PreparationFails, vars,
                      network, results
  <2>3. CASE Settle
    <3>1. [FE!Next]_(FE!vars)
      BY <1>2, <2>3, StepMovesPrice DEF Settle, IInv
    <3> QED
      BY <1>2, <3>1
         DEF Money, FE!Next, FE!vars, FE!Lock, FE!Pay, FE!Refund, FE!Learn,
             SaleFE!Next, SaleFE!vars, SaleFE!Lock, SaleFE!Pay,
             SaleFE!Refund, SaleFE!Learn
  <2>4. CASE UNCHANGED saleVars
    BY <2>1, <2>4 DEF saleVars, vars, network, results
  <2> QED
    BY <1>2, <2>2, <2>3, <2>4 DEF SaleNext
<1> QED
  BY Invariance, LearnedIsInfo, <1>1, <1>2, PTL DEF SaleSpec,
     SaleIsFair, SaleFE!Spec
=============================================================================
