---------------------------- MODULE CutAndChoose ----------------------------
(***************************************************************************)
(* cut_and_choose<P, A, B, T> and what SellInformationProtocol::exec does  *)
(* with its result. The prover runs protocol P T times; the verifier's     *)
(* choice, drawn by pickR before, is read after the last run; every other  *)
(* run is opened; the chosen one, never opened, is the one that is used.   *)
(***************************************************************************)
EXTENDS Integers

CONSTANT T  \* number of runs of P

ASSUME CutAndChooseAssumption == T \in Nat \ {0}

Runs == 0 .. T - 1

VARIABLES
    game,      \* "exec", "cheat", "choose", "open", "check", "adopted",
               \* "refused" or "threw"
    i,         \* the loop variable
    r,         \* verifier.i, the buyer's secret choice
    throws,    \* does P::open throw on a bad run (ShaCommitment), or record
               \* it in the receiver's open_verified (SharedSignature)
    falsified, \* the run the prover falsifies, -1 for none
    bad,       \* runs whose prover no longer holds what it ran P with
    run,       \* per run of P: "new", "executed" or "opened"
    verified,  \* the receivers' open_verified: "unset", "yes" or "no"
    chosen_i,  \* the local copy of the choice, -1 before getI
    res        \* verifier.res: "unset", "yes" or "no"

gameVars == <<game, i, r, throws, falsified, bad, run, verified, chosen_i,
              res>>

GameTypeOK ==
    /\ game \in {"exec", "cheat", "choose", "open", "check", "adopted",
               "refused", "threw"}
    /\ i \in 0 .. T
    /\ r \in Runs
    /\ throws \in BOOLEAN
    /\ falsified \in Runs \union {-1}
    /\ bad \subseteq Runs
    /\ run \in [Runs -> {"new", "executed", "opened"}]
    /\ verified \in [Runs -> {"unset", "yes", "no"}]
    /\ chosen_i \in Runs \union {-1}
    /\ res \in {"unset", "yes", "no"}

GameInit ==
    /\ game = "exec" /\ i = 0
    /\ r \in Runs
    /\ throws \in BOOLEAN
    /\ falsified \in Runs \union {-1}
    /\ bad = {}
    /\ run = [j \in Runs |-> "new"]
    /\ verified = [j \in Runs |-> "unset"]
    /\ chosen_i = -1
    /\ res = "unset"

\* Mutant: the loop runs once too often.
ExecTooFar ==
    /\ game = "exec"
    /\ run' = [run EXCEPT ![i % T] = "executed"]
    /\ i' = i + 1
    /\ game' = IF i' > T THEN "cheat" ELSE "exec"
    /\ UNCHANGED <<r, throws, falsified, bad, verified, chosen_i, res>>

\* protocol.init and protocol.exec of run i; after the last one, the cheating.
Exec ==
    /\ game = "exec"
    /\ run' = [run EXCEPT ![i] = "executed"]
    /\ i' = i + 1
    /\ game' = IF i' = T THEN "cheat" ELSE "exec"
    /\ UNCHANGED <<r, throws, falsified, bad, verified, chosen_i, res>>

\* p->v[cheat].cheat() spoils what that prover would reveal.
Cheat ==
    /\ game = "cheat"
    /\ bad' = IF falsified = -1 THEN bad ELSE bad \union {falsified}
    /\ game' = "choose"
    /\ UNCHANGED <<i, r, throws, falsified, run, verified, chosen_i, res>>

\* Mutant: the choice is not the verifier's.
ChooseFirst ==
    /\ game = "choose"
    /\ chosen_i' = 0
    /\ res' = "yes"
    /\ i' = 0
    /\ game' = "open"
    /\ UNCHANGED <<r, throws, falsified, bad, run, verified>>

Choose ==
    /\ game = "choose"
    /\ chosen_i' = r
    /\ res' = "yes"
    /\ i' = 0
    /\ game' = "open"
    /\ UNCHANGED <<r, throws, falsified, bad, run, verified>>

\* Mutant: the last run is not looked at.
NextRunTooFew == /\ i' = i + 1
                 /\ game' = IF i' >= T - 1 THEN "check" ELSE "open"

\* Where the loop goes on from run i.
NextRun == /\ i' = i + 1
           /\ game' = IF i' = T THEN "check" ELSE "open"

\* Mutant: the loop variable stays at the chosen run.
SkipStuck ==
    /\ game = "open"
    /\ i = chosen_i
    /\ UNCHANGED gameVars

Skip ==
    /\ game = "open"
    /\ i = chosen_i
    /\ NextRun
    /\ UNCHANGED <<r, throws, falsified, bad, run, verified, chosen_i, res>>

OpenGood ==
    /\ game = "open"
    /\ i # chosen_i /\ i \notin bad
    /\ run' = [run EXCEPT ![i] = "opened"]
    /\ verified' = [verified EXCEPT ![i] = "yes"]
    /\ NextRun
    /\ UNCHANGED <<r, throws, falsified, bad, chosen_i, res>>

\* A bad run: the exception leaves res as it was, the return sets it.
OpenBad ==
    /\ game = "open"
    /\ i # chosen_i /\ i \in bad
    /\ run' = [run EXCEPT ![i] = "opened"]
    /\ verified' = [verified EXCEPT ![i] = "no"]
    /\ IF throws THEN game' = "threw" /\ UNCHANGED res
                 ELSE game' = "check" /\ res' = "no"
    /\ UNCHANGED <<i, r, throws, falsified, bad, chosen_i>>

\* exec: if (!verifier.res) throw; else both parties take run verifier.i.
Check ==
    /\ game = "check"
    /\ game' = IF res = "yes" THEN "adopted" ELSE "refused"
    /\ UNCHANGED <<i, r, throws, falsified, bad, run, verified, chosen_i, res>>

GameNext ==
    Exec \/ Cheat \/ Choose \/ Skip \/ OpenGood \/ OpenBad \/ Check

GameSpec == GameInit /\ [][GameNext]_gameVars

\* One thread, which does not stop in the middle.
FairGame == GameSpec /\ WF_gameVars(GameNext)

-----------------------------------------------------------------------------

\* The run that will be used keeps its secrets, and nothing is revealed while
\* the prover can still adapt a run to what it has seen: runs are opened only
\* when all have been executed, and never the one both parties go on with.
SealedUntilCommitted ==
    \A j \in Runs : run[j] = "opened" =>
        /\ j # r
        /\ \A k \in Runs : run[k] # "new"

\* The verdict follows from the runs. What is adopted has been checked: every
\* other run was opened and verified, so that one falsified run escapes only
\* when it is the chosen one. And there is no false alarm: a refusal or an
\* exception is due to a bad run that was opened.
VerdictIsJustified ==
    /\ game = "adopted" =>
           /\ \A j \in Runs \ {r} : run[j] = "opened" /\ verified[j] = "yes"
           /\ bad \subseteq {r}
    /\ game \in {"refused", "threw"} =>
           \E j \in bad \ {r} : run[j] = "opened" /\ verified[j] = "no"

\* The game ends, and a prover that cheated outside the chosen run loses it.
CheaterLoses ==
    <>(IF falsified \in {-1, r} THEN game = "adopted"
                                 ELSE game \in {"refused", "threw"})
=============================================================================
