-------------------------------- MODULE Sale --------------------------------
(***************************************************************************)
(* A whole sale, SellInformationProtocol::exec as main calls it: the cut   *)
(* and choose over T instances (CutAndChoose), the adoption of one of them *)
(* by both parties, the exchange of the roots, and the settlement          *)
(* (Settlement). Here the parties follow the code: no run is falsified.    *)
(***************************************************************************)
EXTENDS CutAndChoose, Settlement

VARIABLES
    sellerRun,  \* the run of the cut and choose the seller goes on with, or -1
    buyerRun,   \* the same of the buyer
    roots       \* "none", "committed" or "opened" (a subset of them)

runVars == <<sellerRun, buyerRun>>
saleVars == <<gameVars, runVars, roots, vars>>

\* exec calls cut_and_choose without a run to falsify.
SaleInit ==
    /\ GameInit /\ throws = TRUE /\ falsified = -1
    /\ Init
    /\ sellerRun = -1 /\ buyerRun = -1
    /\ roots = "none"

\* exec has not come to make_payment, and has not failed.
Preparing == proc = "running" /\ main = "make_payment" /\ roots # "opened"

Play ==
    /\ Preparing
    /\ GameNext
    /\ UNCHANGED <<runVars, roots, vars>>

\* Mutant: the seller goes on with its first instance.
AdoptFirst ==
    /\ Preparing
    /\ game = "adopted" /\ sellerRun = -1
    /\ sellerRun' = 0 /\ buyerRun' = r
    /\ UNCHANGED <<gameVars, roots, vars>>

\* Mutant: the buyer goes on with the last instance that was opened to it.
AdoptOpened ==
    /\ Preparing
    /\ game = "adopted" /\ sellerRun = -1
    /\ sellerRun' = r /\ buyerRun' = i - 1
    /\ UNCHANGED <<gameVars, roots, vars>>

\* prover.v[verifier.i] and verifier.v[verifier.i].
Adopt ==
    /\ Preparing
    /\ game = "adopted" /\ sellerRun = -1
    /\ sellerRun' = r /\ buyerRun' = r
    /\ UNCHANGED <<gameVars, roots, vars>>

\* The roots, encrypted under the keys of the seller's instance, are committed
\* to; then a subset is opened with its keys, and one root of each other index
\* stays unknown to the buyer without the signature.
ExchangeRoots ==
    /\ Preparing
    /\ sellerRun # -1
    /\ roots' = IF roots = "none" THEN "committed" ELSE "opened"
    /\ UNCHANGED <<gameVars, runVars, vars>>

\* An exception before the payment: a ProtocolException is caught by main, any
\* other ends the process.
PreparationFails ==
    /\ Preparing
    /\ \/ main' = "print" /\ threw' = TRUE /\ UNCHANGED proc
       \/ proc' = "aborted" /\ UNCHANGED <<main, threw>>
    /\ UNCHANGED <<gameVars, runVars, roots, price, cheat, faults, lock, sig,
                   rpc, tx, watched, wallet, sigFlag, lockFlag, info>>

\* make_payment and what follows, or the end of main after an exception. T2 is
\* the seller's instance's and T1 the buyer's: only of one instance does the
\* one spend the other.
Settle ==
    /\ ~Preparing
    /\ Next
    /\ tx'["T2"] # "none" => sellerRun = buyerRun
    /\ UNCHANGED <<gameVars, runVars, roots>>

SaleNext == Play \/ Adopt \/ ExchangeRoots \/ PreparationFails \/ Settle

SaleSpec == SaleInit /\ [][SaleNext]_saleVars

\* The main thread goes on while it prepares; then see Settlement.
FairSale ==
    /\ SaleSpec
    /\ WF_saleVars(Play \/ Adopt \/ ExchangeRoots)
    /\ Fairness

-----------------------------------------------------------------------------

\* Does the buyer have what decrypts the roots: the factors, read with the
\* signature in the chain, or the signature of an opened instance.
Learned == info \/ (roots # "none" /\ run[sellerRun] = "opened")

SaleFE == INSTANCE FairExchange WITH money <- Money, info <- Learned

\* The whole sale is a fair exchange: what the cut and choose opens and what
\* the exchange of roots reveals give the buyer nothing before the price is in
\* the chain with the seller.
SaleIsFair == SaleFE!Spec

\* The price goes to a key whose instance was never opened and whose every
\* sister was; T2, the roots and T1 belong to the same instance.
PaidInstanceIsSealed ==
    tx["T1"] # "none" =>
        /\ sellerRun = buyerRun
        /\ run[buyerRun] = "executed"
        /\ \A j \in Runs \ {buyerRun} : run[j] = "opened" /\ verified[j] = "yes"

\* With no fault outside, a sale at the price T1 has ends in one of three ways:
\* before T1 was broadcast, paid and with the factors delivered, or refunded.
SaleSettles ==
    faults = {} /\ price = T1Value =>
        <>\/ proc # "running" /\ tx["T1"] = "none" /\ ~Learned
          \/ Money = "seller" /\ info
          \/ Money = "refunded"
=============================================================================
