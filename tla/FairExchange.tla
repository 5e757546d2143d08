---------------------------- MODULE FairExchange ----------------------------
(***************************************************************************)
(* What the settlement of a sale promises to its two parties: the price    *)
(* is locked in T1, and leaves it exactly once, to the seller or back to   *)
(* the buyer; the buyer learns the factors only from a sale that was paid. *)
(***************************************************************************)

VARIABLES
    money,  \* where the price is: "buyer", "locked", "seller" or "refunded"
    info    \* does the buyer hold the factors p and q

vars == <<money, info>>

Init == money = "buyer" /\ info = FALSE

\* T1 is in the chain: its output needs the shared key of the two parties.
Lock == /\ money = "buyer"
        /\ money' = "locked"
        /\ UNCHANGED info

\* T2 is in the chain, with the signature the keys of the roots come from.
Pay == /\ money = "locked"
       /\ money' = "seller"
       /\ UNCHANGED info

\* The buyer's own spend of T1, signed after the time lock is solved.
Refund == /\ money = "locked"
          /\ money' = "refunded"
          /\ UNCHANGED info

\* The buyer reads the signature in T2 and factorises n.
Learn == /\ money = "seller"
         /\ ~info
         /\ info' = TRUE
         /\ UNCHANGED money

Next == Lock \/ Pay \/ Refund \/ Learn

Spec == Init /\ [][Next]_vars

\* A locked price does not stay locked, and a paid sale is delivered.
Fairness == WF_vars(Pay \/ Refund) /\ WF_vars(Learn)

FairSpec == Spec /\ Fairness
=============================================================================
