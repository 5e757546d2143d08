---------------------------- MODULE MCSingleSell ----------------------------
(* A group of order 13 for the run of SingleSell. *)
EXTENDS SingleSell

\* An x coordinate of one byte, two, n itself (r is 0), and one above n.
MCX == [k \in 1 .. 12 |->
    LET j == IF k <= 6 THEN k ELSE 13 - k
    IN  CASE j = 1 -> 3 [] j = 2 -> 13 [] j = 3 -> 1 [] j = 4 -> 15
          [] j = 5 -> 4 [] j = 6 -> 12]
=============================================================================
