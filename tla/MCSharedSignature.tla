-------------------------- MODULE MCSharedSignature --------------------------
(* A group of order 7 for the runs of SharedSignature. *)
EXTENDS SharedSignature

\* One pair of points has an x coordinate below n, one has n itself (r is 0),
\* one is above n (verify does not reduce it).
MCX == [k \in 1 .. 6 |-> IF k \in {1, 6} THEN 3 ELSE IF k \in {2, 5} THEN 7
                         ELSE 9]
=============================================================================
