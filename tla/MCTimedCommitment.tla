-------------------------- MODULE MCTimedCommitment --------------------------
(* Messages for the runs of TimedCommitment. *)
EXTENDS TimedCommitment

\* Of 1 to 4 bits: up to half the squarings of K = 3, and beyond half, up to
\* all, of those of K = 2.
MCMessages == {<<1>>, <<1, 0>>, <<0, 1, 1>>, <<1, 0, 0, 1>>}

OneMessage == {<<1>>}
=============================================================================
