----------------------------- MODULE MCRateLimit -----------------------------
(***************************************************************************)
(* Instances of RateLimit for TLC.                                         *)
(***************************************************************************)
EXTENDS RateLimit, TLC

CONSTANTS closed, single, double

\* A route whose limit is 0, one of 1 and one of 2 requests a second.
MCLimit == [h \in Handlers |-> CASE h = closed -> 0 [] h = single -> 1 [] h = double -> 2]

MCSymmetry == Permutations(Threads)

\* Routes of one shard wait for each other, the third has a shard of its own.
MCShard == [k \in Key |-> IF k[1] = single THEN 1 ELSE 2]
=============================================================================
