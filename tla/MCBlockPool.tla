---------------------------- MODULE MCBlockPool ----------------------------
(* BlockPool on small instances: the blocks, their sizes and the limits.   *)
EXTENDS BlockPool, TLC

CONSTANTS b1, b2, e1, w1, w2

\* Two swappable blocks of different sizes and a block of an external file.
MCSize == [b \in Block |-> IF b = b2 THEN 2 ELSE 1]

\* Workers are interchangeable in the safety runs.
WorkerSymmetry == Permutations(Worker)

=============================================================================
