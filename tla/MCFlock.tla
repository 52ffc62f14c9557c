------------------------------ MODULE MCFlock ------------------------------
(***************************************************************************)
(* Instances of Flock: the objects a1 and a2 belong to process a, the      *)
(* objects b1 and b2 to process b.                                         *)
(***************************************************************************)
EXTENDS Flock, TLC

CONSTANTS a, b, a1, a2, b1, b2

MCproc == [o \in Object |-> IF o \in {b1, b2} THEN b ELSE a]

\* The objects of a process are interchangeable.
MCSymmetry == Permutations({a1, a2} \cap Object)

\* -1 is noTimeout.
MCTimeout == {-1, 0, 1}
MCTimeoutZero == {0}
MCTimeoutLive == {-1, 1}
=============================================================================
