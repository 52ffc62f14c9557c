----------------------------- MODULE MCLockfile -----------------------------
(***************************************************************************)
(* Instances of Lockfile: the objects a1 and a2 belong to process a, the   *)
(* object b1 to process b.                                                 *)
(***************************************************************************)
EXTENDS Lockfile

CONSTANTS a, b, a1, a2, b1

MCproc == [o \in Object |-> IF o = b1 THEN b ELSE a]
=============================================================================
