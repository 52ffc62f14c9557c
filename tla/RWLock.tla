------------------------------- MODULE RWLock -------------------------------
(***************************************************************************)
(* What libsarus::Flock promises to its clients: shared or exclusive       *)
(* access to each file.  A client holds at most one lock; it is granted    *)
(* only when it is compatible with what every other client holds.  There   *)
(* is no atomic conversion: a client gives its lock up and may then be     *)
(* granted the other type.                                                 *)
(***************************************************************************)

CONSTANTS Client,    \* the holders of locks
          File,      \* the files under lock
          NoLock     \* what a client holds that holds nothing

VARIABLE held        \* held[c] is NoLock or the file and the type of c's lock

Type == {"readLock", "writeLock"}

RWInit == held = [c \in Client |-> NoLock]

Compatible(c, f, type) ==
  \A d \in Client \ {c} :
    /\ held[d] # <<f, "writeLock">>
    /\ type = "writeLock" => held[d] # <<f, "readLock">>

Grant(c, f, type) ==
  /\ held[c] = NoLock
  /\ Compatible(c, f, type)
  /\ held' = [held EXCEPT ![c] = <<f, type>>]

\* The clients in D lose what they hold (together when their process dies).
Drop(D) == held' = [c \in Client |-> IF c \in D THEN NoLock ELSE held[c]]

RWNext ==
  \/ \E c \in Client, f \in File, type \in Type : Grant(c, f, type)
  \/ \E D \in SUBSET Client : Drop(D)

RWSpec == RWInit /\ [][RWNext]_held
=============================================================================
