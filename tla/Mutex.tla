------------------------------- MODULE Mutex -------------------------------
(***************************************************************************)
(* What libsarus::Lockfile promises to its clients: exclusive access to    *)
(* each file, process by process.  A file is free, or exactly one process  *)
(* holds it, or it was abandoned by a process that died (or failed) while  *)
(* it was holding it.  An abandoned file is never granted again: nobody is *)
(* left who would remove its lock file.                                    *)
(***************************************************************************)

CONSTANTS Process,    \* the processes competing for the files
          File,       \* the files under lock
          Free,       \* the state of a file nobody holds
          Abandoned   \* the state of a file whose last holder never released it

VARIABLE holder       \* holder[f] is the process holding f, Free or Abandoned

MutexInit == holder = [f \in File |-> Free]

Acquire(p, f) ==
  /\ holder[f] = Free
  /\ holder' = [holder EXCEPT ![f] = p]

Release(p, f) ==
  /\ holder[f] = p
  /\ holder' = [holder EXCEPT ![f] = Free]

\* p stops being able to release the files in F, which it holds.
Abandon(p, F) ==
  /\ \A f \in F : holder[f] = p
  /\ holder' = [f \in File |-> IF f \in F THEN Abandoned ELSE holder[f]]

MutexNext ==
  \E p \in Process :
    \/ \E f \in File : Acquire(p, f) \/ Release(p, f)
    \/ \E F \in SUBSET File : Abandon(p, F)

MutexSpec == MutexInit /\ [][MutexNext]_holder
=============================================================================
