------------------------------ MODULE Lockfile ------------------------------
(***************************************************************************)
(* libsarus::Lockfile (src/Lockfile.cpp): exclusive access to a file by    *)
(* the atomic creation of <file>.lock, polled every Backoff milliseconds,  *)
(* and released by the removal of <file>.lock.                             *)
(*                                                                         *)
(* The lock files live on a file system shared by all processes; the       *)
(* Lockfile objects live in the memory of one process.  An action is one   *)
(* system call on the shared file system together with the code around it  *)
(* that only touches the object, so the interleavings are those of the     *)
(* system calls of the processes (and of the threads of one process).      *)
(*                                                                         *)
(* Faults of the environment: a process may die at any moment (also by     *)
(* std::terminate when ~Lockfile throws, by SIGFPE when warningMs is 0, or *)
(* by the assertion on the empty optional when an empty Lockfile is moved  *)
(* from), open(2) may fail for a reason other than an existing lock file,  *)
(* and close(2) may fail.                                                  *)
(***************************************************************************)
EXTENDS Naturals

CONSTANTS
  Process,    \* the processes sharing the file system
  Object,     \* the places where a Lockfile object can be constructed
  proc,       \* proc[o] is the process in whose memory o lies
  File,       \* the lock files
  NoFile,     \* the empty boost::optional
  Timeout,    \* the values of timeoutMs the clients use
  UIntMax,    \* std::numeric_limits<unsigned int>::max()
  Backoff     \* backoffTimeMs

ASSUME ProcAssumption    == proc \in [Object -> Process]
ASSUME FileAssumption    == NoFile \notin File
ASSUME UIntAssumption    == UIntMax \in Nat
ASSUME TimeoutAssumption == Timeout \subseteq 0..UIntMax
ASSUME BackoffAssumption == Backoff \in 1..UIntMax

VARIABLES
  exists,     \* the lock files present on the file system
  phase,      \* where each object is in its life
  lockfile,   \* the member Lockfile::lockfile of each object
  timeout,    \* the parameter timeoutMs of the constructor in progress
  elapsed     \* the local elapsedTimeMs of the constructor in progress

vars == <<exists, phase, lockfile, timeout, elapsed>>

noTimeout == UIntMax

\* "none":      no object there (never constructed, destroyed, or constructor threw)
\* "acquiring": in the constructor's while loop
\* "closing":   open(2) created the lock file, close(2) is next
\* "live":      the constructor returned
Phase == {"none", "acquiring", "closing", "live"}

TypeOK ==
  /\ exists \subseteq File
  /\ phase \in [Object -> Phase]
  /\ lockfile \in [Object -> File \cup {NoFile}]
  /\ timeout \in [Object -> 0..UIntMax]
  /\ elapsed \in [Object -> 0..UIntMax]

Init ==
  /\ exists = {}
  /\ phase = [o \in Object |-> "none"]
  /\ lockfile = [o \in Object |-> NoFile]
  /\ timeout = [o \in Object |-> 0]
  /\ elapsed = [o \in Object |-> 0]

-----------------------------------------------------------------------------
(* Construction *)

\* Lockfile(): an object that locks nothing.
DefaultConstruct(o) ==
  /\ phase[o] = "none"
  /\ phase' = [phase EXCEPT ![o] = "live"]
  /\ lockfile' = [lockfile EXCEPT ![o] = NoFile]
  /\ UNCHANGED <<exists, timeout, elapsed>>

\* Lockfile(file, timeoutMs, warningMs), up to the first creation attempt.
Construct(o, f, t) ==
  /\ phase[o] = "none"
  /\ phase' = [phase EXCEPT ![o] = "acquiring"]
  /\ lockfile' = [lockfile EXCEPT ![o] = f]
  /\ timeout' = [timeout EXCEPT ![o] = t]
  /\ elapsed' = [elapsed EXCEPT ![o] = 0]
  /\ UNCHANGED exists

\* The locals of the while loop end with it.
LeaveLoop(o) ==
  /\ timeout' = [timeout EXCEPT ![o] = 0]
  /\ elapsed' = [elapsed EXCEPT ![o] = 0]

\* Leaving a constructor by an exception: no object, no destructor call.
Throw(o) ==
  /\ phase' = [phase EXCEPT ![o] = "none"]
  /\ lockfile' = [lockfile EXCEPT ![o] = NoFile]
  /\ LeaveLoop(o)
  /\ UNCHANGED exists

\* Mutant of Expired: the comparison off by one.
ExpiredLate(o) == timeout[o] # noTimeout /\ elapsed[o] > timeout[o]

Expired(o) == timeout[o] # noTimeout /\ elapsed[o] >= timeout[o]

\* Mutants of RetryOrThrow: a clock that stands still, a clock without width.
RetryUntimed(o) == IF Expired(o) THEN Throw(o) ELSE UNCHANGED vars

RetryUnbounded(o) ==
  IF Expired(o)
  THEN Throw(o)
  ELSE /\ elapsed' = [elapsed EXCEPT ![o] = @ + Backoff]
       /\ UNCHANGED <<exists, phase, lockfile, timeout>>

\* The body of the while loop: throw when the time is over, else sleep.
RetryOrThrow(o) ==
  IF Expired(o)
  THEN Throw(o)
  ELSE /\ elapsed' = [elapsed EXCEPT ![o] = (@ + Backoff) % (UIntMax + 1)]
       /\ UNCHANGED <<exists, phase, lockfile, timeout>>

\* Mutant of CreateSucceeds: open(2) without O_EXCL.
CreateNonExclusive(o) ==
  /\ phase[o] = "acquiring"
  /\ exists' = exists \cup {lockfile[o]}
  /\ phase' = [phase EXCEPT ![o] = "closing"]
  /\ LeaveLoop(o)
  /\ UNCHANGED lockfile

\* createLockfileAtomically: open(O_CREAT | O_EXCL) creates the file.
CreateSucceeds(o) ==
  /\ phase[o] = "acquiring"
  /\ lockfile[o] \notin exists
  /\ exists' = exists \cup {lockfile[o]}
  /\ phase' = [phase EXCEPT ![o] = "closing"]
  /\ LeaveLoop(o)
  /\ UNCHANGED lockfile

\* createLockfileAtomically: open fails because the lock file exists.
CreateConflicts(o) ==
  /\ phase[o] = "acquiring"
  /\ lockfile[o] \in exists
  /\ RetryOrThrow(o)

\* createLockfileAtomically: open fails for any other reason (a missing
\* directory, a permission, the descriptor limit).  The code does not look at
\* errno and treats it as a conflict.
CreateErrs(o) ==
  /\ phase[o] = "acquiring"
  /\ RetryOrThrow(o)

CloseSucceeds(o) ==
  /\ phase[o] = "closing"
  /\ phase' = [phase EXCEPT ![o] = "live"]
  /\ UNCHANGED <<exists, lockfile, timeout, elapsed>>

\* The exception leaves the constructor, the lock file stays behind.
CloseFails(o) ==
  /\ phase[o] = "closing"
  /\ Throw(o)

-----------------------------------------------------------------------------
(* Moves and destruction.  Moving from an empty object dereferences an     *)
(* empty optional, only to log it: the assertion of Boost ends the process *)
(* (Crash), a build without assertions goes on.                            *)

\* Mutant of MoveConstruct: rhs keeps the lock.
MoveConstructShared(rhs, o) ==
  /\ proc[rhs] = proc[o]
  /\ phase[rhs] = "live"
  /\ phase[o] = "none"
  /\ phase' = [phase EXCEPT ![o] = "live"]
  /\ lockfile' = [lockfile EXCEPT ![o] = lockfile[rhs]]
  /\ UNCHANGED <<exists, timeout, elapsed>>

\* Lockfile(Lockfile&& rhs)
MoveConstruct(rhs, o) ==
  /\ proc[rhs] = proc[o]
  /\ phase[rhs] = "live"
  /\ phase[o] = "none"
  /\ phase' = [phase EXCEPT ![o] = "live"]
  /\ lockfile' = [lockfile EXCEPT ![o] = lockfile[rhs], ![rhs] = NoFile]
  /\ UNCHANGED <<exists, timeout, elapsed>>

\* Mutants of MoveAssign: rhs keeps the lock; the lock held before is not removed.
MoveAssignShared(rhs, o) ==
  /\ proc[rhs] = proc[o]
  /\ phase[rhs] = "live"
  /\ phase[o] = "live"
  /\ exists' = exists \ {lockfile[o]}
  /\ lockfile' = [lockfile EXCEPT ![o] = lockfile[rhs]]
  /\ UNCHANGED <<phase, timeout, elapsed>>

MoveAssignLeaky(rhs, o) ==
  /\ proc[rhs] = proc[o]
  /\ phase[rhs] = "live"
  /\ phase[o] = "live"
  /\ lockfile' = [lockfile EXCEPT ![o] = lockfile[rhs], ![rhs] = NoFile]
  /\ UNCHANGED <<exists, phase, timeout, elapsed>>

\* operator=(Lockfile&& rhs), which removes the lock file it held before.
\* With rhs = o the file is removed and the object ends up empty.
MoveAssign(rhs, o) ==
  /\ proc[rhs] = proc[o]
  /\ phase[rhs] = "live"
  /\ phase[o] = "live"
  /\ exists' = exists \ {lockfile[o]}
  /\ lockfile' = [lockfile EXCEPT ![o] = lockfile[rhs], ![rhs] = NoFile]
  /\ UNCHANGED <<phase, timeout, elapsed>>

\* ~Lockfile
Destroy(o) ==
  /\ phase[o] = "live"
  /\ exists' = exists \ {lockfile[o]}
  /\ phase' = [phase EXCEPT ![o] = "none"]
  /\ lockfile' = [lockfile EXCEPT ![o] = NoFile]
  /\ UNCHANGED <<timeout, elapsed>>

\* The process dies: its objects are gone, the lock files stay.
Crash(p) ==
  LET Wiped(member, value) ==
        [o \in Object |-> IF proc[o] = p THEN value ELSE member[o]]
  IN /\ phase' = Wiped(phase, "none")
     /\ lockfile' = Wiped(lockfile, NoFile)
     /\ timeout' = Wiped(timeout, 0)
     /\ elapsed' = Wiped(elapsed, 0)
     /\ UNCHANGED exists

-----------------------------------------------------------------------------
(* The specification *)

Attempt(o) == CreateSucceeds(o) \/ CreateConflicts(o) \/ CreateErrs(o)
Close(o)   == CloseSucceeds(o) \/ CloseFails(o)

Next ==
  \/ \E o \in Object :
       \/ DefaultConstruct(o)
       \/ \E f \in File, t \in Timeout : Construct(o, f, t)
       \/ Attempt(o)
       \/ Close(o)
       \/ \E rhs \in Object : MoveConstruct(rhs, o) \/ MoveAssign(rhs, o)
       \/ Destroy(o)
  \/ \E p \in Process : Crash(p)

Spec == Init /\ [][Next]_vars

\* A thread inside the constructor is scheduled again after its sleep and
\* after its system calls; nothing is assumed of the clients or of the faults.
Fairness == \A o \in Object : WF_vars(Attempt(o)) /\ WF_vars(Close(o))

FairSpec == Spec /\ Fairness

-----------------------------------------------------------------------------
(* Properties *)

\* o is responsible for the removal of the lock file f.
Owns(o, f) == phase[o] \in {"closing", "live"} /\ lockfile[o] = f

Owned(f) == \E o \in Object : Owns(o, f)

\* No two objects, of one process or of two, ever hold the same file: neither
\* a race between two constructors nor a move of the lock gives it twice.
MutualExclusion ==
  \A f \in File : \A o1, o2 \in Object : Owns(o1, f) /\ Owns(o2, f) => o1 = o2

\* The lock file of an object that holds it is on disk: no destructor, move or
\* failed constructor of any other object has removed it, so that a newcomer
\* still finds the file locked.
HeldFileExists == \A f \in File : Owned(f) => f \in exists

\* The largest timeouts for which elapsedTimeMs cannot wrap around before it
\* reaches timeoutMs.
IsSafe(t) == t # noTimeout /\ t + Backoff <= UIntMax + 1

\* The constructor sleeps through at most one backoff that ends after its
\* timeout: the exception comes less than Backoff milliseconds late.
WaitBounded ==
  \A o \in Object :
    phase[o] = "acquiring" /\ IsSafe(timeout[o])
      => elapsed[o] < timeout[o] + Backoff

\* A lock file is left behind without an object to remove it only by a death
\* of its process or by the failure of close(2): destructors, moves (to itself
\* too) and timed out constructors leave none.
OnlyFaultsOrphan ==
  [][\A f \in File : Owned(f) /\ f \in exists' =>
       \/ Owned(f)'
       \/ \E p \in Process : Crash(p)
       \/ \E o \in Object : CloseFails(o)]_vars

\* A constructor with a finite timeout ends, by its return or by an exception,
\* even when the lock file is stale or the directory does not exist.
FiniteTimeoutReturns ==
  \A o \in Object :
    phase[o] = "acquiring" /\ IsSafe(timeout[o]) ~> phase[o] # "acquiring"

\* The mutual exclusion among processes that the objects implement: moves of a
\* lock between the objects of a process are invisible, the creation of a lock
\* file acquires and its removal releases, and what a dead process leaves
\* behind stays locked for good.
holder ==
  [f \in File |->
     IF f \notin exists THEN "free"
     ELSE IF Owned(f) THEN proc[CHOOSE o \in Object : Owns(o, f)]
     ELSE "abandoned"]

Abstract == INSTANCE Mutex WITH Free <- "free", Abandoned <- "abandoned"

ImplementsMutex == Abstract!MutexSpec
=============================================================================
