------------------------------- MODULE Flock -------------------------------
(***************************************************************************)
(* libsarus::Flock (src/Flock.cpp): shared or exclusive access to a file   *)
(* by flock(2), polled every Backoff milliseconds.                         *)
(*                                                                         *)
(* The open file descriptions and their locks are the kernel's; an object  *)
(* refers to one by the number fileFd in the descriptor table of its       *)
(* process.  Every open(2) makes a new description, so that a description  *)
(* is identified by its process and its descriptor.  An action is one      *)
(* system call together with the code around it that only touches the      *)
(* object; release() is one action although it makes two calls, because    *)
(* its close(2) releases whatever its flock(LOCK_UN) releases.             *)
(*                                                                         *)
(* Faults of the environment: a process may die at any moment; open(2) and *)
(* flock(2) may fail for any reason.                                       *)
(***************************************************************************)
EXTENDS Integers

CONSTANTS
  Process,    \* the processes sharing the file system
  Object,     \* the places where a Flock object can be constructed
  proc,       \* proc[o] is the process in whose memory o lies
  File,       \* the files under lock
  NoFile,     \* the empty boost::optional
  MaxFd,      \* the descriptor limit of a process (RLIMIT_NOFILE)
  Timeout,    \* the values of timeoutTime the clients use, in milliseconds
  Backoff,    \* backoffTime, in milliseconds
  Mover,      \* the processes that move Flock objects
  Retrier     \* the processes that repeat a conversion that timed out

ASSUME ProcAssumption    == proc \in [Object -> Process]
ASSUME FileAssumption    == NoFile \notin File
ASSUME FdAssumption      == MaxFd \in Nat
ASSUME TimeoutAssumption == Timeout \subseteq Int
ASSUME BackoffAssumption == Backoff \in Nat \ {0}

VARIABLES
  ofile,        \* ofile[<<p, d>>]: the file open at descriptor d of p, or NoFile
  olock,        \* olock[<<p, d>>]: the lock of that open file description
  phase,        \* where each object is in its life
  lockfile,     \* the members of each object
  lockType,
  fileFd,
  timeoutTime,
  elapsedTime,  \* the local elapsedTime of timedLockAcquisition
  granted       \* history: the lock that the last call to return normally has
                \* promised to the client of the object

kernel == <<ofile, olock>>
object == <<lockfile, lockType, fileFd, timeoutTime>>
vars   == <<kernel, phase, object, elapsedTime, granted>>

\* milliseconds{max of unsigned long long}: the conversion to the signed
\* representation of std::chrono::milliseconds yields -1.
noTimeout == -1

Fd    == 0..MaxFd - 1
Type  == {"readLock", "writeLock"}
None  == "none"

\* "none":       no object there (never constructed, destroyed, or constructor threw)
\* "acquiring":  in the constructor's timedLockAcquisition
\* "converting": in convertToType's timedLockAcquisition
\* "live":       constructed, no call in progress
\* "moved":      a move has taken its contents; it can only be destroyed or assigned to
Phase == {"none", "acquiring", "converting", "live", "moved"}

TypeOK ==
  /\ ofile \in [Process \X Fd -> File \cup {NoFile}]
  /\ olock \in [Process \X Fd -> Type \cup {None}]
  /\ phase \in [Object -> Phase]
  /\ lockfile \in [Object -> File \cup {NoFile}]
  /\ lockType \in [Object -> Type]
  /\ fileFd \in [Object -> Fd \cup {-1}]
  /\ timeoutTime \in [Object -> Int]
  /\ elapsedTime \in [Object -> Nat]
  /\ granted \in [Object -> Type \cup {None}]

Init ==
  /\ ofile = [pd \in Process \X Fd |-> NoFile]
  /\ olock = [pd \in Process \X Fd |-> None]
  /\ phase = [o \in Object |-> "none"]
  /\ lockfile = [o \in Object |-> NoFile]
  /\ lockType = [o \in Object |-> "readLock"]
  /\ fileFd = [o \in Object |-> -1]
  /\ timeoutTime = [o \in Object |-> noTimeout]
  /\ elapsedTime = [o \in Object |-> 0]
  /\ granted = [o \in Object |-> None]

-----------------------------------------------------------------------------
(* The kernel: open file descriptions and flock(2) *)

\* The open file description an object refers to, if it has a descriptor.
Description(o) == <<proc[o], fileFd[o]>>

\* open(2) takes the lowest free descriptor.
IsLowestFree(p, d) ==
  /\ ofile[<<p, d>>] = NoFile
  /\ \A e \in Fd : e < d => ofile[<<p, e>>] # NoFile

\* Another description than pd of the same file has a lock that excludes type.
Conflict(pd, type) ==
  \E qe \in Process \X Fd \ {pd} :
    /\ ofile[qe] = ofile[pd]
    /\ olock[qe] # None
    /\ "writeLock" \in {type, olock[qe]}

\* flock(d, type | LOCK_NB) succeeds: the lock it has already, or a compatible one.
Locks(pd, type) ==
  /\ ofile[pd] # NoFile
  /\ olock[pd] = type \/ ~Conflict(pd, type)
  /\ olock' = [olock EXCEPT ![pd] = type]

\* flock(d, type | LOCK_NB) fails with EWOULDBLOCK.  A conversion removes the
\* lock of the other type before it looks for conflicts: that lock is lost.
WouldBlock(pd, type) ==
  /\ ofile[pd] # NoFile
  /\ olock[pd] # type /\ Conflict(pd, type)
  /\ olock' = [olock EXCEPT ![pd] = None]

-----------------------------------------------------------------------------
(* timedLockAcquisition and acquireLockAtomically *)

Waiting(o) == phase[o] \in {"acquiring", "converting"}

Expired(o) == timeoutTime[o] # noTimeout /\ elapsedTime[o] >= timeoutTime[o]

\* There is no object at o any more.
Discard(o) ==
  /\ phase' = [phase EXCEPT ![o] = "none"]
  /\ lockfile' = [lockfile EXCEPT ![o] = NoFile]
  /\ lockType' = [lockType EXCEPT ![o] = "readLock"]
  /\ fileFd' = [fileFd EXCEPT ![o] = -1]
  /\ timeoutTime' = [timeoutTime EXCEPT ![o] = noTimeout]

\* Mutant of Throw: a rollback of lockType to what was granted, too late.
ThrowRollingBack(o) ==
  /\ IF phase[o] = "acquiring"
     THEN Discard(o)
     ELSE /\ phase' = [phase EXCEPT ![o] = "live"]
          /\ lockType' = [lockType EXCEPT ![o] = granted[o]]
          /\ UNCHANGED <<lockfile, fileFd, timeoutTime>>
  /\ elapsedTime' = [elapsedTime EXCEPT ![o] = 0]

\* The exception leaves the constructor (no destructor runs: the descriptor
\* stays open) or convertToType (the object keeps the new lockType).
Throw(o) ==
  /\ IF phase[o] = "acquiring"
     THEN Discard(o)
     ELSE /\ phase' = [phase EXCEPT ![o] = "live"]
          /\ UNCHANGED object
  /\ elapsedTime' = [elapsedTime EXCEPT ![o] = 0]

\* Mutant of RetryOrThrow: the time stands still.
RetryUntimed(o) ==
  /\ IF Expired(o) THEN Throw(o) ELSE UNCHANGED <<phase, object, elapsedTime>>
  /\ UNCHANGED granted

\* The body of the while loop: throw when the time is over, else sleep.  The
\* time of a wait without timeout decides nothing and is not counted.
RetryOrThrow(o) ==
  /\ IF Expired(o)
     THEN Throw(o)
     ELSE /\ elapsedTime' = [elapsedTime EXCEPT ![o] =
                               IF timeoutTime[o] = noTimeout THEN @ ELSE @ + Backoff]
          /\ UNCHANGED <<phase, object>>
  /\ UNCHANGED granted

\* acquireLockAtomically, its first call: the descriptor is open from now on.
Open(o) ==
  /\ Waiting(o) /\ fileFd[o] < 0
  /\ \E d \in Fd :
       /\ IsLowestFree(proc[o], d)
       /\ ofile' = [ofile EXCEPT ![<<proc[o], d>>] = lockfile[o]]
       /\ fileFd' = [fileFd EXCEPT ![o] = d]
  /\ UNCHANGED <<olock, phase, lockfile, lockType, timeoutTime, elapsedTime, granted>>

\* open(2) fails: no free descriptor, no such file, no permission.
OpenFails(o) ==
  /\ Waiting(o) /\ fileFd[o] < 0
  /\ RetryOrThrow(o)
  /\ UNCHANGED kernel

\* Mutants of Lock: the result of flock(2) is not looked at; getFlockFlags
\* requests LOCK_SH for both types.
LockUnchecked(o) ==
  /\ Waiting(o) /\ fileFd[o] >= 0
  /\ Locks(Description(o), lockType[o]) \/ WouldBlock(Description(o), lockType[o])
  /\ phase' = [phase EXCEPT ![o] = "live"]
  /\ elapsedTime' = [elapsedTime EXCEPT ![o] = 0]
  /\ granted' = [granted EXCEPT ![o] = lockType[o]]
  /\ UNCHANGED <<ofile, object>>

LockShared(o) ==
  /\ Waiting(o) /\ fileFd[o] >= 0
  /\ Locks(Description(o), "readLock")
  /\ phase' = [phase EXCEPT ![o] = "live"]
  /\ elapsedTime' = [elapsedTime EXCEPT ![o] = 0]
  /\ granted' = [granted EXCEPT ![o] = lockType[o]]
  /\ UNCHANGED <<ofile, object>>

\* flock(2) succeeds and the constructor or convertToType returns.
Lock(o) ==
  /\ Waiting(o) /\ fileFd[o] >= 0
  /\ Locks(Description(o), lockType[o])
  /\ phase' = [phase EXCEPT ![o] = "live"]
  /\ elapsedTime' = [elapsedTime EXCEPT ![o] = 0]
  /\ granted' = [granted EXCEPT ![o] = lockType[o]]
  /\ UNCHANGED <<ofile, object>>

LockConflicts(o) ==
  /\ Waiting(o) /\ fileFd[o] >= 0
  /\ WouldBlock(Description(o), lockType[o])
  /\ RetryOrThrow(o)
  /\ UNCHANGED ofile

\* flock(2) fails for another reason (ENOLCK, or EBADF on a closed
\* descriptor), which the code treats as a conflict.
LockFails(o) ==
  /\ Waiting(o) /\ fileFd[o] >= 0
  /\ RetryOrThrow(o)
  /\ UNCHANGED kernel

-----------------------------------------------------------------------------
(* The operations of a client *)

\* Flock(): an object that locks nothing.
DefaultConstruct(o) ==
  /\ phase[o] = "none"
  /\ phase' = [phase EXCEPT ![o] = "live"]
  /\ UNCHANGED <<kernel, object, elapsedTime, granted>>

\* Flock(file, type, timeoutTime, warningTime), up to its first open(2).
Construct(o, f, type, t) ==
  /\ phase[o] = "none"
  /\ phase' = [phase EXCEPT ![o] = "acquiring"]
  /\ lockfile' = [lockfile EXCEPT ![o] = f]
  /\ lockType' = [lockType EXCEPT ![o] = type]
  /\ timeoutTime' = [timeoutTime EXCEPT ![o] = t]
  /\ UNCHANGED <<kernel, fileFd, elapsedTime, granted>>

\* Mutant of Convert: the acquisition starts with a new descriptor, as if
\* acquireLockAtomically did not look at fileFd.
ConvertReopening(o, type) ==
  /\ phase[o] = "live" /\ lockfile[o] # NoFile
  /\ type # lockType[o]
  /\ phase' = [phase EXCEPT ![o] = "converting"]
  /\ lockType' = [lockType EXCEPT ![o] = type]
  /\ fileFd' = [fileFd EXCEPT ![o] = -1]
  /\ granted' = [granted EXCEPT ![o] = None]
  /\ UNCHANGED <<kernel, lockfile, timeoutTime, elapsedTime>>

\* convertToType(type) with another type: lockType changes before the
\* acquisition, and what the client held is given up.
Convert(o, type) ==
  /\ phase[o] = "live" /\ lockfile[o] # NoFile
  /\ type # lockType[o]
  /\ phase' = [phase EXCEPT ![o] = "converting"]
  /\ lockType' = [lockType EXCEPT ![o] = type]
  /\ granted' = [granted EXCEPT ![o] = None]
  /\ UNCHANGED <<kernel, lockfile, fileFd, timeoutTime, elapsedTime>>

\* convertToType(type) with the type in lockType returns at once: the client
\* believes that it holds that lock.  It is the repetition of a conversion
\* that timed out when nothing was granted before.
ConvertToSame(o, type) ==
  /\ phase[o] = "live" /\ lockfile[o] # NoFile
  /\ type = lockType[o]
  /\ granted[o] = None => proc[o] \in Retrier
  /\ granted' = [granted EXCEPT ![o] = type]
  /\ UNCHANGED <<kernel, phase, object, elapsedTime>>

\* Mutants of Release: nothing is released; close(2) is missing.
ReleaseNot(o) == UNCHANGED kernel

ReleaseUnlocking(o) ==
  /\ IF fileFd[o] >= 0
     THEN olock' = [olock EXCEPT ![Description(o)] = None]
     ELSE UNCHANGED olock
  /\ UNCHANGED ofile

\* release(): unlock and close the descriptor; failures are only logged.
Release(o) ==
  IF fileFd[o] >= 0
  THEN /\ ofile' = [ofile EXCEPT ![Description(o)] = NoFile]
       /\ olock' = [olock EXCEPT ![Description(o)] = None]
  ELSE UNCHANGED kernel

\* ~Flock
Destroy(o) ==
  /\ phase[o] \in {"live", "moved"}
  /\ Release(o)
  /\ Discard(o)
  /\ granted' = [granted EXCEPT ![o] = None]
  /\ UNCHANGED elapsedTime

\* The members of rhs are copied to o.  Moving an int copies it, so that both
\* objects refer to the descriptor afterwards.
TakeOver(rhs, o) ==
  /\ phase' = [phase EXCEPT ![o] = "live", ![rhs] = "moved"]
  /\ lockfile' = [lockfile EXCEPT ![o] = lockfile[rhs]]
  /\ lockType' = [lockType EXCEPT ![o] = lockType[rhs]]
  /\ fileFd' = [fileFd EXCEPT ![o] = fileFd[rhs]]
  /\ timeoutTime' = [timeoutTime EXCEPT ![o] = timeoutTime[rhs]]
  /\ granted' = [granted EXCEPT ![o] = granted[rhs], ![rhs] = None]
  /\ UNCHANGED elapsedTime

\* Flock(Flock&& rhs)
MoveConstruct(rhs, o) ==
  /\ proc[o] \in Mover /\ proc[rhs] = proc[o]
  /\ phase[rhs] = "live" /\ phase[o] = "none"
  /\ TakeOver(rhs, o)
  /\ UNCHANGED kernel

\* operator=(Flock&& rhs), also with rhs = o
MoveAssign(rhs, o) ==
  /\ proc[o] \in Mover /\ proc[rhs] = proc[o]
  /\ phase[rhs] = "live" /\ phase[o] \in {"live", "moved"}
  /\ Release(o)
  /\ TakeOver(rhs, o)

\* The process dies: the kernel closes its descriptors.
Crash(p) ==
  LET Wiped(member, value) ==
        [o \in Object |-> IF proc[o] = p THEN value ELSE member[o]]
      Closed(of, value) ==
        [qd \in Process \X Fd |-> IF qd[1] = p THEN value ELSE of[qd]]
  IN /\ ofile' = Closed(ofile, NoFile)
     /\ olock' = Closed(olock, None)
     /\ phase' = Wiped(phase, "none")
     /\ lockfile' = Wiped(lockfile, NoFile)
     /\ lockType' = Wiped(lockType, "readLock")
     /\ fileFd' = Wiped(fileFd, -1)
     /\ timeoutTime' = Wiped(timeoutTime, noTimeout)
     /\ elapsedTime' = Wiped(elapsedTime, 0)
     /\ granted' = Wiped(granted, None)

-----------------------------------------------------------------------------
(* The specification *)

TryOpen(o) == Open(o) \/ OpenFails(o)
TryLock(o) == Lock(o) \/ LockConflicts(o) \/ LockFails(o)

Next ==
  \/ \E o \in Object :
       \/ DefaultConstruct(o)
       \/ \E f \in File, type \in Type, t \in Timeout : Construct(o, f, type, t)
       \/ TryOpen(o)
       \/ TryLock(o)
       \/ \E type \in Type : Convert(o, type) \/ ConvertToSame(o, type)
       \/ Destroy(o)
       \/ \E rhs \in Object : MoveConstruct(rhs, o) \/ MoveAssign(rhs, o)
  \/ \E p \in Process : Crash(p)

Spec == Init /\ [][Next]_vars

\* A thread in timedLockAcquisition is scheduled again after its sleep and
\* after its system calls, and flock(2) on an open descriptor does not fail for
\* other reasons for ever.  Nothing is assumed of clients, of open(2) or of deaths.
Fairness ==
  \A o \in Object : /\ WF_vars(TryOpen(o))
                    /\ WF_vars(TryLock(o))
                    /\ SF_vars(Lock(o) \/ LockConflicts(o))

FairSpec == Spec /\ Fairness

-----------------------------------------------------------------------------
(* Properties *)

\* The processes whose clients use neither moves nor repeated conversions.
CarefulProcess == Process \ (Mover \cup Retrier)
CarefulObject  == {o \in Object : proc[o] \in CarefulProcess}

Holds(o) ==
  /\ fileFd[o] >= 0
  /\ ofile[Description(o)] = lockfile[o]
  /\ olock[Description(o)] = granted[o]

\* What a constructor or convertToType promised by its return is in force in
\* the kernel until the object is destroyed or converted: no conversion, time
\* out, death or destruction of another object, in this process or in another
\* one that may move its objects, takes the lock away.
PromiseKept == \A o \in CarefulObject : granted[o] # None => Holds(o)

Refers(o, p, d) == proc[o] = p /\ fileFd[o] = d

Referenced(p, d) == \E o \in Object : Refers(o, p, d)

\* A descriptor that a timed out constructor leaves open has no lock: it costs
\* the process a descriptor but keeps nobody else waiting.
LeakedHoldsNothing ==
  \A p \in CarefulProcess, d \in Fd : ~Referenced(p, d) => olock[<<p, d>>] = None

\* A descriptor stays open without an object to close it only when the
\* constructor that opened it throws.
OnlyConstructorsLeak ==
  [][\A p \in CarefulProcess, d \in Fd :
       Referenced(p, d) /\ ofile'[<<p, d>>] # NoFile =>
         \/ Referenced(p, d)'
         \/ \E o \in Object : Refers(o, p, d) /\ phase[o] = "acquiring"
                              /\ phase'[o] = "none"]_vars

\* The readers-writer lock that the objects of careful processes implement,
\* even when other processes lose their locks.
held ==
  [o \in CarefulObject |->
     IF granted[o] = None THEN << >> ELSE <<lockfile[o], granted[o]>>]

Abstract == INSTANCE RWLock WITH Client <- CarefulObject, NoLock <- << >>

ImplementsRWLock == Abstract!RWSpec

\* A constructor or conversion with a finite timeout ends, by its return or by
\* an exception, whatever the other processes and the file system do.
FiniteTimeoutReturns ==
  \A o \in Object :
    Waiting(o) /\ timeoutTime[o] # noTimeout ~> ~Waiting(o)

\* Some object polls an open descriptor of f.
WaitedFor(f) ==
  \E o \in Object : Waiting(o) /\ fileFd[o] >= 0 /\ ofile[Description(o)] = f

LockedByLive(f) ==
  \E o \in Object : /\ phase[o] = "live"
                    /\ fileFd[o] >= 0
                    /\ ofile[Description(o)] = f
                    /\ olock[Description(o)] # None

\* Those who wait for a file never wait for each other: after a while one of
\* them has its lock, or the file is locked by an object that is not waiting.
\* In particular two readers that convert to write locks at the same time do
\* not deadlock, because the first conflict costs each its read lock.
NeverWaitForEachOther ==
  \A f \in File : WaitedFor(f) ~> LockedByLive(f) \/ ~WaitedFor(f)

\* What the tests claim of moves (test_Flock.cpp: the lock of a moved object is
\* held by the new one) ...
MovedLockIsHeld ==
  \A o \in Object : proc[o] \in Mover /\ granted[o] # None => Holds(o)

\* ... and of conversions (when convertToType has returned the lock is held).
ConvertedLockIsHeld ==
  \A o \in Object : proc[o] \in Retrier /\ granted[o] # None => Holds(o)
=============================================================================
