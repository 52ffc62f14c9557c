--------------------------- MODULE LockfileProofs ---------------------------
(***************************************************************************)
(* Theorems about Lockfile, for all processes, objects, files, timeouts    *)
(* and widths of the clock.                                                *)
(***************************************************************************)
EXTENDS Lockfile, TLAPS

\* The clock: the sum modulo UIntMax + 1 is a value of the clock, and the sum
\* itself when it does not overflow.
LEMMA Wrap ==
  ASSUME NEW n \in 0..UIntMax
  PROVE  /\ (n + Backoff) % (UIntMax + 1) \in 0..UIntMax
         /\ n + Backoff <= UIntMax => (n + Backoff) % (UIntMax + 1) = n + Backoff
<1>1. n \in Nat /\ UIntMax \in Nat /\ Backoff \in Nat
  BY UIntAssumption, BackoffAssumption
<1>2. (n + Backoff) % (UIntMax + 1) \in 0..UIntMax
  BY <1>1
<1>3. n + Backoff <= UIntMax => (n + Backoff) % (UIntMax + 1) = n + Backoff
  BY <1>1
<1> QED BY <1>2, <1>3

\* TypeOK alone is not inductive: a constructor that is about to create its
\* lock file has a file to create.
ConstructorHasFile ==
  \A o \in Object : phase[o] \in {"acquiring", "closing"} => lockfile[o] \in File

TypeInv == TypeOK /\ ConstructorHasFile

LEMMA TypeStep == TypeInv /\ [Next]_vars => TypeInv'
<1> SUFFICES ASSUME TypeInv, [Next]_vars PROVE TypeInv'
  OBVIOUS
<1> USE UIntAssumption, FileAssumption
    DEF TypeInv, TypeOK, ConstructorHasFile, Phase
<1>1. ASSUME NEW o \in Object, DefaultConstruct(o) PROVE TypeInv'
  BY <1>1 DEF DefaultConstruct
<1>2. ASSUME NEW o \in Object, NEW f \in File, NEW t \in Timeout,
             Construct(o, f, t)
      PROVE  TypeInv'
  BY <1>2, TimeoutAssumption DEF Construct
<1>3. ASSUME NEW o \in Object, phase[o] = "acquiring", RetryOrThrow(o)
      PROVE  TypeInv'
  <2>1. CASE Expired(o)
    BY <1>3, <2>1 DEF RetryOrThrow, Throw, LeaveLoop
  <2>2. CASE ~Expired(o)
    BY <1>3, <2>2, Wrap DEF RetryOrThrow
  <2> QED BY <2>1, <2>2
<1>4. ASSUME NEW o \in Object, Attempt(o) PROVE TypeInv'
  <2>1. CASE CreateSucceeds(o)
    BY <2>1 DEF CreateSucceeds, LeaveLoop
  <2>2. CASE CreateConflicts(o) \/ CreateErrs(o)
    BY <2>2, <1>3 DEF CreateConflicts, CreateErrs
  <2> QED BY <1>4, <2>1, <2>2 DEF Attempt
<1>5. ASSUME NEW o \in Object, Close(o) PROVE TypeInv'
  BY <1>5 DEF Close, CloseSucceeds, CloseFails, Throw, LeaveLoop
<1>6. ASSUME NEW o \in Object, NEW rhs \in Object,
             MoveConstruct(rhs, o) \/ MoveAssign(rhs, o)
      PROVE  TypeInv'
  BY <1>6 DEF MoveConstruct, MoveAssign
<1>7. ASSUME NEW o \in Object, Destroy(o) PROVE TypeInv'
  BY <1>7 DEF Destroy
<1>8. ASSUME NEW p \in Process, Crash(p) PROVE TypeInv'
  BY <1>8 DEF Crash
<1>9. CASE UNCHANGED vars
  BY <1>9 DEF vars
<1> QED BY <1>1, <1>2, <1>4, <1>5, <1>6, <1>7, <1>8, <1>9 DEF Next

LEMMA TypeInvariant == Spec => []TypeInv
<1>1. Init => TypeInv
  BY UIntAssumption DEF Init, TypeInv, TypeOK, ConstructorHasFile, Phase
<1> QED BY <1>1, TypeStep, PTL DEF Spec

\* Every variable keeps the values the C++ types give it; elapsedTimeMs stays
\* an unsigned int because it wraps.
THEOREM TypeCorrect == Spec => []TypeOK
BY TypeInvariant, PTL DEF TypeInv

-----------------------------------------------------------------------------
(* The inductive invariant of the locks.  Neither half is inductive alone: *)
(* a second owner of a file is kept out because the owner's lock file is   *)
(* there, and the lock file stays there because no other object owns it    *)
(* and may remove it.                                                      *)

LockInv == MutualExclusion /\ HeldFileExists

LEMMA LockStep == TypeInv /\ LockInv /\ [Next]_vars => LockInv'
<1> SUFFICES ASSUME TypeInv, LockInv, [Next]_vars PROVE LockInv'
  OBVIOUS
<1> USE FileAssumption
    DEF TypeInv, TypeOK, ConstructorHasFile, LockInv, MutualExclusion,
        HeldFileExists, Owned, Owns
<1>1. ASSUME NEW o \in Object, DefaultConstruct(o) PROVE LockInv'
  BY <1>1 DEF DefaultConstruct
<1>2. ASSUME NEW o \in Object, NEW f \in File, NEW t \in Timeout,
             Construct(o, f, t)
      PROVE  LockInv'
  BY <1>2 DEF Construct
<1>3. ASSUME NEW o \in Object, Attempt(o) PROVE LockInv'
  <2>1. CASE CreateSucceeds(o)
    BY <2>1 DEF CreateSucceeds
  <2>2. CASE CreateConflicts(o) \/ CreateErrs(o)
    BY <2>2 DEF CreateConflicts, CreateErrs, RetryOrThrow, Throw
  <2> QED BY <1>3, <2>1, <2>2 DEF Attempt
<1>4. ASSUME NEW o \in Object, Close(o) PROVE LockInv'
  BY <1>4 DEF Close, CloseSucceeds, CloseFails, Throw
<1>5. ASSUME NEW o \in Object, NEW rhs \in Object, MoveConstruct(rhs, o)
      PROVE  LockInv'
  BY <1>5 DEF MoveConstruct
<1>6. ASSUME NEW o \in Object, NEW rhs \in Object, MoveAssign(rhs, o)
      PROVE  LockInv'
  BY <1>6 DEF MoveAssign
<1>7. ASSUME NEW o \in Object, Destroy(o) PROVE LockInv'
  BY <1>7 DEF Destroy
<1>8. ASSUME NEW p \in Process, Crash(p) PROVE LockInv'
  BY <1>8 DEF Crash
<1>9. CASE UNCHANGED vars
  BY <1>9 DEF vars
<1> QED BY <1>1, <1>2, <1>3, <1>4, <1>5, <1>6, <1>7, <1>8, <1>9 DEF Next

LEMMA LockInvariant == Spec => [](TypeInv /\ LockInv)
<1>1. Init => LockInv
  BY DEF Init, LockInv, MutualExclusion, HeldFileExists, Owned, Owns
<1> QED BY <1>1, LockStep, TypeInvariant, PTL DEF Spec

\* No two objects ever hold the same file.
THEOREM LockIsExclusive == Spec => []MutualExclusion
BY LockInvariant, PTL DEF LockInv

\* The lock file of every held lock is on disk.
THEOREM LockFileStays == Spec => []HeldFileExists
BY LockInvariant, PTL DEF LockInv

\* A constructor with a timeout that cannot wrap never waits a whole backoff
\* too long.
THEOREM WaitIsBounded == Spec => []WaitBounded
<1>1. Init => WaitBounded
  BY DEF Init, WaitBounded
<1>2. TypeInv /\ WaitBounded /\ [Next]_vars => WaitBounded'
  <2> SUFFICES ASSUME TypeInv, WaitBounded, [Next]_vars PROVE WaitBounded'
    OBVIOUS
  <2> USE UIntAssumption, BackoffAssumption
      DEF TypeInv, TypeOK, WaitBounded, IsSafe, noTimeout
  <2>1. ASSUME NEW o \in Object, NEW f \in File, NEW t \in Timeout,
               Construct(o, f, t)
        PROVE  WaitBounded'
    <3>1. t \in Nat /\ Backoff \in Nat \ {0} /\ 0 < t + Backoff
      BY TimeoutAssumption
    <3> QED BY <2>1, <3>1 DEF Construct
  <2>2. ASSUME NEW o \in Object, phase[o] = "acquiring", RetryOrThrow(o)
        PROVE  WaitBounded'
    <3>1. CASE Expired(o)
      BY <2>2, <3>1 DEF RetryOrThrow, Throw, LeaveLoop
    <3>2. CASE ~Expired(o) /\ IsSafe(timeout[o])
      <4>1. elapsed[o] < timeout[o] /\ elapsed[o] + Backoff <= UIntMax
        BY <3>2 DEF Expired
      <4>2. (elapsed[o] + Backoff) % (UIntMax + 1) = elapsed[o] + Backoff
        BY <4>1, Wrap
      <4> QED BY <2>2, <3>2, <4>1, <4>2 DEF RetryOrThrow
    <3>3. CASE ~Expired(o) /\ ~IsSafe(timeout[o])
      BY <2>2, <3>3 DEF RetryOrThrow
    <3> QED BY <3>1, <3>2, <3>3
  <2>3. ASSUME NEW o \in Object, Attempt(o) PROVE WaitBounded'
    <3>1. CASE CreateSucceeds(o)
      BY <3>1 DEF CreateSucceeds, LeaveLoop
    <3>2. CASE CreateConflicts(o) \/ CreateErrs(o)
      BY <3>2, <2>2 DEF CreateConflicts, CreateErrs
    <3> QED BY <2>3, <3>1, <3>2 DEF Attempt
  <2>4. ASSUME NEW o \in Object, DefaultConstruct(o) \/ Close(o) \/ Destroy(o)
        PROVE  WaitBounded'
    BY <2>4 DEF DefaultConstruct, Close, CloseSucceeds, CloseFails, Throw,
                LeaveLoop, Destroy
  <2>5. ASSUME NEW o \in Object, NEW rhs \in Object,
               MoveConstruct(rhs, o) \/ MoveAssign(rhs, o)
        PROVE  WaitBounded'
    BY <2>5 DEF MoveConstruct, MoveAssign
  <2>6. ASSUME NEW p \in Process, Crash(p) PROVE WaitBounded'
    BY <2>6 DEF Crash
  <2>7. CASE UNCHANGED vars
    BY <2>7 DEF vars
  <2> QED BY <2>1, <2>3, <2>4, <2>5, <2>6, <2>7 DEF Next
<1> QED BY <1>1, <1>2, TypeInvariant, PTL DEF Spec

-----------------------------------------------------------------------------
(* Steps from one state of the invariant to the next *)

\* Only the death of a process and a failing close(2) leave a lock file behind
\* without an owner.
THEOREM OnlyFaultsLeaveFiles == Spec => OnlyFaultsOrphan
<1> DEFINE Orphans ==
      \A f \in File : Owned(f) /\ f \in exists' =>
        \/ Owned(f)'
        \/ \E p \in Process : Crash(p)
        \/ \E o \in Object : CloseFails(o)
<1>1. TypeInv /\ [Next]_vars => [Orphans]_vars
  <2> SUFFICES ASSUME TypeInv, Next, NEW f \in File, Owned(f), f \in exists',
                      \A p \in Process : ~Crash(p),
                      \A o \in Object : ~CloseFails(o)
               PROVE  Owned(f)'
    OBVIOUS
  <2>0. PICK owner \in Object : Owns(owner, f)
    BY DEF Owned
  <2>1. ASSUME NEW o \in Object, Owns(o, f)' PROVE Owned(f)'
    BY <2>1 DEF Owned
  <2> USE FileAssumption DEF TypeInv, TypeOK, Owns
  <2>2. ASSUME NEW o \in Object,
               \/ DefaultConstruct(o)
               \/ \E g \in File, t \in Timeout : Construct(o, g, t)
        PROVE  Owned(f)'
    BY <2>0, <2>1, <2>2 DEF DefaultConstruct, Construct
  <2>3. ASSUME NEW o \in Object, Attempt(o) PROVE Owned(f)'
    BY <2>0, <2>1, <2>3 DEF Attempt, CreateSucceeds, CreateConflicts,
                            CreateErrs, RetryOrThrow, Throw
  <2>4. ASSUME NEW o \in Object, Close(o) PROVE Owned(f)'
    BY <2>0, <2>1, <2>4 DEF Close, CloseSucceeds
  <2>5. ASSUME NEW o \in Object, NEW rhs \in Object,
               MoveConstruct(rhs, o) \/ MoveAssign(rhs, o)
        PROVE  Owned(f)'
    BY <2>0, <2>1, <2>5 DEF MoveConstruct, MoveAssign
  <2>6. ASSUME NEW o \in Object, Destroy(o) PROVE Owned(f)'
    BY <2>0, <2>1, <2>6 DEF Destroy
  <2> HIDE DEF TypeInv, TypeOK, Owns
  <2> QED BY <2>2, <2>3, <2>4, <2>5, <2>6 DEF Next
<1> QED BY <1>1, TypeInvariant, PTL DEF Spec, OnlyFaultsOrphan

\* What the refinement mapping says of each file.
HolderSpec ==
  /\ holder = [f \in File |-> holder[f]]
  /\ \A f \in File :
       /\ f \notin exists => holder[f] = "free"
       /\ f \in exists /\ ~Owned(f) => holder[f] = "abandoned"
       /\ \A o \in Object : Owns(o, f) => f \in exists /\ holder[f] = proc[o]

LEMMA HolderOf == LockInv => HolderSpec
<1> SUFFICES ASSUME LockInv PROVE HolderSpec
  OBVIOUS
<1>1. ASSUME NEW f \in File, NEW o \in Object, Owns(o, f)
      PROVE  f \in exists /\ holder[f] = proc[o]
  <2>1. f \in exists /\ Owned(f)
    BY <1>1 DEF LockInv, HeldFileExists, Owned
  <2>2. o = CHOOSE x \in Object : Owns(x, f)
    BY <1>1 DEF LockInv, MutualExclusion
  <2> QED BY <2>1, <2>2 DEF holder
<1>2. ASSUME NEW f \in File
      PROVE  /\ f \notin exists => holder[f] = "free"
             /\ f \in exists /\ ~Owned(f) => holder[f] = "abandoned"
  BY DEF holder
<1>3. holder = [f \in File |-> holder[f]]
  BY DEF holder
<1> QED BY <1>1, <1>2, <1>3 DEF HolderSpec

\* The holder of a file that no step touches stays the same.
LEMMA HolderStays ==
  ASSUME HolderSpec, HolderSpec', NEW f \in File,
         f \in exists' <=> f \in exists,
         \A o \in Object : Owns(o, f) => \E x \in Object :
                             Owns(x, f)' /\ proc[x] = proc[o],
         Owned(f)' => Owned(f)
  PROVE  holder[f]' = holder[f]
<1>1. CASE f \notin exists
  BY <1>1 DEF HolderSpec
<1>2. CASE f \in exists /\ ~Owned(f)
  BY <1>2 DEF HolderSpec
<1>3. CASE f \in exists /\ Owned(f)
  <2>1. PICK o \in Object : Owns(o, f)
    BY <1>3 DEF Owned
  <2>2. PICK x \in Object : Owns(x, f)' /\ proc[x] = proc[o]
    BY <2>1
  <2> QED BY <2>1, <2>2 DEF HolderSpec
<1> QED BY <1>1, <1>2, <1>3

\* The objects implement mutual exclusion among the processes, also when locks
\* are moved and processes die.
THEOREM Refinement == Spec => ImplementsMutex
<1>1. Init => Abstract!MutexInit
  BY DEF Init, Abstract!MutexInit, holder
<1>2. TypeInv /\ HolderSpec /\ HolderSpec' /\ [Next]_vars
        => [Abstract!MutexNext]_holder
  <2> SUFFICES ASSUME TypeInv, HolderSpec, HolderSpec', [Next]_vars
               PROVE  Abstract!MutexNext \/ UNCHANGED holder
    OBVIOUS
  <2> USE FileAssumption, ProcAssumption
      DEF TypeInv, TypeOK, ConstructorHasFile
  <2>0. ASSUME \A f \in File : holder[f]' = holder[f]
        PROVE  UNCHANGED holder
    BY <2>0 DEF HolderSpec
  \* Steps that leave the lock files and their owners alone are invisible.
  <2>1. ASSUME exists' = exists,
               \A f \in File, o \in Object : Owns(o, f)' <=> Owns(o, f)
        PROVE  UNCHANGED holder
    <3>1. ASSUME NEW f \in File PROVE Owned(f)' => Owned(f)
      BY <2>1 DEF Owned
    <3>2. ASSUME NEW f \in File PROVE holder[f]' = holder[f]
      BY <2>1, <3>1, HolderStays
    <3> QED BY <2>0, <3>2
  <2>2. ASSUME NEW o \in Object,
               \/ DefaultConstruct(o)
               \/ \E f \in File, t \in Timeout : Construct(o, f, t)
               \/ CreateConflicts(o) \/ CreateErrs(o)
               \/ CloseSucceeds(o)
        PROVE  UNCHANGED holder
    BY <2>1, <2>2 DEF DefaultConstruct, Construct, CreateConflicts, CreateErrs,
                      RetryOrThrow, Throw, CloseSucceeds, Owns
  <2>3. CASE UNCHANGED vars
    BY <2>1, <2>3 DEF vars, Owns
  \* The creation of the lock file acquires it, its removal releases it.
  <2>4. ASSUME NEW o \in Object, CreateSucceeds(o)
        PROVE  Abstract!MutexNext
    <3>0. PICK f \in File : f = lockfile[o]
      BY <2>4 DEF CreateSucceeds
    <3>1. f \in File /\ f \notin exists /\ Owns(o, f)'
      BY <2>4, <3>0 DEF CreateSucceeds, Owns
    <3>2. \A g \in File \ {f} : holder[g]' = holder[g]
      <4> SUFFICES ASSUME NEW g \in File \ {f} PROVE holder[g]' = holder[g]
        OBVIOUS
      <4>1. \A x \in Object : Owns(x, g)' <=> Owns(x, g)
        BY <2>4, <3>0 DEF CreateSucceeds, Owns
      <4>2. (g \in exists' <=> g \in exists) /\ (Owned(g)' => Owned(g))
        BY <2>4, <3>0, <4>1 DEF CreateSucceeds, Owned
      <4> QED BY <4>1, <4>2, HolderStays
    <3>3. holder[f] = "free" /\ holder[f]' = proc[o]
      BY <3>1 DEF HolderSpec
    <3>4. Abstract!Acquire(proc[o], f)
      BY <3>2, <3>3 DEF HolderSpec, Abstract!Acquire
    <3> QED BY <3>1, <3>4 DEF Abstract!MutexNext
  <2>5. ASSUME NEW o \in Object, lockfile[o] \in File, phase[o] = "live",
               exists' = exists \ {lockfile[o]},
               \A f \in File \ {lockfile[o]}, x \in Object :
                 Owns(x, f) => \E y \in Object : Owns(y, f)' /\ proc[y] = proc[x],
               \A f \in File \ {lockfile[o]} : Owned(f)' => Owned(f)
        PROVE  Abstract!MutexNext
    <3>0. PICK f \in File : f = lockfile[o]
      BY <2>5
    <3>1. Owns(o, f) /\ f \notin exists'
      BY <2>5, <3>0 DEF Owns
    <3>2. \A g \in File \ {f} : holder[g]' = holder[g]
      BY <2>5, <3>0, HolderStays
    <3>3. holder[f] = proc[o] /\ holder[f]' = "free"
      BY <3>1 DEF HolderSpec
    <3>4. Abstract!Release(proc[o], f)
      BY <3>2, <3>3 DEF HolderSpec, Abstract!Release
    <3> QED BY <2>5, <3>4 DEF Abstract!MutexNext
  <2>6. ASSUME NEW o \in Object, Destroy(o)
        PROVE  Abstract!MutexNext \/ UNCHANGED holder
    <3>1. ASSUME NEW f \in File, f # lockfile[o], NEW x \in Object
          PROVE  Owns(x, f)' <=> Owns(x, f)
      BY <2>6, <3>1 DEF Destroy, Owns
    <3>2. CASE lockfile[o] = NoFile
      <4>1. exists' = exists
        BY <2>6, <3>2 DEF Destroy
      <4> QED BY <2>1, <3>1, <3>2, <4>1
    <3>3. CASE lockfile[o] \in File
      <4>1. \A f \in File \ {lockfile[o]} : Owned(f)' => Owned(f)
        BY <3>1 DEF Owned
      <4> QED BY <2>5, <2>6, <3>1, <3>3, <4>1 DEF Destroy
    <3> QED BY <3>2, <3>3
  <2>7. ASSUME NEW o \in Object, NEW rhs \in Object, MoveConstruct(rhs, o)
        PROVE  UNCHANGED holder
    <3> SUFFICES ASSUME NEW f \in File PROVE holder[f]' = holder[f]
      BY <2>0
    <3>1. ASSUME NEW x \in Object, Owns(x, f)
          PROVE  \E y \in Object : Owns(y, f)' /\ proc[y] = proc[x]
      BY <2>7, <3>1 DEF MoveConstruct, Owns
    <3>2. Owned(f)' => Owned(f)
      BY <2>7 DEF MoveConstruct, Owned, Owns
    <3>3. exists' = exists
      BY <2>7 DEF MoveConstruct
    <3> QED BY <3>1, <3>2, <3>3, HolderStays
  <2>8. ASSUME NEW o \in Object, NEW rhs \in Object, MoveAssign(rhs, o)
        PROVE  Abstract!MutexNext \/ UNCHANGED holder
    <3>1. ASSUME NEW f \in File, f # lockfile[o], NEW x \in Object, Owns(x, f)
          PROVE  \E y \in Object : Owns(y, f)' /\ proc[y] = proc[x]
      BY <2>8, <3>1 DEF MoveAssign, Owns
    <3>2. ASSUME NEW f \in File PROVE Owned(f)' => Owned(f)
      BY <2>8 DEF MoveAssign, Owned, Owns
    <3>3. CASE lockfile[o] = NoFile
      <4>1. exists' = exists
        BY <2>8, <3>3 DEF MoveAssign
      <4>2. ASSUME NEW f \in File PROVE holder[f]' = holder[f]
        BY <3>1, <3>2, <3>3, <4>1, HolderStays
      <4> QED BY <2>0, <4>2
    <3>4. CASE lockfile[o] \in File
      BY <2>5, <2>8, <3>1, <3>2, <3>4 DEF MoveAssign
    <3> QED BY <3>3, <3>4
  \* The files of a dead process, and the file whose close failed, are abandoned.
  <2>9. ASSUME NEW o \in Object, CloseFails(o)
        PROVE  Abstract!MutexNext \/ UNCHANGED holder
    <3>0. PICK f \in File : f = lockfile[o]
      BY <2>9 DEF CloseFails
    <3>1. Owns(o, f) /\ f \in exists'
      BY <2>9, <3>0 DEF CloseFails, Throw, Owns, HolderSpec
    <3>2. \A g \in File, x \in Object \ {o} : Owns(x, g)' <=> Owns(x, g)
      BY <2>9 DEF CloseFails, Throw, Owns
    <3>3. \A g \in File : ~Owns(o, g)'
      BY <2>9 DEF CloseFails, Throw, Owns
    <3>4. \A g \in File \ {f} : holder[g]' = holder[g]
      <4> SUFFICES ASSUME NEW g \in File \ {f} PROVE holder[g]' = holder[g]
        OBVIOUS
      <4>1. ~Owns(o, g) /\ (g \in exists' <=> g \in exists)
        BY <2>9, <3>0 DEF CloseFails, Throw, Owns
      <4>2. Owned(g)' => Owned(g)
        BY <3>2, <3>3 DEF Owned
      <4> QED BY <3>2, <4>1, <4>2, HolderStays
    <3>5. CASE Owned(f)'
      <4>1. PICK x \in Object : Owns(x, f)'
        BY <3>5 DEF Owned
      <4>2. Owns(x, f)
        BY <3>2, <3>3, <4>1
      <4>3. holder[f]' = holder[f]
        BY <3>1, <4>1, <4>2 DEF HolderSpec
      <4> QED BY <2>0, <3>4, <4>3
    <3>6. CASE ~Owned(f)'
      <4>1. holder[f] = proc[o] /\ holder[f]' = "abandoned"
        BY <3>1, <3>6 DEF HolderSpec
      <4>2. Abstract!Abandon(proc[o], {f})
        BY <3>4, <4>1 DEF HolderSpec, Abstract!Abandon
      <4> QED BY <3>0, <4>2 DEF Abstract!MutexNext
    <3> QED BY <3>5, <3>6
  <2>10. ASSUME NEW p \in Process, Crash(p)
         PROVE  Abstract!MutexNext
    <3> DEFINE F == {f \in File : \E o \in Object : proc[o] = p /\ Owns(o, f)}
    <3>0. PICK lost \in SUBSET File : lost = F
      OBVIOUS
    <3>1. \A f \in File, o \in Object : Owns(o, f)' <=> Owns(o, f) /\ proc[o] # p
      BY <2>10 DEF Crash, Owns
    <3>2. exists' = exists
      BY <2>10 DEF Crash
    <3>3. ASSUME NEW f \in lost
          PROVE  holder[f] = p /\ holder[f]' = "abandoned"
      <4>1. PICK o \in Object : proc[o] = p /\ Owns(o, f)
        BY <3>0, <3>3
      <4>2. holder[f] = p /\ f \in exists /\ f \in File
        BY <3>0, <4>1 DEF HolderSpec
      <4>3. ~Owned(f)'
        BY <3>1, <4>2 DEF Owned, HolderSpec
      <4> QED BY <3>2, <4>2, <4>3 DEF HolderSpec
    <3>4. ASSUME NEW f \in File \ lost
          PROVE  holder[f]' = holder[f]
      <4>1. \A o \in Object : Owns(o, f)' <=> Owns(o, f)
        BY <3>0, <3>1
      <4>2. Owned(f)' => Owned(f)
        BY <4>1 DEF Owned
      <4> QED BY <3>2, <4>1, <4>2, HolderStays
    <3>5. Abstract!Abandon(p, lost)
      <4>1. holder' = [f \in File |-> holder[f]']
        BY DEF HolderSpec
      <4>2. \A f \in File : holder[f]' = IF f \in lost THEN "abandoned" ELSE holder[f]
        BY <3>3, <3>4
      <4>3. holder' = [f \in File |-> IF f \in lost THEN "abandoned" ELSE holder[f]]
        BY <4>1, <4>2
      <4> QED BY <3>3, <4>3 DEF Abstract!Abandon
    <3> QED BY <3>5 DEF Abstract!MutexNext
  <2> HIDE DEF TypeInv, TypeOK, ConstructorHasFile
  <2> QED BY <2>2, <2>3, <2>4, <2>6, <2>7, <2>8, <2>9, <2>10
          DEF Next, Attempt, Close
<1>3. LockInv' => HolderSpec'
  BY HolderOf, PTL
<1> QED BY <1>1, <1>2, <1>3, HolderOf, LockInvariant, PTL
        DEF Spec, ImplementsMutex, Abstract!MutexSpec
=============================================================================
