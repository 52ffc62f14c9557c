---------------------------- MODULE FlockProofs ----------------------------
(***************************************************************************)
(* Theorems about Flock, for all processes, objects, files, descriptor     *)
(* limits and timeouts, whichever processes move objects or repeat timed   *)
(* out conversions.                                                        *)
(***************************************************************************)
EXTENDS Flock, TLAPS

LEMMA FdFacts == /\ Fd \subseteq Nat
                 /\ \A d \in Fd \cup {-1} : d < 0 <=> d = -1
                 /\ \A d \in Fd \cup {-1} : d >= 0 => d \in Fd
BY FdAssumption DEF Fd

LEMMA TypeStep == TypeOK /\ [Next]_vars => TypeOK'
<1> SUFFICES ASSUME TypeOK, [Next]_vars PROVE TypeOK'
  OBVIOUS
<1> USE ProcAssumption, FdFacts, BackoffAssumption, TimeoutAssumption
    DEF TypeOK, kernel, object, Phase, Type, None, noTimeout
<1>1. ASSUME NEW o \in Object,
             \/ DefaultConstruct(o)
             \/ \E f \in File, type \in Type, t \in Timeout :
                  Construct(o, f, type, t)
             \/ \E type \in Type : Convert(o, type) \/ ConvertToSame(o, type)
      PROVE  TypeOK'
  BY <1>1 DEF DefaultConstruct, Construct, Convert, ConvertToSame
<1>2. ASSUME NEW o \in Object, RetryOrThrow(o),
             ofile' = ofile, olock' \in [Process \X Fd -> Type \cup {None}]
      PROVE  TypeOK'
  <2>1. CASE Expired(o)
    <3>1. Throw(o) /\ granted' = granted
      BY <1>2, <2>1 DEF RetryOrThrow
    <3>2. elapsedTime' \in [Object -> Nat]
      BY <3>1 DEF Throw
    <3>3. CASE phase[o] = "acquiring"
      <4>1. Discard(o)
        BY <3>1, <3>3 DEF Throw
      <4>2. /\ phase' \in [Object -> Phase] /\ lockType' \in [Object -> Type]
            /\ lockfile' \in [Object -> File \cup {NoFile}]
        BY <4>1 DEF Discard
      <4>3. /\ fileFd' \in [Object -> Fd \cup {-1}]
            /\ timeoutTime' \in [Object -> Int]
        BY <4>1 DEF Discard
      <4> QED BY <1>2, <3>1, <3>2, <4>2, <4>3
    <3>4. CASE phase[o] # "acquiring"
      BY <1>2, <3>1, <3>2, <3>4 DEF Throw
    <3> QED BY <3>3, <3>4
  <2>2. CASE ~Expired(o)
    <3>1. UNCHANGED <<phase, lockfile, lockType, fileFd, timeoutTime, granted>>
      BY <1>2, <2>2 DEF RetryOrThrow
    <3>2. elapsedTime' \in [Object -> Nat]
      BY <1>2, <2>2 DEF RetryOrThrow
    <3> QED BY <1>2, <3>1, <3>2
  <2> QED BY <2>1, <2>2
<1>3. ASSUME NEW o \in Object, TryOpen(o) PROVE TypeOK'
  <2>1. CASE Open(o)
    BY <2>1 DEF Open
  <2>2. CASE OpenFails(o)
    BY <1>2, <2>2 DEF OpenFails
  <2> QED BY <1>3, <2>1, <2>2 DEF TryOpen
<1>4. ASSUME NEW o \in Object, TryLock(o) PROVE TypeOK'
  <2>1. CASE Lock(o)
    BY <2>1 DEF Lock, Locks
  <2>2. CASE LockConflicts(o) \/ LockFails(o)
    <3>1. RetryOrThrow(o) /\ ofile' = ofile
      BY <2>2 DEF LockConflicts, LockFails
    <3>2. olock' \in [Process \X Fd -> Type \cup {None}]
      BY <2>2 DEF LockConflicts, LockFails, WouldBlock
    <3> QED BY <1>2, <3>1, <3>2
  <2> QED BY <1>4, <2>1, <2>2 DEF TryLock
<1>5. ASSUME NEW o \in Object, Release(o)
      PROVE  /\ ofile' \in [Process \X Fd -> File \cup {NoFile}]
             /\ olock' \in [Process \X Fd -> Type \cup {None}]
  BY <1>5 DEF Release
<1>6. ASSUME NEW o \in Object, Destroy(o) PROVE TypeOK'
  <2>1. Release(o) /\ Discard(o) /\ UNCHANGED elapsedTime
        /\ granted' = [granted EXCEPT ![o] = None]
    BY <1>6 DEF Destroy
  <2>2. /\ ofile' \in [Process \X Fd -> File \cup {NoFile}]
        /\ olock' \in [Process \X Fd -> Type \cup {None}]
    BY <1>5, <2>1
  <2> QED BY <2>1, <2>2 DEF Discard
<1>7. ASSUME NEW o \in Object, NEW rhs \in Object,
             MoveConstruct(rhs, o) \/ MoveAssign(rhs, o)
      PROVE  TypeOK'
  <2>1. TakeOver(rhs, o)
    BY <1>7 DEF MoveConstruct, MoveAssign
  <2>2. /\ ofile' \in [Process \X Fd -> File \cup {NoFile}]
        /\ olock' \in [Process \X Fd -> Type \cup {None}]
    BY <1>5, <1>7 DEF MoveConstruct, MoveAssign
  <2> QED BY <2>1, <2>2 DEF TakeOver
<1>8. ASSUME NEW p \in Process, Crash(p) PROVE TypeOK'
  BY <1>8 DEF Crash
<1>9. CASE UNCHANGED vars
  BY <1>9 DEF vars
<1> QED BY <1>1, <1>3, <1>4, <1>6, <1>7, <1>8, <1>9 DEF Next

\* Every variable keeps the values the C++ types and the kernel give it.
THEOREM TypeCorrect == Spec => []TypeOK
<1>1. Init => TypeOK
  BY DEF Init, TypeOK, Phase, Type, None, noTimeout
<1> QED BY <1>1, TypeStep, PTL DEF Spec

-----------------------------------------------------------------------------
(* The inductive invariant behind PromiseKept.                             *)

\* The kernel's side: a closed descriptor has no lock, and a write lock
\* excludes every other lock of its file.
KernelInv ==
  /\ \A pd \in Process \X Fd : ofile[pd] = NoFile => olock[pd] = None
  /\ \A pd, qe \in Process \X Fd :
       /\ pd # qe /\ ofile[pd] = ofile[qe]
       /\ olock[pd] # None /\ olock[qe] # None
       => olock[pd] = "readLock"

\* No other object refers to the descriptor of o.
Unshared(o) ==
  \A x \in Object \ {o} : proc[x] = proc[o] => fileFd[x] # fileFd[o]

\* The object's side: its descriptor is its own and open on its file, has no
\* lock before the constructor returns, and has the promised lock after it.
ObjectInv(o) ==
  /\ phase[o] = "none" => fileFd[o] = -1
  /\ Waiting(o) => lockfile[o] # NoFile
  /\ fileFd[o] >= 0 => /\ lockfile[o] # NoFile
                       /\ ofile[Description(o)] = lockfile[o]
                       /\ Unshared(o)
  /\ phase[o] = "acquiring" /\ fileFd[o] >= 0 => olock[Description(o)] = None
  /\ granted[o] # None => /\ phase[o] = "live"
                          /\ fileFd[o] >= 0
                          /\ granted[o] = lockType[o]
                          /\ olock[Description(o)] = granted[o]

Inv ==
  /\ KernelInv
  /\ \A o \in CarefulObject : ObjectInv(o)
  /\ LeakedHoldsNothing

LEMMA CarefulFacts ==
  ASSUME NEW x \in CarefulObject
  PROVE  x \in Object /\ proc[x] \in CarefulProcess /\ proc[x] \in Process
BY DEF CarefulObject, CarefulProcess

\* o opens a descriptor that was free.
Opens(o) ==
  /\ fileFd[o] = -1 /\ fileFd'[o] \in Fd
  /\ ofile[<<proc[o], fileFd'[o]>>] = NoFile

\* A step of o changes no other object and no other descriptor than its own,
\* and leaves its own only without a lock.
StepOf(o) ==
  /\ \A x \in Object \ {o} :
       /\ phase'[x] = phase[x] /\ granted'[x] = granted[x]
       /\ lockfile'[x] = lockfile[x] /\ lockType'[x] = lockType[x]
       /\ fileFd'[x] = fileFd[x]
  /\ \A p \in Process, d \in Fd :
       \/ p = proc[o] /\ d \in {fileFd[o], fileFd'[o]}
       \/ ofile'[<<p, d>>] = ofile[<<p, d>>] /\ olock'[<<p, d>>] = olock[<<p, d>>]
  /\ fileFd'[o] \in {-1, fileFd[o]} \/ Opens(o)
  /\ proc[o] \in CarefulProcess /\ fileFd[o] >= 0 /\ fileFd'[o] # fileFd[o]
       => olock'[<<proc[o], fileFd[o]>>] = None

\* Such a step keeps the invariant of everything else.
LEMMA Frame ==
  ASSUME TypeOK, TypeOK', Inv, NEW o \in Object, StepOf(o), KernelInv',
         o \in CarefulObject => ObjectInv(o)'
  PROVE  Inv'
<1>1. ASSUME NEW x \in CarefulObject, x # o, fileFd[x] >= 0
      PROVE  /\ fileFd[x] \in Fd /\ proc[x] \in Process /\ x \in Object
             /\ fileFd'[x] = fileFd[x]
             /\ proc[x] = proc[o] => fileFd[x] \notin {fileFd[o], fileFd'[o]}
  <2>1. fileFd[x] \in Fd /\ proc[x] \in Process /\ x \in Object
    BY <1>1, CarefulFacts, FdFacts DEF TypeOK
  <2>2. fileFd'[x] = fileFd[x]
    BY <1>1, <2>1 DEF StepOf
  <2>3. /\ ofile[<<proc[x], fileFd[x]>>] # NoFile
        /\ proc[x] = proc[o] => fileFd[x] # fileFd[o]
    BY <1>1 DEF Inv, ObjectInv, Unshared, Description
  <2>4. proc[x] = proc[o] => fileFd[x] # fileFd'[o]
    BY <1>1, <2>1, <2>3 DEF StepOf, Opens
  <2> QED BY <2>1, <2>2, <2>3, <2>4
<1>2. ASSUME NEW x \in CarefulObject, x # o
      PROVE  ObjectInv(x)'
  <2>1. /\ phase'[x] = phase[x] /\ granted'[x] = granted[x]
        /\ lockfile'[x] = lockfile[x] /\ lockType'[x] = lockType[x]
        /\ fileFd'[x] = fileFd[x]
    BY <1>2, CarefulFacts DEF StepOf
  <2>2. ASSUME fileFd[x] >= 0
        PROVE  /\ ofile'[<<proc[x], fileFd[x]>>] = ofile[<<proc[x], fileFd[x]>>]
               /\ olock'[<<proc[x], fileFd[x]>>] = olock[<<proc[x], fileFd[x]>>]
    BY <1>1, <1>2, <2>2 DEF StepOf
  <2>3. ASSUME fileFd[x] >= 0 PROVE Unshared(x)'
    <3>1. Unshared(x)
      BY <2>3 DEF Inv, ObjectInv
    <3>2. ASSUME NEW y \in Object \ {x}, proc[y] = proc[x]
          PROVE  fileFd'[y] # fileFd'[x]
      BY <1>1, <1>2, <2>1, <2>3, <3>1, <3>2 DEF StepOf, Unshared
    <3> QED BY <3>2 DEF Unshared
  <2>4. ObjectInv(x)
    BY DEF Inv
  <2> QED BY <2>1, <2>2, <2>3, <2>4 DEF ObjectInv, Waiting, Description
<1>3. LeakedHoldsNothing'
  <2> SUFFICES ASSUME NEW p \in CarefulProcess, NEW d \in Fd,
                      \A x \in Object : ~(proc[x] = p /\ fileFd'[x] = d)
               PROVE  olock'[<<p, d>>] = None
    BY DEF LeakedHoldsNothing, Referenced, Refers
  <2>0. p \in Process /\ d >= 0
    BY FdFacts DEF CarefulProcess
  <2>1. CASE p = proc[o] /\ d = fileFd[o]
    BY <2>0, <2>1 DEF StepOf
  <2>2. CASE ~(p = proc[o] /\ d = fileFd[o])
    <3>1. \A x \in Object : ~(proc[x] = p /\ fileFd[x] = d)
      BY <2>2 DEF StepOf
    <3>2. olock[<<p, d>>] = None
      BY <3>1 DEF Inv, LeakedHoldsNothing, Referenced, Refers
    <3> QED BY <2>0, <2>2, <3>2 DEF StepOf
  <2> QED BY <2>1, <2>2
<1> QED BY <1>2, <1>3 DEF Inv

\* Steps that grant no lock keep the kernel's invariant.
LEMMA NothingGranted ==
  ASSUME KernelInv,
         \A pd \in Process \X Fd :
           \/ ofile'[pd] = ofile[pd] /\ olock'[pd] = olock[pd]
           \/ olock'[pd] = None
  PROVE  KernelInv'
BY DEF KernelInv

LEMMA KernelStep == TypeOK /\ Inv /\ [Next]_vars => KernelInv'
<1> SUFFICES ASSUME TypeOK, Inv, [Next]_vars PROVE KernelInv'
  OBVIOUS
<1>0. KernelInv
  BY DEF Inv
<1>1. ASSUME UNCHANGED kernel PROVE KernelInv'
  BY <1>0, <1>1, NothingGranted DEF kernel
<1>2. ASSUME NEW o \in Object,
             \/ DefaultConstruct(o)
             \/ \E f \in File, type \in Type, t \in Timeout :
                  Construct(o, f, type, t)
             \/ \E type \in Type : Convert(o, type) \/ ConvertToSame(o, type)
             \/ OpenFails(o) \/ LockFails(o)
             \/ \E rhs \in Object : MoveConstruct(rhs, o)
      PROVE  KernelInv'
  BY <1>1, <1>2 DEF DefaultConstruct, Construct, Convert, ConvertToSame,
                    OpenFails, LockFails, MoveConstruct
<1>3. ASSUME NEW o \in Object, Open(o) PROVE KernelInv'
  <2>1. PICK d \in Fd : /\ ofile[<<proc[o], d>>] = NoFile
                        /\ ofile' = [ofile EXCEPT ![<<proc[o], d>>] = lockfile[o]]
    BY <1>3 DEF Open, IsLowestFree
  <2>2. olock' = olock /\ <<proc[o], d>> \in Process \X Fd
    BY <1>3, ProcAssumption DEF Open
  <2>3. olock[<<proc[o], d>>] = None
    BY <1>0, <2>1, <2>2 DEF KernelInv
  <2> QED BY <1>0, <2>1, <2>2, <2>3, NothingGranted DEF TypeOK
<1>4. ASSUME NEW o \in Object, Lock(o) PROVE KernelInv'
  <2> DEFINE pd == <<proc[o], fileFd[o]>>
  <2>1. PICK type \in Type : /\ type = lockType[o]
                             /\ ofile[pd] # NoFile
                             /\ olock[pd] = type \/ ~Conflict(pd, type)
                             /\ olock' = [olock EXCEPT ![pd] = type]
    BY <1>4 DEF Lock, Locks, Description, TypeOK
  <2>2. ofile' = ofile
    BY <1>4 DEF Lock
  <2>3. CASE olock[pd] = type
    <3>1. olock' = olock
      BY <2>1, <2>3 DEF TypeOK
    <3> QED BY <1>1, <2>2, <3>1 DEF kernel
  <2>4. CASE ~Conflict(pd, type)
    <3>1. \A qe \in (Process \X Fd) \ {pd} :
            ofile[qe] = ofile[pd] /\ olock[qe] # None
              => olock[qe] # "writeLock" /\ type # "writeLock"
      BY <2>4 DEF Conflict
    <3> HIDE DEF pd
    <3>2. \A qe \in Process \X Fd :
            olock'[qe] = IF qe = pd THEN type ELSE olock[qe]
      BY <2>1 DEF TypeOK
    <3> QED BY <1>0, <2>1, <2>2, <3>1, <3>2 DEF KernelInv, TypeOK, Type
  <2> QED BY <2>1, <2>3, <2>4
<1>5. ASSUME NEW o \in Object, LockConflicts(o) PROVE KernelInv'
  BY <1>0, <1>5, NothingGranted DEF LockConflicts, WouldBlock, TypeOK
<1>6. ASSUME NEW o \in Object, Release(o) PROVE KernelInv'
  BY <1>0, <1>1, <1>6, NothingGranted DEF Release, TypeOK
<1>7. ASSUME NEW p \in Process, Crash(p) PROVE KernelInv'
  BY <1>0, <1>7, NothingGranted DEF Crash, TypeOK
<1>8. CASE UNCHANGED vars
  BY <1>1, <1>8 DEF vars
<1> QED BY <1>2, <1>3, <1>4, <1>5, <1>6, <1>7, <1>8
        DEF Next, TryOpen, TryLock, Destroy, MoveAssign

\* What careless processes do to their own objects and descriptors is harmless.
LEMMA CarefulStays ==
  ASSUME TypeOK, Inv, KernelInv',
         \A p \in CarefulProcess, d \in Fd :
           /\ ofile'[<<p, d>>] = ofile[<<p, d>>]
           /\ olock'[<<p, d>>] = olock[<<p, d>>],
         \A x \in Object : proc[x] \in CarefulProcess =>
           /\ phase'[x] = phase[x] /\ granted'[x] = granted[x]
           /\ lockfile'[x] = lockfile[x] /\ lockType'[x] = lockType[x]
           /\ fileFd'[x] = fileFd[x]
  PROVE  Inv'
<1>1. ASSUME NEW x \in CarefulObject PROVE ObjectInv(x)'
  <2>1. x \in Object /\ proc[x] \in CarefulProcess /\ ObjectInv(x)
    BY CarefulFacts DEF Inv
  <2>2. fileFd[x] >= 0 => fileFd[x] \in Fd
    BY <2>1, FdFacts DEF TypeOK
  <2>3. Unshared(x)' <=> Unshared(x)
    BY <2>1 DEF Unshared
  <2> QED BY <2>1, <2>2, <2>3 DEF ObjectInv, Waiting, Description
<1>2. LeakedHoldsNothing'
  BY DEF Inv, LeakedHoldsNothing, Referenced, Refers
<1> QED BY <1>1, <1>2 DEF Inv

LEMMA InvStep == TypeOK /\ TypeOK' /\ Inv /\ [Next]_vars => Inv'
<1> SUFFICES ASSUME TypeOK, TypeOK', Inv, [Next]_vars PROVE Inv'
  OBVIOUS
<1>0. KernelInv'
  BY KernelStep
<1>1. ASSUME NEW o \in CarefulObject PROVE ObjectInv(o)
  BY DEF Inv
\* No call of o: the members change, the descriptor stays.
<1>2. ASSUME NEW o \in Object,
             \/ DefaultConstruct(o)
             \/ \E f \in File, type \in Type, t \in Timeout :
                  Construct(o, f, type, t)
             \/ \E type \in Type : Convert(o, type) \/ ConvertToSame(o, type)
      PROVE  Inv'
  <2>1. StepOf(o)
    BY <1>2 DEF DefaultConstruct, Construct, Convert, ConvertToSame, kernel,
                object, StepOf, TypeOK
  <2>2. ASSUME o \in CarefulObject PROVE ObjectInv(o)'
    <3>1. kernel' = kernel /\ fileFd' = fileFd
      BY <1>2 DEF DefaultConstruct, Construct, Convert, ConvertToSame, object
    <3>2. ObjectInv(o) /\ proc[o] \notin Retrier
      BY <1>1, <2>2 DEF CarefulObject, CarefulProcess
    <3>3. Unshared(o)' <=> Unshared(o)
      BY <3>1 DEF Unshared
    <3> QED BY <1>2, <3>1, <3>2, <3>3, FileAssumption, FdFacts
            DEF DefaultConstruct, Construct, Convert, ConvertToSame, object,
                kernel, ObjectInv, Waiting, Description, TypeOK
  <2> QED BY <1>0, <2>1, <2>2, Frame
<1>3. ASSUME NEW o \in Object, Open(o) PROVE Inv'
  <2>0. PICK d \in Fd : /\ ofile[<<proc[o], d>>] = NoFile
                        /\ ofile' = [ofile EXCEPT ![<<proc[o], d>>] = lockfile[o]]
                        /\ fileFd' = [fileFd EXCEPT ![o] = d]
    BY <1>3 DEF Open, IsLowestFree
  <2>1. fileFd[o] = -1 /\ fileFd'[o] = d
    BY <1>3, <2>0, FdFacts DEF Open, TypeOK
  <2>2. StepOf(o)
    BY <1>3, <2>0, <2>1 DEF Open, StepOf, Opens, TypeOK
  <2>3. ASSUME o \in CarefulObject PROVE ObjectInv(o)'
    <3>1. ObjectInv(o) /\ proc[o] \in Process /\ d >= 0 /\ Waiting(o)
      BY <1>1, <1>3, <2>3, CarefulFacts, FdFacts DEF Open
    <3>2. Unshared(o)'
      <4> SUFFICES ASSUME NEW x \in Object \ {o}, proc[x] = proc[o], fileFd[x] = d
                   PROVE  FALSE
        BY <2>0 DEF Unshared, TypeOK
      <4>1. x \in CarefulObject
        BY <2>3 DEF CarefulObject
      <4> QED BY <1>1, <2>0, <3>1, <4>1 DEF ObjectInv, Description
    <3>3. ofile'[<<proc[o], d>>] = lockfile[o] /\ olock'[<<proc[o], d>>] = None
      BY <1>0, <1>3, <2>0, <3>1 DEF Open, TypeOK, Inv, KernelInv
    <3> QED BY <1>3, <2>1, <3>1, <3>2, <3>3
            DEF Open, ObjectInv, Waiting, Description
  <2> QED BY <1>0, <2>2, <2>3, Frame
<1>4. ASSUME NEW o \in Object, Lock(o) PROVE Inv'
  <2>1. StepOf(o)
    BY <1>4 DEF Lock, Locks, Description, object, StepOf, TypeOK
  <2>2. ASSUME o \in CarefulObject PROVE ObjectInv(o)'
    <3>1. ObjectInv(o) /\ proc[o] \in Process /\ fileFd[o] \in Fd /\ fileFd[o] >= 0
      BY <1>1, <1>4, <2>2, CarefulFacts, FdFacts DEF Lock, TypeOK
    <3>2. olock'[<<proc[o], fileFd[o]>>] = lockType[o]
      BY <1>4, <3>1 DEF Lock, Locks, Description, TypeOK
    <3>3. Unshared(o)'
      BY <1>4, <3>1 DEF Lock, object, ObjectInv, Unshared
    <3> QED BY <1>4, <3>1, <3>2, <3>3
            DEF Lock, object, ObjectInv, Waiting, Description, TypeOK
  <2> QED BY <1>0, <2>1, <2>2, Frame
<1>5. ASSUME NEW o \in Object, OpenFails(o) \/ LockFails(o) \/ LockConflicts(o)
      PROVE  Inv'
  <2>1. /\ RetryOrThrow(o) /\ Waiting(o) /\ ofile' = ofile
        /\ olock' = olock \/ olock' = [olock EXCEPT ![Description(o)] = None]
    BY <1>5 DEF OpenFails, LockFails, LockConflicts, WouldBlock, kernel
  <2>2. CASE Expired(o) /\ phase[o] = "acquiring"
    <3>1. Discard(o) /\ granted' = granted
      BY <2>1, <2>2 DEF RetryOrThrow, Throw
    <3>2. StepOf(o)
      BY <1>1, <2>1, <2>2, <3>1, FdFacts
         DEF Discard, StepOf, Description, TypeOK, ObjectInv, CarefulObject
    <3>3. ASSUME o \in CarefulObject PROVE ObjectInv(o)'
      BY <1>1, <2>2, <3>1, <3>3 DEF Discard, ObjectInv, Waiting, TypeOK
    <3> QED BY <1>0, <3>2, <3>3, Frame
  <2>3. CASE ~(Expired(o) /\ phase[o] = "acquiring")
    <3>1. /\ UNCHANGED <<lockfile, lockType, fileFd, timeoutTime, granted>>
          /\ phase' = phase \/ phase' = [phase EXCEPT ![o] = "live"]
      BY <2>1, <2>3 DEF RetryOrThrow, Throw, object
    <3>2. StepOf(o)
      BY <2>1, <3>1 DEF StepOf, Description, TypeOK
    <3>3. ASSUME o \in CarefulObject PROVE ObjectInv(o)'
      <4>1. ObjectInv(o) /\ granted[o] = None
        BY <1>1, <2>1, <3>3 DEF ObjectInv, Waiting
      <4>2. Unshared(o)' <=> Unshared(o)
        BY <3>1 DEF Unshared
      <4>3. phase'[o] \in {phase[o], "live"}
        BY <3>1 DEF TypeOK
      <4>4. fileFd[o] >= 0 => olock'[Description(o)] \in {olock[Description(o)], None}
        BY <2>1 DEF TypeOK
      <4> QED BY <2>1, <3>1, <4>1, <4>2, <4>3, <4>4
              DEF ObjectInv, Waiting, Description, TypeOK
    <3> QED BY <1>0, <3>2, <3>3, Frame
  <2> QED BY <2>2, <2>3
<1>6. ASSUME NEW o \in Object, Destroy(o) PROVE Inv'
  <2>0. Release(o) /\ Discard(o) /\ granted' = [granted EXCEPT ![o] = None]
    BY <1>6 DEF Destroy
  <2>1. StepOf(o)
    <3>1. /\ \A p \in Process, d \in Fd :
                \/ p = proc[o] /\ d = fileFd[o]
                \/ /\ ofile'[<<p, d>>] = ofile[<<p, d>>]
                   /\ olock'[<<p, d>>] = olock[<<p, d>>]
          /\ fileFd[o] >= 0 => olock'[<<proc[o], fileFd[o]>>] = None
      <4>1. CASE fileFd[o] >= 0
        <5>1. <<proc[o], fileFd[o]>> \in Process \X Fd
          BY <4>1, ProcAssumption, FdFacts DEF TypeOK
        <5> QED BY <2>0, <4>1, <5>1 DEF Release, Description, TypeOK
      <4>2. CASE ~(fileFd[o] >= 0)
        BY <2>0, <4>2 DEF Release, kernel
      <4> QED BY <4>1, <4>2
    <3> QED BY <2>0, <3>1 DEF Discard, StepOf, TypeOK
  <2>2. ASSUME o \in CarefulObject PROVE ObjectInv(o)'
    BY <1>6 DEF Destroy, Discard, ObjectInv, Waiting, TypeOK
  <2> QED BY <1>0, <2>1, <2>2, Frame
<1>7. ASSUME NEW o \in Object, NEW rhs \in Object,
             MoveConstruct(rhs, o) \/ MoveAssign(rhs, o)
      PROVE  Inv'
  <2>1. /\ proc[o] \in Mover /\ proc[rhs] = proc[o] /\ TakeOver(rhs, o)
        /\ Release(o) \/ UNCHANGED kernel
    BY <1>7 DEF MoveConstruct, MoveAssign
  <2>2. \A p \in CarefulProcess, d \in Fd :
          /\ ofile'[<<p, d>>] = ofile[<<p, d>>]
          /\ olock'[<<p, d>>] = olock[<<p, d>>]
    BY <2>1 DEF CarefulProcess, Release, Description, kernel, TypeOK
  <2>3. \A x \in Object : proc[x] \in CarefulProcess =>
          /\ phase'[x] = phase[x] /\ granted'[x] = granted[x]
          /\ lockfile'[x] = lockfile[x] /\ lockType'[x] = lockType[x]
          /\ fileFd'[x] = fileFd[x]
    BY <2>1 DEF CarefulProcess, TakeOver, TypeOK
  <2> QED BY <1>0, <2>2, <2>3, CarefulStays
<1>8. ASSUME NEW p \in Process, Crash(p) PROVE Inv'
  <2>1. ASSUME NEW x \in CarefulObject PROVE ObjectInv(x)'
    <3>0. x \in Object /\ proc[x] \in Process /\ ObjectInv(x)
      BY <1>1, CarefulFacts
    <3>1. CASE proc[x] = p
      BY <1>8, <3>0, <3>1 DEF Crash, ObjectInv, Waiting
    <3>2. CASE proc[x] # p
      <4>1. Unshared(x)' <=> Unshared(x)
        BY <1>8, <3>0, <3>2 DEF Crash, Unshared
      <4>2. fileFd[x] >= 0 => <<proc[x], fileFd[x]>> \in Process \X Fd
        BY <3>0, FdFacts DEF TypeOK
      <4> QED BY <1>8, <3>0, <3>2, <4>1, <4>2
              DEF Crash, ObjectInv, Waiting, Description
    <3> QED BY <3>1, <3>2
  <2>2. LeakedHoldsNothing'
    <3> SUFFICES ASSUME NEW q \in CarefulProcess, NEW d \in Fd,
                        \A x \in Object : ~(proc[x] = q /\ fileFd'[x] = d)
                 PROVE  olock'[<<q, d>>] = None
      BY DEF LeakedHoldsNothing, Referenced, Refers
    <3>1. q \in Process
      BY DEF CarefulProcess
    <3>2. CASE q = p
      BY <1>8, <3>1, <3>2 DEF Crash
    <3>3. CASE q # p
      BY <1>8, <3>1, <3>3
         DEF Crash, Inv, LeakedHoldsNothing, Referenced, Refers
    <3> QED BY <3>2, <3>3
  <2> QED BY <1>0, <2>1, <2>2 DEF Inv
<1>9. CASE UNCHANGED vars
  BY <1>9 DEF vars, kernel, object, Inv, KernelInv, ObjectInv, Waiting,
              Description, Unshared, LeakedHoldsNothing, Referenced, Refers
<1> QED BY <1>2, <1>3, <1>4, <1>5, <1>6, <1>7, <1>8, <1>9
        DEF Next, TryOpen, TryLock

LEMMA Invariant == Spec => [](TypeOK /\ Inv)
<1>1. Init => Inv
  <2> SUFFICES ASSUME Init PROVE Inv
    OBVIOUS
  <2>1. KernelInv /\ LeakedHoldsNothing
    BY DEF Init, KernelInv, LeakedHoldsNothing, CarefulProcess
  <2>2. ASSUME NEW o \in CarefulObject PROVE ObjectInv(o)
    BY CarefulFacts DEF Init, ObjectInv, Waiting
  <2> QED BY <2>1, <2>2 DEF Inv
<1> QED BY <1>1, InvStep, TypeCorrect, PTL DEF Spec

\* Whatever moves and retries the other processes use, a lock that was promised
\* to a careful client is in force.
THEOREM PromisesAreKept == Spec => []PromiseKept
<1>1. Inv => PromiseKept
  BY DEF Inv, ObjectInv, PromiseKept, Holds
<1> QED BY <1>1, Invariant, PTL

\* A descriptor leaked by a timed out constructor locks nothing.
THEOREM LeaksAreHarmless == Spec => []LeakedHoldsNothing
BY Invariant, PTL DEF Inv

-----------------------------------------------------------------------------
(* What a step may not do *)

\* A careful process loses an open descriptor, with no object left to close it,
\* only by the exception of the constructor that opened it.
THEOREM ConstructorsLeakOnly == Spec => OnlyConstructorsLeak
<1> DEFINE Kept ==
      \A p \in CarefulProcess, d \in Fd :
        Referenced(p, d) /\ ofile'[<<p, d>>] # NoFile =>
          \/ Referenced(p, d)'
          \/ \E o \in Object : Refers(o, p, d) /\ phase[o] = "acquiring"
                               /\ phase'[o] = "none"
<1>1. TypeOK /\ [Next]_vars => [Kept]_vars
  <2> SUFFICES ASSUME TypeOK, Next, NEW p \in CarefulProcess, NEW d \in Fd,
                      Referenced(p, d), ofile'[<<p, d>>] # NoFile,
                      \A o \in Object : Refers(o, p, d) /\ phase[o] = "acquiring"
                                          => phase'[o] # "none"
               PROVE  Referenced(p, d)'
    OBVIOUS
  <2>0. /\ p \in Process /\ p \notin Mover
        /\ <<p, d>> \in Process \X Fd /\ d >= 0
    BY FdFacts DEF CarefulProcess
  <2>1. PICK owner \in Object : proc[owner] = p /\ fileFd[owner] = d
    BY DEF Referenced, Refers
  <2>2. Description(owner) = <<p, d>>
    BY <2>1 DEF Description
  <2>3. SUFFICES fileFd'[owner] = d
    BY <2>1 DEF Referenced, Refers
  <2> USE FdFacts DEF TypeOK
  <2>4. ASSUME NEW o \in Object,
               \/ DefaultConstruct(o)
               \/ \E f \in File, type \in Type, t \in Timeout :
                    Construct(o, f, type, t)
               \/ \E type \in Type : Convert(o, type) \/ ConvertToSame(o, type)
        PROVE  fileFd'[owner] = d
    BY <2>1, <2>4 DEF DefaultConstruct, Construct, Convert, ConvertToSame, object
  <2>5. ASSUME NEW o \in Object, RetryOrThrow(o) PROVE fileFd'[owner] = d
    <3>1. phase \in [Object -> Phase]
      OBVIOUS
    <3>2. CASE o = owner /\ Expired(o) /\ phase[o] = "acquiring"
      <4>1. phase'[o] = "none"
        BY <2>5, <3>1, <3>2 DEF RetryOrThrow, Throw, Discard
      <4> QED BY <2>1, <3>2, <4>1 DEF Refers
    <3>3. CASE ~(o = owner /\ Expired(o) /\ phase[o] = "acquiring")
      BY <2>1, <2>5, <3>3 DEF RetryOrThrow, Throw, Discard, object
    <3> QED BY <3>2, <3>3
  <2>6. ASSUME NEW o \in Object, TryOpen(o) PROVE fileFd'[owner] = d
    <3>1. CASE Open(o)
      BY <2>0, <2>1, <3>1 DEF Open
    <3>2. CASE OpenFails(o)
      BY <2>5, <3>2 DEF OpenFails
    <3> QED BY <2>6, <3>1, <3>2 DEF TryOpen
  <2>7. ASSUME NEW o \in Object, TryLock(o) PROVE fileFd'[owner] = d
    <3>1. CASE Lock(o)
      BY <2>1, <3>1 DEF Lock, object
    <3>2. CASE LockConflicts(o) \/ LockFails(o)
      BY <2>5, <3>2 DEF LockConflicts, LockFails
    <3> QED BY <2>7, <3>1, <3>2 DEF TryLock
  <2>8. ASSUME NEW o \in Object, Destroy(o) PROVE fileFd'[owner] = d
    <3>1. CASE o = owner
      BY <2>0, <2>1, <2>2, <2>8, <3>1 DEF Destroy, Release
    <3>2. CASE o # owner
      BY <2>1, <2>8, <3>2 DEF Destroy, Discard
    <3> QED BY <3>1, <3>2
  <2>9. ASSUME NEW o \in Object, NEW rhs \in Object,
               MoveConstruct(rhs, o) \/ MoveAssign(rhs, o)
        PROVE  fileFd'[owner] = d
    <3>1. o # owner
      BY <2>0, <2>1, <2>9 DEF MoveConstruct, MoveAssign
    <3> QED BY <2>1, <2>9, <3>1 DEF MoveConstruct, MoveAssign, TakeOver
  <2>10. ASSUME NEW q \in Process, Crash(q) PROVE fileFd'[owner] = d
    BY <2>0, <2>1, <2>10 DEF Crash
  <2> HIDE DEF TypeOK
  <2> QED BY <2>4, <2>6, <2>7, <2>8, <2>9, <2>10 DEF Next
<1> QED BY <1>1, TypeCorrect, PTL DEF Spec, OnlyConstructorsLeak

-----------------------------------------------------------------------------
(* Refinement of RWLock *)

\* The objects of careful processes implement a readers-writer lock, whatever
\* the other processes do to their own locks.
THEOREM Refinement == Spec => ImplementsRWLock
<1>1. Init => Abstract!RWInit
  BY CarefulFacts DEF Init, Abstract!RWInit, held
<1>2. TypeOK /\ Inv /\ TypeOK' /\ Inv' /\ [Next]_vars => [Abstract!RWNext]_held
  <2> SUFFICES ASSUME TypeOK, Inv, TypeOK', Inv', [Next]_vars
               PROVE  Abstract!RWNext \/ UNCHANGED held
    OBVIOUS
  \* Steps after which each object has what it had or nothing drop locks.
  <2>1. ASSUME \A o \in CarefulObject :
                 \/ granted'[o] = None
                 \/ granted'[o] = granted[o] /\ lockfile'[o] = lockfile[o]
        PROVE  Abstract!RWNext
    <3> DEFINE D == {o \in CarefulObject : granted'[o] = None}
    <3>1. held' = [o \in CarefulObject |-> IF o \in D THEN << >> ELSE held[o]]
      BY <2>1 DEF held
    <3>2. Abstract!Drop(D)
      BY <3>1 DEF Abstract!Drop
    <3> QED BY <3>2 DEF Abstract!RWNext
  <2>2. ASSUME NEW o \in Object, Lock(o) PROVE Abstract!RWNext
    <3>1. /\ \A x \in Object \ {o} : granted'[x] = granted[x]
          /\ granted'[o] = lockType[o]
          /\ lockfile' = lockfile /\ fileFd' = fileFd /\ ofile' = ofile
      BY <2>2 DEF Lock, object, TypeOK
    <3>2. CASE o \notin CarefulObject
      BY <2>1, <3>1, <3>2, CarefulFacts
    <3>3. CASE o \in CarefulObject
      <4>1. /\ granted[o] = None /\ lockType[o] \in Type
            /\ lockfile[o] \in File
            /\ ofile'[Description(o)] = lockfile[o]
            /\ olock'[Description(o)] = lockType[o]
        <5>1. ObjectInv(o) /\ ObjectInv(o)' /\ Waiting(o) /\ fileFd[o] >= 0
          BY <2>2, <3>3 DEF Inv, Lock
        <5>2. granted[o] = None /\ lockType[o] \in Type /\ lockfile[o] \in File
          BY <5>1 DEF ObjectInv, Waiting, TypeOK
        <5>3. granted'[o] # None
          BY <3>1, <5>2 DEF Type, None
        <5> QED BY <3>1, <5>1, <5>2, <5>3 DEF ObjectInv, Description
      <4>2. ASSUME NEW x \in CarefulObject \ {o}, granted[x] # None,
                   lockfile[x] = lockfile[o]
            PROVE  granted[x] = "readLock" /\ lockType[o] = "readLock"
        <5>1. ObjectInv(x)' /\ ObjectInv(x) /\ granted'[x] = granted[x]
          BY <3>1, <4>2, CarefulFacts DEF Inv
        <5>2. /\ olock'[Description(x)] = granted[x]
              /\ ofile'[Description(x)] = lockfile[o]
              /\ fileFd[x] >= 0
          BY <3>1, <4>2, <5>1 DEF ObjectInv, Description
        <5>3. Description(x) # Description(o)
          BY <3>3, <4>2, <5>1, <5>2, CarefulFacts
             DEF ObjectInv, Unshared, Description
        <5>4. Description(x) \in Process \X Fd /\ Description(o) \in Process \X Fd
          BY <2>2, <3>3, <5>2, CarefulFacts, FdFacts DEF Description, Lock, TypeOK
        <5>5. KernelInv' /\ lockType[o] # None
          BY <4>1 DEF Inv, Type, None
        <5> QED BY <4>1, <4>2, <5>2, <5>3, <5>4, <5>5 DEF KernelInv
      <4>3. /\ held[o] = << >>
            /\ \A x \in CarefulObject : granted[x] # None =>
                 held[x] = <<lockfile[x], granted[x]>>
            /\ \A x \in CarefulObject : granted[x] = None => held[x] = << >>
        BY <3>3, <4>1 DEF held
      <4>4. Abstract!Compatible(o, lockfile[o], lockType[o])
        BY <4>2, <4>3 DEF Abstract!Compatible
      <4>5. held' = [held EXCEPT ![o] = <<lockfile[o], lockType[o]>>]
        <5>1. lockType[o] # None
          BY <4>1 DEF Type, None
        <5>2. \A x \in CarefulObject :
                (IF granted'[x] = None THEN << >> ELSE <<lockfile'[x], granted'[x]>>)
                = IF x = o THEN <<lockfile[o], lockType[o]>> ELSE held[x]
          BY <3>1, <4>3, <5>1, CarefulFacts
        <5> QED BY <5>2 DEF held
      <4> QED BY <3>3, <4>1, <4>3, <4>4, <4>5
              DEF Abstract!RWNext, Abstract!Grant, Abstract!Type, Type
    <3> QED BY <3>2, <3>3
  <2>3. ASSUME NEW o \in Object, ~Lock(o),
               \/ DefaultConstruct(o)
               \/ \E f \in File, type \in Type, t \in Timeout :
                    Construct(o, f, type, t)
               \/ TryOpen(o) \/ TryLock(o)
               \/ \E type \in Type : Convert(o, type) \/ ConvertToSame(o, type)
               \/ Destroy(o)
               \/ \E rhs \in Object : MoveConstruct(rhs, o) \/ MoveAssign(rhs, o)
        PROVE  Abstract!RWNext
    <3> SUFFICES ASSUME NEW x \in CarefulObject
                 PROVE  \/ granted'[x] = None
                        \/ granted'[x] = granted[x] /\ lockfile'[x] = lockfile[x]
      BY <2>1
    <3>0. /\ x \in Object /\ proc[x] \notin Mover /\ proc[x] \notin Retrier
          /\ granted[x] # None => phase[x] = "live" /\ granted[x] = lockType[x]
      BY CarefulFacts DEF CarefulProcess, Inv, ObjectInv
    <3>1. CASE DefaultConstruct(o) \/ \E f \in File, type \in Type, t \in Timeout :
                                      Construct(o, f, type, t)
      BY <3>0, <3>1 DEF DefaultConstruct, Construct, object, TypeOK
    <3>2. ASSUME RetryOrThrow(o), Waiting(o)
          PROVE  \/ granted'[x] = None
                 \/ granted'[x] = granted[x] /\ lockfile'[x] = lockfile[x]
      BY <3>0, <3>2 DEF RetryOrThrow, Throw, Discard, Waiting, object, TypeOK
    <3>3. CASE TryOpen(o) \/ TryLock(o)
      BY <2>3, <3>2, <3>3
         DEF TryOpen, TryLock, Open, OpenFails, LockConflicts, LockFails
    <3>4. CASE \E type \in Type : Convert(o, type) \/ ConvertToSame(o, type)
      BY <3>0, <3>4 DEF Convert, ConvertToSame, object, TypeOK
    <3>5. CASE Destroy(o)
      BY <3>0, <3>5 DEF Destroy, Discard, TypeOK
    <3>6. CASE \E rhs \in Object : MoveConstruct(rhs, o) \/ MoveAssign(rhs, o)
      BY <3>0, <3>6 DEF MoveConstruct, MoveAssign, TakeOver, TypeOK
    <3> QED BY <2>3, <3>1, <3>3, <3>4, <3>5, <3>6
  <2>4. ASSUME NEW p \in Process, Crash(p) PROVE Abstract!RWNext
    BY <2>1, <2>4, CarefulFacts DEF Crash
  <2>5. CASE UNCHANGED vars
    BY <2>5 DEF vars, object, held
  <2> QED BY <2>2, <2>3, <2>4, <2>5 DEF Next
<1> QED BY <1>1, <1>2, Invariant, PTL
        DEF Spec, ImplementsRWLock, Abstract!RWSpec
=============================================================================
