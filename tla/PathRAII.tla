------------------------------ MODULE PathRAII ------------------------------
(***************************************************************************)
(* PathRAII: movable objects that remove a path when they are destroyed,   *)
(* in processes that also make the calls of module Folders.  The           *)
(* destructor is one more such call, "~PathRAII", and an exception from it *)
(* terminates the process.                                                 *)
(***************************************************************************)
EXTENDS Folders

CONSTANTS
  Handle,     \* the objects
  HandleOf,   \* HandleOf[h]: the process that has object h
  Managed,    \* the paths that are given to objects
  Dead        \* an object that is not there

ASSUME HandleAssumption == /\ HandleOf \in [Handle -> Proc]
                           /\ Managed \subseteq Path

NoPath == <<>>

VARIABLE managed   \* managed[h]: the path that h manages, NoPath or Dead

allVars == <<vars, managed>>

Alive(h) == managed[h] # Dead
Manages(h) == Alive(h) /\ managed[h] # NoPath
\* Objects are used by a process that is alive and not in a call.
Terminated(p) == Failed(p) /\ call[p].op = "~PathRAII"
Usable(h) == ~Active(HandleOf[h]) /\ ~Terminated(HandleOf[h])
------------------------------------------------------------------------------
(* A client gives a path to one object only. *)
Construct(h, q) ==
  /\ Usable(h) /\ ~Alive(h)
  /\ \A g \in Handle : managed[g] # q
  /\ managed' = [managed EXCEPT ![h] = q]
  /\ UNCHANGED vars

\* Mutants of MoveConstruct: the other keeps its path, or is reset too early.
MoveConstructShared(h, g) ==
  /\ Usable(h) /\ ~Alive(h) /\ Alive(g) /\ HandleOf[g] = HandleOf[h]
  /\ managed' = [managed EXCEPT ![h] = managed[g]]
  /\ UNCHANGED vars
MoveConstructLate(h, g) ==
  /\ Usable(h) /\ ~Alive(h) /\ Alive(g) /\ HandleOf[g] = HandleOf[h]
  /\ managed' = [managed EXCEPT ![h] = NoPath, ![g] = NoPath]
  /\ UNCHANGED vars

MoveConstruct(h, g) ==
  /\ Usable(h) /\ ~Alive(h) /\ Alive(g) /\ HandleOf[g] = HandleOf[h]
  /\ managed' = [managed EXCEPT ![h] = managed[g], ![g] = NoPath]
  /\ UNCHANGED vars

\* The path that h managed is forgotten; of a self-assignment nothing is left.
MoveAssign(h, g) ==
  /\ Usable(h) /\ Alive(h) /\ Alive(g) /\ HandleOf[g] = HandleOf[h]
  /\ managed' = [[managed EXCEPT ![h] = managed[g]] EXCEPT ![g] = NoPath]
  /\ UNCHANGED vars

Release(h) ==
  /\ Usable(h) /\ Manages(h)
  /\ managed' = [managed EXCEPT ![h] = NoPath]
  /\ UNCHANGED vars

Destroy(h) ==
  LET p == HandleOf[h]
      q == managed[h] IN
  /\ Usable(h) /\ Alive(h)
  /\ managed' = [managed EXCEPT ![h] = Dead]
  /\ IF Manages(h) THEN Call(p, [op |-> "~PathRAII", from |-> q, at |-> q, own |-> NoOwner])
                   ELSE UNCHANGED vars
------------------------------------------------------------------------------
(* The jobs of the destructor *)

ForAll(do, S) == LET s == SetToSeq(S) IN [i \in DOMAIN s |-> Job(do, s[i])]

CheckPath(p) ==
  /\ Doing(p, "tidy")
  /\ IF Exists(Now(p).at)
     THEN Continue(p, <<Job("widen", Now(p).at), Job("clear", Now(p).at)>>)
     ELSE Done(p)
  /\ UNCHANGED fs

\* setFilesAsRemovableByOwner: a directory is widened before it is entered.
Widen(p) ==
  LET q == Now(p).at
      widened == [fs EXCEPT ![q].mode = @ \cup {"x"}] IN
  /\ Doing(p, "widen")
  /\ \/ /\ ~(Exists(q) /\ MayChangeMode(p, q))
        /\ Throw(p) /\ UNCHANGED fs
     \/ /\ IsFile(q) /\ MayChangeMode(p, q)
        /\ Done(p) /\ UNCHANGED fs
     \/ /\ IsDir(q) /\ MayChangeMode(p, q)
        /\ fs' = widened
        /\ IF CanList(p, q) THEN Continue(p, ForAll("widen", Children(q)))
                             ELSE Throw(p)

\* remove_all.  It can list every folder: Widen has, or it is new.
Clear(p) ==
  /\ Doing(p, "clear")
  /\ Continue(p, ForAll("clear", Children(Now(p).at)) \o <<Job("remove", Now(p).at)>>)
  /\ UNCHANGED fs

DestructorStep(p) ==
  /\ CheckPath(p) \/ Widen(p) \/ Clear(p)
  /\ Noted(p)

Step(p) == (FolderStep(p) \/ DestructorStep(p)) /\ UNCHANGED managed

Next ==
  \/ \E p \in Proc : Step(p)
  \/ \E p \in Proc : \E r \in Request[p] :
       ~Terminated(p) /\ Call(p, r) /\ UNCHANGED managed
  \/ \E h \in Handle :
       \/ \E q \in Managed : Construct(h, q)
       \/ \E g \in Handle : MoveConstruct(h, g) \/ MoveAssign(h, g)
       \/ Release(h)
       \/ Destroy(h)

PathInit == Init /\ managed = [h \in Handle |-> Dead]

\* A process in a call goes on.
Spec == PathInit /\ [][Next]_allVars /\ \A p \in Proc : WF_allVars(Step(p))
------------------------------------------------------------------------------
(* Properties *)

\* However objects are moved, a path is never managed by two of them: it is
\* removed once.
ManagedOnce ==
  \A g, h \in Handle : Manages(g) /\ managed[g] = managed[h] => g = h

\* A path stops being managed only when it is released, when the destructor of
\* its object begins to remove it, or when the object is assigned another: the
\* last is the one way to leave a path behind.
StaysManaged ==
  [][\A h \in Handle : Manages(h) /\ (\A g \in Handle : managed'[g] # managed[h]) =>
       \/ Release(h)
       \/ /\ ~Alive(h)' /\ Active(HandleOf[h])'
          /\ call[HandleOf[h]]'.op = "~PathRAII"
          /\ call[HandleOf[h]]'.at = managed[h]
       \/ \E g \in Handle : MoveAssign(h, g)]_allVars
==============================================================================
