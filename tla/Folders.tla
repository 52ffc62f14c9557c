------------------------------- MODULE Folders -------------------------------
(***************************************************************************)
(* The functions of utility/filesystem.cpp that create, copy and remove    *)
(* files and folders, called by processes that share a file system.        *)
(*                                                                         *)
(* A call is an agenda of jobs.  A job is what the code does between two   *)
(* accesses to the file system that other processes may come between, and  *)
(* may put other jobs before the rest of the agenda: those of the function *)
(* it calls.  The stat(2) and chown(2) of setOwner are one job, and so are *)
(* the system calls by which boost copies or the stream writes one file.   *)
(*                                                                         *)
(* A path is the sequence of its names below a directory that always       *)
(* exists; there are no links (module Rootfs has them).                    *)
(***************************************************************************)
EXTENDS Naturals, Sequences, FiniteSets, SequencesExt

CONSTANTS
  Proc,       \* the processes
  Name,       \* the names of files and folders
  MaxDepth,   \* the components of the longest path that is not ENAMETOOLONG
  Owner,      \* the users, Root among them
  Root,
  NoOwner,    \* uid and gid are -1: leave the owner alone
  Uid,        \* Uid[p]: the user process p runs as
  Trees,      \* the file systems to begin with
  Request,    \* Request[p]: the calls that process p makes
  MaxCalls    \* MaxCalls[p]: bound on the calls of process p

ASSUME DepthAssumption == MaxDepth \in Nat \ {0} /\ IsFiniteSet(Name)
ASSUME OwnerAssumption == /\ Root \in Owner /\ NoOwner \notin Owner
                          /\ Uid \in [Proc -> Owner]
ASSUME CallsAssumption == MaxCalls \in [Proc -> Nat]

Path == UNION {[1..n -> Name] : n \in 1..MaxDepth}

\* mode: users other than Root may list ("r"), search and change ("x") it.
Node == [kind : {"none", "dir", "file"}, owner : Owner \cup {NoOwner},
         text : Seq(Proc \cup {"old"}), mode : SUBSET {"r", "x"}]
Nothing == [kind |-> "none", owner |-> NoOwner, text |-> <<>>, mode |-> {}]
NewFolder(o) == [kind |-> "dir", owner |-> o, text |-> <<>>, mode |-> {"r", "x"}]
NewFile(o, t) == [kind |-> "file", owner |-> o, text |-> t, mode |-> {}]

\* What exists is in a directory.
ASSUME TreesAssumption ==
  \A t \in Trees : /\ t \in [Path -> Node]
                   /\ \A q \in Path : IF t[q].kind = "none" THEN t[q] = Nothing
                        ELSE Len(q) = 1 \/ t[Front(q)].kind = "dir"

\* writeTextFile is called with the mode std::ios_base::app or without it.
Op == {"createFoldersIfNecessary", "createFileIfNecessary", "copyFile",
       "copyFolder", "removeFile", "writeTextFile", "appendTextFile",
       "~PathRAII"}

\* from is at in a call that has one path.  uid and gid are one owner, of which
\* removeFile and the functions that write texts know nothing.
ASSUME RequestAssumption ==
  \A p \in Proc : \A r \in Request[p] :
    /\ r.op \in Op \ {"~PathRAII"}
    /\ {r.from, r.at} \subseteq Path
    /\ r.op \notin {"copyFile", "copyFolder"} => r.from = r.at
    /\ r.own \in IF r.op \in {"removeFile", "writeTextFile", "appendTextFile"}
                 THEN {NoOwner} ELSE Owner \cup {NoOwner}

VARIABLES
  fs,       \* fs[q]: what is at path q
  call,     \* call[p]: the call process p is in, or the last one it made
  \* For the properties only:
  touched,  \* the paths that were removed, or whose mode was changed
  alone     \* no other process changed the file system during p's call

vars == <<fs, call, touched, alone>>
------------------------------------------------------------------------------
IsDir(q)    == q = <<>> \/ (q \in Path /\ fs[q].kind = "dir")
IsFile(q)   == q \in Path /\ fs[q].kind = "file"
Exists(q)   == q \in Path /\ fs[q].kind # "none"   \* not of the empty path
Children(q) == {c \in Path : Len(c) = Len(q) + 1 /\ IsPrefix(q, c) /\ Exists(c)}
Above(q)    == Prefixes(q) \ {q, <<>>}

\* A predicate of boost throws where stat(2) cannot search the directories
\* above, or the path is too long.
Refused(p, q) ==
  \/ Len(q) > MaxDepth
  \/ Uid[p] # Root /\ \E a \in Above(q) : IsDir(a) /\ "x" \notin fs[a].mode

Job(do, at) == [do |-> do, at |-> at, from |-> at]
JobFrom(do, from, at) == [do |-> do, at |-> at, from |-> from]

\* The paths that a job looks at.
Uses(j) == CASE j.do \in {"tree", "list", "entry"} -> {j.from}
             [] j.do = "copy" -> {j.from, j.at}
             [] OTHER -> {j.at}

CreateFolders(at) == [i \in 1..Len(at) |-> Job("folder", SubSeq(at, 1, i))]
\* Mutant of CopyFile: the copy keeps the owner it was made with.
CopyFileUnowned(from, at) ==
  CreateFolders(Front(at)) \o <<Job("remove", at), JobFrom("copy", from, at)>>

CopyFile(from, at) ==
  CreateFolders(Front(at))
    \o <<Job("remove", at), JobFrom("copy", from, at), Job("chown", at)>>

Idle(p)   == call[p].todo = <<>>
Failed(p) == call[p].failed
Active(p) == ~Idle(p) /\ ~Failed(p)
Now(p)    == Head(call[p].todo)

\* The job at the head of p's agenda is a `do', and gets as far as doing it.
Doing(p, do) == /\ Active(p)
                /\ Now(p).do = do
                /\ \A q \in Uses(Now(p)) : ~Refused(p, q)

Continue(p, jobs) == call' = [call EXCEPT ![p].todo = jobs \o Tail(@)]
Done(p)  == Continue(p, <<>>)
Throw(p) == call' = [call EXCEPT ![p].failed = TRUE]

MayChangeMode(p, q) == Uid[p] \in {Root, fs[q].owner}
Put(q, node) == fs' = [fs EXCEPT ![q] = node]
\* No directory, or a directory without write permission for open(2).
CanOpen(q) == IsDir(Front(q)) /\ ~IsDir(q)

\* What a step of p that changes the file system means for the history.
Noted(p) ==
  /\ touched' = touched \cup {q \in Path : /\ Exists(q)
                                           /\ \/ fs'[q].kind # fs[q].kind
                                              \/ fs'[q].mode # fs[q].mode}
  /\ alone' = [r \in Proc |-> alone[r] /\ (r = p \/ fs' = fs)]
------------------------------------------------------------------------------
(* The jobs *)

Folder(p) ==
  /\ Doing(p, "folder")
  /\ IF Exists(Now(p).at)
     THEN Done(p)
     ELSE Continue(p, <<Job("mkdir", Now(p).at), Job("chown", Now(p).at)>>)
  /\ UNCHANGED fs

\* create_directory returns false when there is a directory already.
MakeDirectory(p) ==
  /\ Doing(p, "mkdir")
  /\ \/ /\ IsDir(Front(Now(p).at)) /\ ~Exists(Now(p).at)
        /\ Put(Now(p).at, NewFolder(Uid[p])) /\ Done(p)
     \/ /\ IsDir(Now(p).at)
        /\ Continue(p, <<Job("made", Now(p).at)>>) /\ UNCHANGED fs
     \/ /\ ~IsDir(Front(Now(p).at)) \/ IsFile(Now(p).at)
        /\ Throw(p) /\ UNCHANGED fs

\* Mutants of CheckMade: nobody else may make it, or make it oneself.
CheckMadeByOthers(p) == Doing(p, "made") /\ Throw(p) /\ UNCHANGED fs
CheckMadeRetrying(p) ==
  Doing(p, "made") /\ Continue(p, <<Job("mkdir", Now(p).at)>>) /\ UNCHANGED fs

\* Another process made it; is it still there?
CheckMade(p) ==
  /\ Doing(p, "made")
  /\ IF IsDir(Now(p).at) THEN Done(p) ELSE Throw(p)
  /\ UNCHANGED fs

\* A chown(2) that fails, for want of privilege, is ignored.
SetOwner(p) ==
  LET at == Now(p).at
      own == call[p].own IN
  /\ Doing(p, "chown")
  /\ \/ own = NoOwner /\ Done(p) /\ UNCHANGED fs
     \/ own # NoOwner /\ ~Exists(at) /\ Throw(p) /\ UNCHANGED fs
     \/ /\ own # NoOwner /\ Exists(at)
        /\ IF Uid[p] = Root THEN Put(at, [fs[at] EXCEPT !.owner = own])
                            ELSE UNCHANGED fs
        /\ Done(p)

\* Mutant of CheckFile: the file is not looked for.
CheckFileNot(p) ==
  /\ Doing(p, "file")
  /\ Continue(p, <<Job("parent", Now(p).at), Job("open", Now(p).at), Job("chown", Now(p).at)>>)
  /\ UNCHANGED fs

CheckFile(p) ==
  /\ Doing(p, "file")
  /\ IF Exists(Now(p).at) THEN Done(p)
     ELSE Continue(p, <<Job("parent", Now(p).at), Job("open", Now(p).at),
                        Job("chown", Now(p).at)>>)
  /\ UNCHANGED fs

CheckParent(p) ==
  /\ Doing(p, "parent")
  /\ IF Exists(Front(Now(p).at)) THEN Done(p)
     ELSE Continue(p, CreateFolders(Front(Now(p).at)))
  /\ UNCHANGED fs

\* An output stream truncates the file unless it appends.
OpenFile(p) ==
  LET at   == Now(p).at
      keep == IF Now(p).do = "append" /\ IsFile(at) THEN fs[at].text ELSE <<>>
      new  == IF Now(p).do = "open" THEN <<>> ELSE <<p>> IN
  /\ \E do \in {"open", "write", "append"} : Doing(p, do)
  /\ IF CanOpen(at)
     THEN /\ Put(at, NewFile(IF IsFile(at) THEN fs[at].owner ELSE Uid[p],
                             keep \o new))
          /\ Done(p)
     ELSE Throw(p) /\ UNCHANGED fs

RemoveIfExists(p) ==
  /\ Doing(p, "unlink")
  /\ IF Exists(Now(p).at) THEN Continue(p, <<Job("remove", Now(p).at)>>)
                          ELSE Done(p)
  /\ UNCHANGED fs

\* Mutant of RemovePath: a folder that is not empty is removed.
RemoveRegardless(p) == Doing(p, "remove") /\ Put(Now(p).at, Nothing) /\ Done(p)

\* boost's remove: nothing there is no error, a folder that is not empty is.
RemovePath(p) ==
  /\ Doing(p, "remove")
  /\ \/ ~Exists(Now(p).at) /\ Done(p) /\ UNCHANGED fs
     \/ /\ Exists(Now(p).at) /\ Children(Now(p).at) = {}
        /\ Put(Now(p).at, Nothing) /\ Done(p)
     \/ Children(Now(p).at) # {} /\ Throw(p) /\ UNCHANGED fs

\* boost's copy_file fails when the destination exists.
Copy(p) ==
  LET j == Now(p) IN
  /\ Doing(p, "copy")
  /\ IF IsFile(j.from) /\ ~Exists(j.at) /\ IsDir(Front(j.at))
     THEN Put(j.at, NewFile(Uid[p], fs[j.from].text)) /\ Done(p)
     ELSE Throw(p) /\ UNCHANGED fs

CheckSource(p) ==
  LET j == Now(p) IN
  /\ Doing(p, "tree")
  /\ IF IsDir(j.from)
     THEN Continue(p, <<Job("absent", j.at)>> \o CreateFolders(j.at)
                        \o <<JobFrom("list", j.from, j.at)>>)
     ELSE Throw(p)
  /\ UNCHANGED fs

CheckAbsent(p) ==
  /\ Doing(p, "absent")
  /\ IF Exists(Now(p).at) THEN Throw(p) ELSE Done(p)
  /\ UNCHANGED fs

\* The iterator sees the entries there are when it opens the directory.
CanList(p, q) == IsDir(q) /\ (Uid[p] = Root \/ "r" \in fs[q].mode)
ListFolder(p) ==
  LET j == Now(p) IN
  /\ Doing(p, "list")
  /\ IF CanList(p, j.from)
     THEN \E entries \in SetToSeqs(Children(j.from)) :
            Continue(p, [i \in DOMAIN entries |->
              JobFrom("entry", entries[i], Append(j.at, Last(entries[i])))])
     ELSE Throw(p)
  /\ UNCHANGED fs

CopyEntry(p) ==
  LET j == Now(p) IN
  /\ Doing(p, "entry")
  /\ Continue(p, IF IsDir(j.from) THEN <<JobFrom("tree", j.from, j.at)>>
                                  ELSE CopyFile(j.from, j.at))
  /\ UNCHANGED fs

\* An exception of boost.
Refuse(p) ==
  /\ Active(p)
  /\ \E q \in Uses(Now(p)) : Refused(p, q)
  /\ Throw(p)
  /\ UNCHANGED fs

FolderStep(p) ==
  /\ \/ Folder(p) \/ MakeDirectory(p) \/ CheckMade(p) \/ SetOwner(p)
     \/ CheckFile(p) \/ CheckParent(p) \/ OpenFile(p)
     \/ RemoveIfExists(p) \/ RemovePath(p) \/ Copy(p)
     \/ CheckSource(p) \/ CheckAbsent(p) \/ ListFolder(p) \/ CopyEntry(p)
     \/ Refuse(p)
  /\ Noted(p)
------------------------------------------------------------------------------
(* The calls *)

Agenda(r) ==
  CASE r.op = "createFoldersIfNecessary" -> CreateFolders(r.at)
    [] r.op = "createFileIfNecessary" -> <<Job("file", r.at)>>
    [] r.op = "copyFile" -> CopyFile(r.from, r.at)
    [] r.op = "copyFolder" -> <<JobFrom("tree", r.from, r.at)>>
    [] r.op = "removeFile" -> <<Job("unlink", r.at)>>
    [] r.op = "writeTextFile" -> CreateFolders(Front(r.at)) \o <<Job("write", r.at)>>
    [] r.op = "appendTextFile" -> CreateFolders(Front(r.at)) \o <<Job("append", r.at)>>
    [] r.op = "~PathRAII" -> <<Job("tidy", r.at)>>

Call(p, r) ==
  /\ ~Active(p)
  /\ call[p].made < MaxCalls[p]
  /\ call' = [call EXCEPT ![p] =
       [op |-> r.op, from |-> r.from, at |-> r.at, own |-> r.own,
        todo |-> Agenda(r), failed |-> FALSE, made |-> @.made + 1, before |-> fs]]
  /\ alone' = [alone EXCEPT ![p] = TRUE]
  /\ UNCHANGED <<fs, touched>>

Init ==
  /\ fs \in Trees
  /\ call = [p \in Proc |->
               [op |-> "none", from |-> <<>>, at |-> <<>>, own |-> NoOwner,
                todo |-> <<>>, failed |-> FALSE, made |-> 0, before |-> fs]]
  /\ touched = {}
  /\ alone = [p \in Proc |-> FALSE]
------------------------------------------------------------------------------
(* Properties *)

\* Types, and the shape of a file system: what exists is in a directory.
TypeOK ==
  /\ fs \in [Path -> Node]
  /\ \A q \in Path : IF Exists(q) THEN IsDir(Front(q)) ELSE fs[q] = Nothing
  /\ \A p \in Proc :
       /\ call[p].op \in Op \cup {"none"}
       /\ call[p].own \in Owner \cup {NoOwner}
       /\ call[p].made \in 0..MaxCalls[p]
       /\ Failed(p) => ~Idle(p)
  /\ touched \subseteq Path
  /\ alone \in [Proc -> BOOLEAN]

\* What was there when the call began.
Before(p, q) == IF q = <<>> THEN "dir" ELSE call[p].before[q].kind
Below(q)     == {d \in Path : IsPrefix(q, d)}
Moved(p, q)  == call[p].at \o SubSeq(q, Len(call[p].from) + 1, Len(q))
NewOwner(p)  == IF call[p].own # NoOwner /\ Uid[p] = Root THEN call[p].own
                                                          ELSE Uid[p]

\* What a call that returns promises: what it made belongs to the owner asked
\* for if the process may give it away, what it copied equals its source, and
\* the rest is as it was.
Promised(p) ==
  LET c == call[p] IN
  /\ \A q \in Path :
       /\ Exists(q) /\ Before(p, q) = "none" => fs[q].owner = NewOwner(p)
       /\ Before(p, q) # "none" /\ ~IsPrefix(c.at, q) => fs[q] = c.before[q]
  /\ CASE c.op = "createFoldersIfNecessary" ->
            IF Before(p, c.at) = "none" THEN IsDir(c.at)
                                        ELSE fs[c.at] = c.before[c.at]
       [] c.op = "createFileIfNecessary" ->
            IF Before(p, c.at) = "none" THEN IsFile(c.at) /\ fs[c.at].text = <<>>
                                        ELSE fs[c.at] = c.before[c.at]
       [] c.op = "copyFile" ->
            /\ IsFile(c.at) /\ fs[c.at].owner = NewOwner(p)
            /\ fs[c.at].text = c.before[c.from].text
       [] c.op = "copyFolder" ->
            /\ \A q \in Below(c.from) : Before(p, q) # "none" =>
                 /\ fs[Moved(p, q)].kind = Before(p, q)
                 /\ Before(p, q) = "file" => fs[Moved(p, q)].text = c.before[q].text
            /\ \A d \in Below(c.at) : Exists(d) =>
                 \E q \in Below(c.from) : Before(p, q) # "none" /\ d = Moved(p, q)
       [] c.op = "writeTextFile" -> IsFile(c.at) /\ fs[c.at].text = <<p>>
       [] c.op = "appendTextFile" ->
            IsFile(c.at) /\ fs[c.at].text = Append(c.before[c.at].text, p)
       [] OTHER -> ~Exists(c.at)

\* The reasons for which a call may throw when nobody interferes.
Excused(p) ==
  LET c == call[p] IN
  \/ Refused(p, c.from) \/ Refused(p, c.at) \/ \E q \in Above(c.at) : IsFile(q)
  \/ /\ c.op = "copyFile"
     /\ \/ Before(p, c.from) # "file"
        \/ c.from = c.at
        \/ \E d \in Below(c.at) : d # c.at /\ Before(p, d) # "none"
  \/ /\ c.op = "copyFolder"
     /\ \/ Before(p, c.from) # "dir"
        \/ Before(p, c.at) # "none"
        \/ IsPrefix(c.from, c.at)
        \/ \E q \in Below(c.from) : /\ Before(p, q) # "none"
                                    /\ \/ Refused(p, q) \/ Refused(p, Moved(p, q))
                                       \/ IsDir(q) /\ ~CanList(p, q)
  \/ c.op = "removeFile" /\ Children(c.at) # {}
  \/ c.op \in {"writeTextFile", "appendTextFile"} /\ IsDir(c.at)
  \/ /\ c.op = "~PathRAII"
     /\ \E q \in Below(c.at) :
          Exists(q) /\ ~(MayChangeMode(p, q) /\ (IsDir(q) => CanList(p, q)))

\* A call during which no other process changes the file system either does
\* all that its name promises or throws for one of the reasons above: each
\* function of filesystem.cpp as one atomic operation.
UndisturbedCallsWork ==
  \A p \in Proc : alone[p] /\ ~Active(p) /\ call[p].op # "none" =>
    IF Failed(p) THEN Excused(p) ELSE Promised(p)

\* Processes that create the same folders do not make each other fail: the
\* creation of a folder throws only if a file is in its way, or if a folder
\* above was removed or is closed to the process.
CreatorsTolerateEachOther ==
  \A p \in Proc :
    Failed(p) /\ Now(p).do \in {"folder", "mkdir", "made", "chown"} =>
      \/ Refused(p, Now(p).at)
      \/ \E q \in Above(Now(p).at) \cup {Now(p).at} : IsFile(q) \/ q \in touched

\* Creating or copying, whatever others do meanwhile, leaves alone what was
\* there when the call began and was not removed since: its owner, its
\* contents.  (A file made after the call began may be truncated.)
CreatorsKeepWhatExisted ==
  [][\A p \in Proc : Active(p) /\ call'[p] # call[p] =>
       \A q \in Path \ touched :
         /\ Before(p, q) # "none"
         /\ \/ call[p].op \in {"createFoldersIfNecessary",
                               "createFileIfNecessary", "copyFolder"}
            \/ /\ call[p].op \in {"copyFile", "writeTextFile", "appendTextFile"}
               /\ q # call[p].at
         => fs'[q] = fs[q]]_vars

\* Every call returns or throws, whatever the other processes do: also a copy
\* of a folder into itself, which only the length of its paths ends.
EveryCallEnds == \A p \in Proc : Active(p) ~> ~Active(p)
==============================================================================
