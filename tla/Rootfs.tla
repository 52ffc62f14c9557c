------------------------------- MODULE Rootfs -------------------------------
(***************************************************************************)
(* appendPathsWithinRootfs and realpathWithinRootfs of filesystem.cpp: the *)
(* resolution of a path, links included, as a process confined to the      *)
(* rootfs would see it.  The rootfs itself grows by nodes and links that   *)
(* somebody else makes.                                                    *)
(*                                                                         *)
(* A place is the sequence of names below the rootfs.  A path is a         *)
(* sequence of elements, names or Dot or DotDot; abs when it begins with a *)
(* slash.                                                                  *)
(***************************************************************************)
EXTENDS Naturals, FiniteSets, Sequences, SequencesExt

CONSTANTS
  Dot, DotDot,  \* the elements . and ..
  MaxNodes      \* bound on the nodes of a rootfs

VARIABLE rootfs  \* the nodes there are: [at |-> place, kind |->, target |-> path]

AbsolutePath(parts) == [abs |-> TRUE, parts |-> parts]
RelativePath(parts) == [abs |-> FALSE, parts |-> parts]

NodesAt(q) == {n \in rootfs : n.at = q}
Is(kind, q) == \E n \in NodesAt(q) : n.kind = kind
IsSymlink(q) == Is("link", q)
GetSymlinkTarget(q) == (CHOOSE n \in NodesAt(q) : TRUE).target
IsFolder(q) == q = <<>> \/ Is("dir", q)

MakeNode(n) ==
  /\ Cardinality(rootfs) < MaxNodes
  /\ NodesAt(n.at) = {} /\ IsFolder(Front(n.at))
  /\ rootfs' = rootfs \cup {n}
------------------------------------------------------------------------------
ParentPath(q) == IF q = <<>> THEN <<>> ELSE Front(q)

\* Mutant of Restart: every link is taken from where it is.
RestartNot(current, target) == current

\* Where the target of a link in folder current begins.
Restart(current, target) == IF target.abs THEN <<>> ELSE current

\* The result and the links that were traversed, in the order in which they
\* are pushed.  The recursion has no limit: it does not end when it is deeper
\* than there are links, for then a link is resolved while it is resolved.
NoEnd == [ends |-> FALSE, at |-> <<>>, traversedSymlinks |-> <<>>]

RECURSIVE AppendPaths(_, _, _)
AppendPaths(path0, path1, depth) ==
  LET element(r, e) ==
        CASE ~r.ends \/ e = Dot -> r
          [] r.ends /\ e = DotDot -> [r EXCEPT !.at = ParentPath(@)]
          [] OTHER ->
               LET q == Append(r.at, e) IN
               IF ~IsSymlink(q) THEN [r EXCEPT !.at = q]
               ELSE LET target == GetSymlinkTarget(q)
                        rest == IF depth = 0 THEN NoEnd
                                ELSE AppendPaths(Restart(r.at, target), target.parts, depth - 1)
                    IN [rest EXCEPT !.traversedSymlinks = r.traversedSymlinks \o <<q>> \o @]
  IN FoldLeft(element, [ends |-> TRUE, at |-> path0, traversedSymlinks |-> <<>>], path1)

AppendPathsWithinRootfs(path0, path1) ==
  AppendPaths(path0, path1, Cardinality({n \in rootfs : n.kind = "link"}))

\* An Error, which is no result either, when the path is not absolute.
RealpathWithinRootfs(path) ==
  IF path.abs THEN AppendPathsWithinRootfs(<<>>, path.parts) ELSE NoEnd
------------------------------------------------------------------------------
(* What a process confined to the rootfs sees: the kernel puts the target  *)
(* of a link in the place of its name and goes on, a limited number of     *)
(* times.                                                                  *)

MaxLinks == 8   \* MAXSYMLINKS is 40
NotFound == [found |-> FALSE, at |-> <<>>]

RECURSIVE Walk(_, _, _)
Walk(at, todo, links) ==
  IF todo = <<>> THEN [found |-> TRUE, at |-> at]
  ELSE LET e == Head(todo)
           q == Append(at, e)
       IN CASE ~IsFolder(at) \/ links = 0 -> NotFound
            [] IsFolder(at) /\ e = Dot -> Walk(at, Tail(todo), links)
            [] IsFolder(at) /\ e = DotDot -> Walk(IF at = <<>> THEN at ELSE Front(at), Tail(todo), links)
            [] OTHER ->
                 IF IsSymlink(q)
                 THEN LET target == GetSymlinkTarget(q) IN
                      Walk(IF target.abs THEN <<>> ELSE at, target.parts \o Tail(todo), links - 1)
                 ELSE Walk(q, Tail(todo), links)

\* A path whose last name is missing is found too: a file may be made there.
Lookup(path) == Walk(<<>>, path.parts, MaxLinks)
------------------------------------------------------------------------------
\* What the kernel finds, the library finds, at the same place and with no link
\* on the way to it, in finitely many steps.
ResolvesLikeKernelFor(path) ==
  LET seen == Lookup(path)
      real == RealpathWithinRootfs(path)
  IN seen.found => /\ real.ends /\ real.at = seen.at
                   /\ \A q \in Prefixes(real.at) : ~IsSymlink(q)
==============================================================================
