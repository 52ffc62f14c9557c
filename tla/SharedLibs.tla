----------------------------- MODULE SharedLibs -----------------------------
(***************************************************************************)
(* utility/sharedLibs.cpp: the version numbers (ABI) of a library in a     *)
(* rootfs, collected along the links by which its path is resolved.        *)
(*                                                                         *)
(* The name of a file is the sequence of its parts between dots, libfoo.so *)
(* being <<"libfoo", "so">>.  Of the other parts only those that begin     *)
(* like the extension, such as "solid", matter.                            *)
(***************************************************************************)
EXTENDS Rootfs

CONSTANT HostFolders  \* directories of the host, named like places in a rootfs

Filename(q) == Last(q)
So == "so"

\* The last .so of the name: 0 if there is none, or if more than a dot follows.
Extension(name) ==
  LET dot == SelectLastInSeq(name, LAMBDA part : part \in {So, "solid"})
  IN IF dot > 1 /\ name[dot] = So THEN dot ELSE 0

\* is_directory looks at the host, also when q is a place in a rootfs.
IsSharedLib(q) ==
  /\ q # <<>> /\ q \notin HostFolders
  /\ Last(Filename(q)) \notin {"conf", "cache"}
  /\ Extension(Filename(q)) # 0

GetLinkerName(q) == SubSeq(Filename(q), 1, Extension(Filename(q)))
ParseAbi(q) == SubSeq(Filename(q), Extension(Filename(q)) + 1, Len(Filename(q)))

\* Mutant of Longer: the last one.
LongerOrLast(longest, abi) == IF Len(abi) >= Len(longest) THEN abi ELSE longest

\* What becomes of the longest ABI so far when abi is next: when one does not
\* extend the other, the earlier one is trusted.
Longer(longest, abi) == IF IsPrefix(longest, abi) THEN abi ELSE longest

\* The places by which a library is reached.
Reached(lib) ==
  LET resolved == AppendPathsWithinRootfs(<<>>, lib)
  IN Append(resolved.traversedSymlinks, resolved.at)
KnownAs(lib) ==
  SelectSeq(Reached(lib), LAMBDA q : IsSharedLib(q) /\ GetLinkerName(q) = GetLinkerName(lib))

\* Of a library whose links come to an end.
ResolveAbi(lib) ==
  FoldLeft(Longer, <<>>, [i \in DOMAIN KnownAs(lib) |-> ParseAbi(KnownAs(lib)[i])])
------------------------------------------------------------------------------
\* The ABI of a library has the numbers that its own name asks for, is that of
\* a name by which the library is reached, and no name on the way is more
\* precise; unless the host has a folder in such a place.
RequestedAbiPrevailsFor(lib) ==
  LET abi   == ResolveAbi(lib)
      named == {ParseAbi(q) : q \in ToSet(KnownAs(lib))}
  IN ToSet(Reached(lib)) \cap HostFolders = {} =>
       /\ IsPrefix(ParseAbi(lib), abi)
       /\ abi \in named
       /\ \A other \in named : ~IsStrictPrefix(abi, other)
==============================================================================
