------------------------------ MODULE MCInputs ------------------------------
(***************************************************************************)
(* Every behaviour is about one subject: a rootfs that grows, the text of  *)
(* a request or of a passwd file that grows, a hook, or objects of class   *)
(* CLIArguments.                                                           *)
(***************************************************************************)
EXTENDS SharedLibs, MountRequest, DeviceRequest, PasswdDB, Cgroup, CLIArguments

CONSTANTS
  MaxPieces,    \* bound on the pieces of a text
  MaxElements   \* bound on the elements of a path

VARIABLES subject, pieces

allVars == <<subject, pieces, rootfs, cgroupVars, cliVars>>
------------------------------------------------------------------------------
(* What rootfs are made of. *)

A == <<"a">>
B == <<"b">>
Link(at, target) == [at |-> at, kind |-> "link", target |-> target]
Folder(at) == [at |-> at, kind |-> "dir", target |-> RelativePath(<<>>)]
File(at) == [at |-> at, kind |-> "file", target |-> RelativePath(<<>>)]

Targets == {AbsolutePath(<<B>>), RelativePath(<<B>>), RelativePath(<<DotDot, A>>),
            AbsolutePath(<<B, A>>), RelativePath(<<A, DotDot, DotDot, B>>),
            RelativePath(<<Dot>>)}
Places == {<<A>>, <<B>>, <<A, A>>, <<A, B>>, <<B, A>>, <<B, B>>}
Nodes == UNION {{Folder(q), File(q)} \cup {Link(q, t) : t \in Targets} : q \in Places}
Paths == {AbsolutePath(parts) : parts \in SeqOf({A, B, Dot, DotDot}, MaxElements)}

\* Libraries in /a, which is also /b.
X == <<"x", "so">>
Libs == {X, X \o <<"1">>, X \o <<"1", "2">>, X \o <<"2">>, X \o <<"3">>, <<"y", "so", "1">>,
         <<"x", "so", "1", "solid">>, <<"x", "so", "conf">>}
LibFolders == {Folder(<<A>>), Link(<<B>>, RelativePath(<<A>>))}
LibNodes ==
  UNION {{File(<<A, lib>>), Link(<<A, lib>>, AbsolutePath(<<B, X \o <<"1", "2">>>>))}
         \cup {Link(<<A, lib>>, RelativePath(<<target>>)) : target \in Libs} : lib \in Libs}
MCHostFolders == {<<A, X \o <<"2">>>>}
------------------------------------------------------------------------------
(* What texts are made of. *)

Separator == [mount |-> Comma, device |-> Colon, passwd |-> Newline]

Pairs ==
  {<<>>, <<Equals, "bind">>, <<"type", Equals, "bind">>, <<"src", Equals, Slash, "a">>,
   <<"source", Equals, Slash, "a">>, <<"source", Equals, "a">>,
   <<"dst", Equals, Slash, "a">>, <<"dst", Equals, Slash, "etc">>,
   <<"target", Equals, Slash, "a", Equals>>, <<"readonly">>, <<"readonly", Equals, "a">>}
MCDisallowedPrefix == {<<Slash, "etc">>}
MCDisallowed == {<<Slash>>}

Device == <<Slash, "dev">>
MCDeviceFile == {Device}
Tokens == {<<>>, Device, <<Slash, "a">>, <<"a">>, <<"r">>, <<"m", "r">>, <<"r", "r">>,
           <<"r", "w", "m">>, <<"r", "w", "m", "r">>}

Entry(fields) == Join(fields, Colon)
Entries ==
  {<<>>,
   Entry(<< <<"root">>, <<"x">>, <<"0">>, <<"0">>, <<>>, Device, <<"sh">> >>),
   Entry(<< <<"a">>, <<>>, <<"2", "1", "0">>, <<"1", "2">>, <<"a">>, <<>>, <<>> >>),
   Entry(<< <<"a">>, <<>>, <<"0", "1", "a">>, <<"2">>, <<>>, Device >>),
   Entry(<< <<"a">>, <<"x">>, <<"a">>, <<"0">>, <<>>, Device, <<>> >>),
   Entry(<< <<"a">>, <<"x">>, <<"1">>, <<"0">>, <<>>, Device, <<>>, <<>> >>)}

Pieces == [mount |-> Pairs, device |-> Tokens, passwd |-> Entries]
Text == Join(pieces, Separator[subject])
AddPiece(piece) ==
  /\ Len(pieces) < MaxPieces
  /\ pieces' = Append(pieces, piece)
------------------------------------------------------------------------------
(* What hooks find: mounts of hierarchies with names that resemble. *)

Devices == << <<"devices">> >>
Cpu == << <<"cpu">>, <<"cpu", "acct">> >>
Cpuset == << <<"cpu", "set">> >>
MCSubsystems == {<<"devices">>, <<"cpu">>}
MCHierarchies == {Devices, Cpu, Cpuset}
AB == <<"a", "b">>
MCCgroupPath == {<<>>, <<A>>, <<AB>>, <<A, B>>, <<Hidden, A>>}
Mount(type, root, h) == [type |-> type, root |-> root, hierarchy |-> h]
MCMountTables ==
  {<<Mount("cgroup", <<>>, Cpuset), Mount("cgroup", root, Devices), Mount("cgroup", <<>>, Cpu)>> :
     root \in {<<>>, <<A>>, <<Hidden, A>>}}
  \cup {<<Mount("tmpfs", <<>>, Devices), Mount("cgroup", <<>>, Cpu)>>,
        <<Mount("cgroup", <<A>>, Devices), Mount("cgroup", <<>>, Devices)>>}
------------------------------------------------------------------------------
Init ==
  /\ subject \in {"rootfs", "libs", "mount", "device", "passwd", "hook", "arguments"}
  /\ pieces = <<>>
  /\ rootfs = IF subject = "libs" THEN LibFolders ELSE {}
  /\ CgroupInit
  /\ subject # "hook" => /\ mounts = CHOOSE m \in MountTables : TRUE
                         /\ asked = CHOOSE s \in Subsystems : TRUE
                         /\ \A h \in Hierarchies : member[h] = <<>>
  /\ CLIInit

Next ==
  /\ UNCHANGED subject
  /\ \/ /\ subject = "rootfs" /\ \E n \in Nodes : MakeNode(n)
        /\ UNCHANGED <<pieces, cgroupVars, cliVars>>
     \/ /\ subject = "libs" /\ \E n \in LibNodes : MakeNode(n)
        /\ UNCHANGED <<pieces, cgroupVars, cliVars>>
     \/ /\ subject \in DOMAIN Pieces /\ \E piece \in Pieces[subject] : AddPiece(piece)
        /\ UNCHANGED <<rootfs, cgroupVars, cliVars>>
     \/ /\ subject = "hook" /\ CgroupNext
        /\ UNCHANGED <<pieces, rootfs, cliVars>>
     \/ /\ subject = "arguments" /\ CLINext
        /\ UNCHANGED <<pieces, rootfs, cgroupVars>>

Spec == Init /\ [][Next]_allVars
------------------------------------------------------------------------------
(* Properties *)

\* A path is resolved within a rootfs as by a process confined to it, whatever
\* links there are: see ResolvesLikeKernelFor.
ResolvesLikeKernel == subject = "rootfs" => \A path \in Paths : ResolvesLikeKernelFor(path)

\* The ABI of a library is never at odds with the name it was asked by: see
\* RequestedAbiPrevailsFor.
RequestedAbiPrevails ==
  subject = "libs" =>
    \A lib \in {<<d, name>> : d \in {A, B}, name \in Libs} :
      IsSharedLib(lib) /\ Lookup(AbsolutePath(lib)).found => RequestedAbiPrevailsFor(lib)

\* The order of the pairs of a mount option does not matter.
MountPairsCommute == subject = "mount" => PairsCommuteIn(pieces)

\* What the library writes it reads back: mount options, devices, passwd files.
PrintedIsReadBack ==
  CASE subject = "mount" -> MapReadBack(Text)
    [] subject = "device" -> DeviceReadBack(Text)
    [] subject = "passwd" -> EntriesReadBack(Text)
    [] OTHER -> TRUE
==============================================================================
