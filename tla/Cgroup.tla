------------------------------- MODULE Cgroup -------------------------------
(***************************************************************************)
(* The cgroup functions of utility/hook.cpp: a hook finds the cgroup of    *)
(* the container's process for a subsystem and whitelists a device in it,  *)
(* while the process may exit, or be moved to another cgroup, and cgroups  *)
(* that are empty may be removed.                                          *)
(*                                                                         *)
(* A hierarchy is a sequence of controllers.  A cgroup is the sequence of  *)
(* its names below the root of its hierarchy.                              *)
(***************************************************************************)
EXTENDS Strings

CONSTANTS
  Subsystems,   \* the names that are looked up
  Hierarchies,  \* the cgroup v1 hierarchies, sequences of names
  CgroupPath,   \* the cgroups there may be, of every hierarchy
  MountTables,  \* mountinfo: sequences of [type, root, hierarchy]
  MaxMoves      \* bound on the moves of the process and the removals of cgroups

\* A controller is in one hierarchy: cgroups(7).
IsSequence(s) == s \in Seq(ToSet(s))
ASSUME HierarchyAssumption ==
  /\ IsFiniteSet(Hierarchies) /\ \A h \in Hierarchies : IsSequence(h)
  /\ \A h, k \in Hierarchies : ToSet(h) \cap ToSet(k) # {} => h = k
ASSUME PathAssumption == \A q \in CgroupPath : IsSequence(q)
ASSUME MountAssumption ==
  \A m \in MountTables :
    /\ IsSequence(m)
    /\ \A i \in DOMAIN m : m[i].hierarchy \in Hierarchies /\ IsSequence(m[i].root)

\* The first name of a cgroup outside the cgroup namespace, and of a path that
\* leaves the mount point.
Hidden == <<"..">>

VARIABLES
  mounts,     \* the mount table
  cgroups,    \* cgroups[h]: the cgroups there are
  member,     \* member[h]: the cgroup of the process
  exited,     \* the process is gone, and its files in /proc
  moves,
  hook,       \* where the hook is
  asked,      \* the subsystem it looks for
  mount,      \* the mount it found
  relative,   \* the path below the mount point that it found
  allowed,    \* the cgroups in which the device is whitelisted
  been        \* for the properties: the cgroups of the process since the call

kernelVars == <<mounts, cgroups, member, exited, moves>>
hookVars == <<hook, asked, mount, relative, allowed>>
cgroupVars == <<kernelVars, hookVars, been>>

CgroupInit ==
  /\ mounts \in MountTables
  /\ cgroups = [h \in Hierarchies |-> CgroupPath]
  /\ \E q \in CgroupPath : member = [h \in Hierarchies |-> q]
  /\ exited = FALSE /\ moves = 0
  /\ hook = "mountinfo" /\ asked \in Subsystems
  /\ mount = 0 /\ relative = <<>> /\ allowed = {}
  /\ been = {<<h, member[h]>> : h \in Hierarchies}
------------------------------------------------------------------------------
(* The process and its administrator *)

Occupied(h) == {q \in CgroupPath : ~exited /\ IsPrefix(q, member[h])}

MoveProcess(h, q) ==
  /\ ~exited /\ moves < MaxMoves /\ q \in cgroups[h]
  /\ member' = [member EXCEPT ![h] = q]
  /\ moves' = moves + 1
  /\ been' = been \cup {<<h, q>>}
  /\ UNCHANGED <<mounts, cgroups, exited, hookVars>>

RemoveCgroup(h, q) ==
  /\ moves < MaxMoves /\ q \in cgroups[h] \ Occupied(h)
  /\ \A d \in cgroups[h] : ~IsStrictPrefix(q, d)
  /\ cgroups' = [cgroups EXCEPT ![h] = @ \ {q}]
  /\ moves' = moves + 1
  /\ UNCHANGED <<mounts, member, exited, hookVars, been>>

Exit ==
  /\ ~exited
  /\ exited' = TRUE
  /\ UNCHANGED <<mounts, cgroups, member, moves, hookVars, been>>
------------------------------------------------------------------------------
(* The hook *)

\* std::string::find in a list of names: cpu is found in cpuset.  What is looked
\* for has no comma, so that it is found in one of the names.
Occurs(part, name) == part \in {SubSeq(name, i, i + Len(part) - 1) : i \in DOMAIN name}
Finds(h, part) == \E name \in ToSet(h) : Occurs(part, name)
FindsAsked(h) == Finds(h, asked)
PathString(q) == FlattenSeq([i \in DOMAIN q |-> <<Slash>> \o q[i]])
Outside(q) == q # <<>> /\ Head(q) = Hidden

\* boost::filesystem::relative, lexically.
Relative(q, base) ==
  LET common == Len(LongestCommonPrefix({q, base}))
  IN [i \in 1..(Len(base) - common) |-> Hidden] \o SubSeq(q, common + 1, Len(q))

Goes(to) == hook' = to
HookStep(at) == hook = at /\ UNCHANGED <<kernelVars, asked, been>>

\* The first mount of a hierarchy with that name.
FindSubsystemMountPaths ==
  LET lines == IF exited THEN {}
               ELSE {i \in DOMAIN mounts :
                       mounts[i].type = "cgroup" /\ FindsAsked(mounts[i].hierarchy)}
      first == CHOOSE i \in lines : \A j \in lines : i <= j
  IN /\ HookStep("mountinfo")
     /\ IF lines = {} \/ Outside(mounts[first].root)
        THEN Goes("error") /\ UNCHANGED mount
        ELSE Goes("cgroup") /\ mount' = first
     /\ UNCHANGED <<relative, allowed>>

\* The lines of /proc/pid/cgroup are in no particular order.
CgroupLines == SetToSeqs(Hierarchies)

\* When no line has the name, the loop ends with the empty string behind the
\* last newline and reads fields it does not have; so it does when the process
\* is gone and the file reads as nothing.
FindCgroupPathInHierarchy ==
  LET root == mounts[mount].root IN
  /\ HookStep("cgroup")
  /\ \E lines \in CgroupLines :
       LET line == IF exited THEN 0
                   ELSE SelectInSeq(lines, FindsAsked)
           q    == member[lines[line]]
       IN CASE line = 0 -> Goes("undefined") /\ UNCHANGED relative
            [] line # 0 /\ Outside(q) -> Goes("error") /\ UNCHANGED relative
            [] OTHER ->
                 /\ relative' = IF root # <<>> /\ StartsWith(PathString(q), PathString(root))
                                THEN Relative(q, root) ELSE q
                 /\ Goes("found")
  /\ UNCHANGED <<mount, allowed>>

\* What the mount point shows at a path below it: Hidden leads elsewhere.
Hierarchy == mounts[mount].hierarchy
Shown == mounts[mount].root \o relative

\* Mutant of FindCgroupPath: the folder is not looked for.
FindCgroupPathUnchecked ==
  HookStep("found") /\ Goes("whitelist") /\ UNCHANGED <<mount, relative, allowed>>

FindCgroupPath ==
  /\ HookStep("found")
  /\ Goes(IF ~Outside(relative) /\ Shown \in cgroups[Hierarchy] THEN "whitelist" ELSE "error")
  /\ UNCHANGED <<mount, relative, allowed>>

\* writeTextFile makes the folders that are missing, and a folder made there is
\* a cgroup.  The file it opens is that of the devices controller.
WhitelistDeviceInCgroup ==
  /\ hook = "whitelist"
  /\ cgroups' = [cgroups EXCEPT ![Hierarchy] = @ \cup Prefixes(Shown)]
  /\ IF <<"devices">> \in ToSet(Hierarchy)
     THEN Goes("done") /\ allowed' = allowed \cup {<<Hierarchy, Shown>>}
     ELSE Goes("error") /\ UNCHANGED allowed
  /\ UNCHANGED <<mounts, member, exited, moves, asked, mount, relative, been>>

\* getDeviceType throws.
NotADevice ==
  /\ HookStep("whitelist")
  /\ Goes("error")
  /\ UNCHANGED <<mount, relative, allowed>>

HookNext == \/ FindSubsystemMountPaths \/ FindCgroupPathInHierarchy
            \/ FindCgroupPath \/ WhitelistDeviceInCgroup \/ NotADevice

CgroupNext ==
  \/ \E h \in Hierarchies : \E q \in CgroupPath : MoveProcess(h, q) \/ RemoveCgroup(h, q)
  \/ Exit
  \/ HookNext

CgroupSpec == CgroupInit /\ [][CgroupNext]_cgroupVars
------------------------------------------------------------------------------
(* Properties *)

\* No other controller has the name in its own; every cgroup that the process
\* has been in is below the root of the mount, or is named as if it were.
Unambiguous ==
  \A h \in Hierarchies : \A c \in ToSet(h) : Occurs(asked, c) => c = asked
Visible ==
  \A c \in been : c[1] = Hierarchy => StartsWith(PathString(c[2]), PathString(mounts[mount].root))

\* The cgroup in which the hook whitelists a device is one that the process was
\* in during the call, whatever is moved and removed meanwhile, and the hook
\* reads past a line only when the process has gone.
CgroupIsTheProcesses ==
  /\ Unambiguous /\ mount # 0 /\ Visible =>
       /\ hook = "whitelist" => <<Hierarchy, Shown>> \in been
       /\ allowed \subseteq been
  /\ hook = "undefined" => exited
==============================================================================
