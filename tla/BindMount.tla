------------------------------ MODULE BindMount ------------------------------
(***************************************************************************)
(* mount::validatedBindMount (src/utility/mount.cpp), with the validation  *)
(* of its paths, the creation of the mount point and bindMount, in a       *)
(* process whose credentials are those of module Identity.  Between two    *)
(* requests the process may call switchIdentity and                        *)
(* switchToUnprivilegedProcess itself.                                     *)
(*                                                                         *)
(* The destination is a path of Depth components under the host's "/", the *)
(* first of which is rootfsDir; the links in it are resolved.  Every       *)
(* request finds the paths in a state of its own.  Besides libsarus::Error *)
(* the code below validatedBindMount throws the exceptions of boost, when  *)
(* a predicate like exists() cannot stat(2) a path.                        *)
(***************************************************************************)
EXTENDS Identity, Naturals

CONSTANTS
  Depth,       \* the components of the resolved destination
  Device,      \* the devices of the host's file systems
  NoDevice,    \* the device of a path that does not exist
  HostDevices, \* those of /tmp and, when they exist, of rootfsDir/dev and
               \* of overlay/rootfs-lower
  Switcher     \* the users whose identity the process takes on by itself

ASSUME DepthAssumption  == Depth \in Nat \ {0}
ASSUME SwitcherAssumption == Switcher \subseteq Id
ASSUME DeviceAssumption == HostDevices \subseteq Device /\ NoDevice \notin Device

VARIABLES
  pc,            \* the next step of validatedBindMount, or "idle"
  outcome,       \* how the last request ended, or "none"
  user,          \* the container user of the request
  rootIdentity,  \* the local of this name
  source,        \* what the source of the request is
  readOnly,      \* the request has MS_RDONLY
  kind,          \* kind[i]: what the component i of the destination is
  device,        \* device[i]: the device it is on
  owner,         \* owner[i]: the owner of a component that the request created
  mount          \* the attributes of the mount made on the destination

request == <<user, rootIdentity, source, readOnly>>
path    == <<kind, device, owner>>
vars    == <<cred, pc, outcome, request, path, mount>>

Component == 1..Depth
Kind == {"dir", "file", "none"}
NotCreated == "not created"
Owner == Id \cup {NotCreated}
Attribute == {"bound", "nosuid", "rdonly", "private"}

\* The control points are named for what comes next.
Step == {"idle", "become user", "validate source", "validate destination",
         "become root", "create", "filesystem user", "bind", "remount",
         "propagation", "filesystem root", "handler"}

\* "Error": rethrown by the handler; "not restored": the handler itself has
\* thrown; "exception": an exception that the handler does not catch.
Outcome == {"none", "returned", "Error", "not restored", "exception"}

\* The states in which a request may find its destination: directories down
\* to the first component that does not exist, or down to a file.
Destination ==
  {p \in [kind : [Component -> Kind], device : [Component -> Device \cup {NoDevice}]] :
     /\ p.kind[1] = "dir"
     /\ \A i \in Component \ {1} : p.kind[i] # "none" => p.kind[i - 1] = "dir"
     /\ \A i \in Component : p.kind[i] = "none" <=> p.device[i] = NoDevice}

NoDestination == [kind |-> [i \in Component |-> "none"],
                  device |-> [i \in Component |-> NoDevice]]
NoneCreated == [i \in Component |-> NotCreated]

TypeOK ==
  /\ cred \in Cred
  /\ pc \in Step
  /\ outcome \in Outcome
  /\ user \in Id
  /\ rootIdentity \in UserIdentity
  /\ source \in Kind
  /\ readOnly \in BOOLEAN
  /\ [kind |-> kind, device |-> device] \in Destination \cup {NoDestination}
  /\ owner \in [Component -> Owner]
  /\ mount \in SUBSET Attribute

Init ==
  /\ cred = RootCred
  /\ pc = "idle"
  /\ outcome = "none"
  /\ user = Root
  /\ rootIdentity = IdentityOf(Root)
  /\ source = "none"
  /\ readOnly = FALSE
  /\ kind = NoDestination.kind
  /\ device = NoDestination.device
  /\ owner = NoneCreated
  /\ mount = {}

-----------------------------------------------------------------------------
(* How the steps end *)

GoTo(next) == pc' = next /\ UNCHANGED outcome

\* A libsarus::Error: the handler is next.
ThrowError == GoTo("handler")

Leave(how) == pc' = "idle" /\ outcome' = how

\* Nobody catches the exceptions of boost.
ThrowException == Leave("exception")

-----------------------------------------------------------------------------
(* The client *)

ValidatedBindMount(u, s, ro, destination) ==
  /\ pc = "idle" /\ outcome = "none"
  /\ GoTo("become user")
  /\ user' = u
  /\ rootIdentity' = CurrentIdentity(cred)
  /\ source' = s
  /\ readOnly' = ro
  /\ kind' = destination.kind
  /\ device' = destination.device
  /\ owner' = NoneCreated
  /\ mount' = {}
  /\ UNCHANGED cred

\* The client has the result of its request, whose locals are gone.
TakeResult ==
  /\ outcome # "none"
  /\ Leave("none")
  /\ user' = Root
  /\ rootIdentity' = IdentityOf(Root)
  /\ source' = "none"
  /\ readOnly' = FALSE
  /\ kind' = NoDestination.kind
  /\ device' = NoDestination.device
  /\ owner' = NoneCreated
  /\ mount' = {}
  /\ UNCHANGED cred

\* The other functions that change the credentials, called between requests.
CallSwitchIdentity(u) ==
  /\ pc = "idle" /\ outcome = "none"
  /\ SwitchIdentity(IdentityOf(u)) \/ SwitchIdentityThrows(IdentityOf(u))
  /\ UNCHANGED <<pc, outcome, request, path, mount>>

CallSwitchToUnprivilegedProcess(u) ==
  /\ pc = "idle" /\ outcome = "none"
  /\ SwitchToUnprivilegedProcess(u, u) \/ SwitchToUnprivilegedProcessThrows(u, u)
  /\ UNCHANGED <<pc, outcome, request, path, mount>>

-----------------------------------------------------------------------------
(* As the user: the validation *)

BecomeUser ==
  /\ pc = "become user"
  /\ \/ SwitchIdentity(IdentityOf(user)) /\ GoTo("validate source")
     \/ SwitchIdentityThrows(IdentityOf(user)) /\ ThrowError
  /\ UNCHANGED <<request, path, mount>>

\* getValidatedMountSource: realpath, then exists.
GetValidatedMountSource ==
  /\ pc = "validate source"
  /\ \/ source # "none" /\ GoTo("validate destination")
     \/ (source = "none" \/ "realpath" \in Fallible) /\ ThrowError
     \/ source # "none" /\ "stat" \in Fallible /\ ThrowException
  /\ UNCHANGED <<cred, request, path, mount>>

\* The last component that exists; there is one.
DeepestExisting ==
  CHOOSE i \in Component :
    /\ kind[i] # "none"
    /\ \A j \in Component : j > i => kind[j] = "none"

\* Mutant of Checked: rootfsDir for a destination that does not exist.
CheckedRootfs ==
  IF kind[Depth] = "none" THEN 1
  ELSE IF kind[Depth] = "file" /\ Depth > 1 THEN Depth - 1 ELSE Depth

\* The component whose device is checked: the destination or, if it is a file,
\* its parent; the deepest existing component if it does not exist.
Checked ==
  IF kind[Depth] = "file" /\ Depth > 1 THEN Depth - 1 ELSE DeepestExisting

\* isPathOnAllowedDevice
IsOnAllowedDevice(i) == device[i] \in HostDevices \cup {device[1]}

\* getValidatedMountDestination, and is_directory of the source.
GetValidatedMountDestination ==
  /\ pc = "validate destination"
  /\ \/ IsOnAllowedDevice(Checked) /\ GoTo("become root")
     \/ (~IsOnAllowedDevice(Checked) \/ "stat" \in Fallible) /\ ThrowError
     \/ "stat" \in Fallible /\ ThrowException
  /\ UNCHANGED <<cred, request, path, mount>>

-----------------------------------------------------------------------------
(* As root: the mount point and the mount *)

\* Mutant of BecomeRoot: forgotten.
BecomeRootNot ==
  /\ pc = "become root"
  /\ GoTo("create")
  /\ UNCHANGED <<cred, request, path, mount>>

BecomeRoot ==
  /\ pc = "become root"
  /\ \/ SwitchIdentity(rootIdentity) /\ GoTo("create")
     \/ SwitchIdentityThrows(rootIdentity) /\ ThrowError
  /\ UNCHANGED <<request, path, mount>>

\* Mutant of CreateUpTo: mkdir of the last component alone.
CreateUpToWithoutParents(i, last) ==
  /\ kind' = [kind EXCEPT ![i] = IF @ = "none" THEN last ELSE @]
  /\ device' = [device EXCEPT ![i] = IF @ = NoDevice THEN device[DeepestExisting] ELSE @]
  /\ owner' = [owner EXCEPT ![i] = IF kind[i] = "none" THEN user ELSE @]

\* The components down to i that did not exist are made, the last of the kind
\* last; setOwner ignores that chown(2) fails, the owner is then the process.
CreateUpTo(i, last) ==
  LET new == {j \in Component : kind[j] = "none" /\ j <= i}
  IN  /\ kind' = [j \in Component |-> IF j \notin new THEN kind[j]
                                      ELSE IF j = Depth THEN last ELSE "dir"]
      /\ device' = [j \in Component |-> IF j \in new THEN device[DeepestExisting]
                                                     ELSE device[j]]
      /\ \E failed \in SUBSET new :
           /\ failed # {} => "chown" \in Fallible
           /\ owner' = [j \in Component |-> IF j \in failed THEN cred.fsuid
                                            ELSE IF j \in new THEN user
                                            ELSE owner[j]]

\* createFoldersIfNecessary or createFileIfNecessary.  Nothing can be made in
\* a file; mkdir(2) or open(2) may fail, or a predicate throw, at any component.
CreateMountPoint ==
  /\ pc = "create"
  /\ \/ /\ kind[Depth] # "none" \/ kind[DeepestExisting] = "dir"
        /\ CreateUpTo(Depth, source)
        /\ GoTo("filesystem user")
     \/ /\ kind[Depth] = "none"
        /\ kind[DeepestExisting] = "file" \/ "mkdir" \in Fallible
        /\ \E i \in DeepestExisting..Depth - 1 :
             /\ kind[DeepestExisting] = "file" => i = DeepestExisting
             /\ CreateUpTo(i, source)
        /\ ThrowError
     \/ /\ "stat" \in Fallible
        /\ IF kind[DeepestExisting] = "file"
           THEN UNCHANGED path
           ELSE \E i \in DeepestExisting..Depth : CreateUpTo(i, source)
        /\ ThrowException
  /\ UNCHANGED <<cred, request, mount>>

\* Mutant of BecomeFilesystemUser: forgotten.
BecomeFilesystemUserNot ==
  /\ pc = "filesystem user"
  /\ GoTo("bind")
  /\ UNCHANGED <<cred, request, path, mount>>

BecomeFilesystemUser ==
  /\ pc = "filesystem user"
  /\ \/ SetFilesystemUid(IdentityOf(user)) /\ GoTo("bind")
     \/ SetFilesystemUidThrows(IdentityOf(user)) /\ ThrowError
  /\ UNCHANGED <<request, path, mount>>

\* mount(2): privileged processes only.
MountCall(possible, attributes, next) ==
  /\ \/ /\ Privileged(cred) /\ possible
        /\ mount' = mount \cup attributes
        /\ GoTo(next)
     \/ /\ ~Privileged(cred) \/ ~possible \/ "mount" \in Fallible
        /\ UNCHANGED mount
        /\ ThrowError
  /\ UNCHANGED <<cred, request, path>>

\* The three calls of bindMount.  Directories go on directories, files on files.
Bind ==
  /\ pc = "bind"
  /\ MountCall((source = "dir") = (kind[Depth] = "dir"), {"bound"}, "remount")

\* Mutant of Remount: its failure is ignored.
RemountUnchecked ==
  /\ pc = "remount"
  /\ mount' \in {mount, mount \cup {"nosuid"} \cup (IF readOnly THEN {"rdonly"} ELSE {})}
  /\ GoTo("propagation")
  /\ UNCHANGED <<cred, request, path>>

Remount ==
  /\ pc = "remount"
  /\ MountCall(TRUE, {"nosuid"} \cup (IF readOnly THEN {"rdonly"} ELSE {}),
               "propagation")

MakePrivate ==
  /\ pc = "propagation"
  /\ MountCall(TRUE, {"private"}, "filesystem root")

\* Mutant of BecomeFilesystemRoot: forgotten.
BecomeFilesystemRootNot ==
  /\ pc = "filesystem root"
  /\ Leave("returned")
  /\ UNCHANGED <<cred, request, path, mount>>

BecomeFilesystemRoot ==
  /\ pc = "filesystem root"
  /\ \/ SetFilesystemUid(rootIdentity) /\ Leave("returned")
     \/ SetFilesystemUidThrows(rootIdentity) /\ ThrowError
  /\ UNCHANGED <<request, path, mount>>

\* catch (Error &e): the identity is restored and the error rethrown, unless
\* switchIdentity throws.
RestoreAndRethrow ==
  /\ pc = "handler"
  /\ \/ SwitchIdentity(rootIdentity) /\ Leave("Error")
     \/ SwitchIdentityThrows(rootIdentity) /\ Leave("not restored")
  /\ UNCHANGED <<request, path, mount>>

-----------------------------------------------------------------------------
Call ==
  \E u \in Id \ {Root} :
    \/ \E s \in Kind, ro \in BOOLEAN, destination \in Destination :
         ValidatedBindMount(u, s, ro, destination)
    \/ CallSwitchToUnprivilegedProcess(u)

Next ==
  \/ Call
  \/ TakeResult
  \/ \E u \in Switcher : CallSwitchIdentity(u)
  \/ BecomeUser
  \/ GetValidatedMountSource
  \/ GetValidatedMountDestination
  \/ BecomeRoot
  \/ CreateMountPoint
  \/ BecomeFilesystemUser
  \/ Bind
  \/ Remount
  \/ MakePrivate
  \/ BecomeFilesystemRoot
  \/ RestoreAndRethrow

Spec == Init /\ [][Next]_vars

-----------------------------------------------------------------------------
(* Properties *)

\* When validatedBindMount has returned or rethrown an Error, the effective and
\* filesystem ids of the process are its real ids again, whichever of its steps
\* failed and whatever identity the process had when it was called.
IdentityRestored ==
  pc = "idle" /\ outcome \in {"returned", "Error"} =>
    /\ cred.euid = cred.ruid
    /\ cred.fsuid = cred.ruid
    /\ cred.egid = cred.rgid

\* The paths are looked at with exactly the rights of the container user, the
\* supplementary groups included, even when an earlier request or call has
\* failed half-way.  (A process that has dropped root for good keeps no groups.)
ValidatesAsUser ==
  pc \in {"validate source", "validate destination"} =>
    /\ {cred.euid, cred.fsuid, cred.egid} = {user}
    /\ cred.ruid = Root => cred.groups = gids[user]

\* Every mount(2) that succeeds is made by root with the filesystem uid of the
\* user, which is what mounts of root-squashed file systems need.
MountsAsRootAndUser ==
  [][mount' # mount /\ mount' # {} => cred.euid = Root /\ cred.fsuid = user]_vars

\* Nothing is created or mounted for a request whose source does not exist or
\* whose mount point would not be on an allowed device: what was validated
\* before is true of the mount point that is created and mounted on later.
OnlyValidatedChanges ==
  mount # {} \/ (\E i \in Component : owner[i] # NotCreated) =>
    /\ source # "none"
    /\ IsOnAllowedDevice(IF kind[Depth] = "file" THEN Depth - 1 ELSE DeepestExisting)

\* A request that returns has made the whole mount, with the flags asked for.
ReturnedIsMounted ==
  outcome = "returned" =>
    mount = IF readOnly THEN Attribute ELSE Attribute \ {"rdonly"}

\* switchToUnprivilegedProcess is for good: nothing that the process calls
\* afterwards gives it back root or a group.
DroppedForGood ==
  cred.noNewPrivs =>
    /\ Root \notin {cred.ruid, cred.euid, cred.suid, cred.fsuid,
                    cred.rgid, cred.egid, cred.sgid}
    /\ cred.groups = {}

\* "Restore root identity in case the exception happened while having a
\* non-privileged id" (src/utility/mount.cpp:245): the supplementary groups are
\* part of a UserIdentity.  Checked by violation runs.
GroupsRestored ==
  pc = "idle" /\ outcome = "Error" => cred.groups = rootIdentity.supplementaryGids

\* The same comment, for the exceptions of boost.
RestoredAfterException ==
  pc = "idle" /\ outcome = "exception" => cred.euid = rootIdentity.uid

\* "Always assign ownership of the newly-created mount point to the container
\* user" (src/utility/mount.cpp:226).
MountPointOwned ==
  outcome = "returned" => owner[Depth] \in {user, NotCreated}
=============================================================================
